------------------------ MODULE CommandChannelProofs ------------------------
(***************************************************************************)
(* Safety of CommandChannel for every set of messages, every number of     *)
(* reads and whatever the master does, busy or patient.                    *)
(*                                                                         *)
(* DoorClosed and AtMostOncePerAcceptance are not inductive.  They rest on *)
(* the order of the first lines of the routines: SETUP and HOMING change   *)
(* the state while the flag is still set (DoorOrder), so no message can    *)
(* set it again once it is cleared; and a routine is only entered with the *)
(* flag set (FlagHeld), so each start consumes one acceptance (Ledger).    *)
(*                                                                         *)
(* The second part is about a patient master: it finds the controller idle *)
(* (Heard), and the channel serves it as CommandService says.              *)
(***************************************************************************)
EXTENDS CommandChannel, FiniteSetTheorems, SequenceTheorems, TLAPS

DoorOrder ==
  /\ pc = "setup_clear" => system_state = "CONFIGURING"
  /\ pc = "homing_clear" => system_state = "CALIBRATING"

FlagHeld ==
  /\ pc \in {"dispatch", "setup_enter", "setup_clear", "target_copy",
             "target_clear", "homing_enter", "homing_clear"}
       => command_pending
  /\ command_pending => active_command_msg \in Commands

ReadsLeft == pc \in {"setup_read", "target_copy"} => reads # 0

Ledger ==
  /\ nStarted <= nAccepted
  /\ command_pending => nStarted < nAccepted

IInv ==
  /\ TypeOK
  /\ StateShowsRoutine
  /\ DoorOrder
  /\ DoorClosed
  /\ FlagHeld
  /\ ReadsLeft
  /\ Ledger

\* Before main reaches its loop nothing is pending and nothing has started.
LEMMA InitInv == Init => IInv
<1> SUFFICES ASSUME Init PROVE IInv
  OBVIOUS
<1>1. command_link \in Seq(Commands) /\ feedback_link \in Seq(SystemStates)
  BY DEF Init
<1>2. TypeOK
  BY <1>1 DEF Init, TypeOK, SystemStates, ThreadPoints, MayFreeze
<1>3. StateShowsRoutine /\ DoorOrder /\ DoorClosed /\ FlagHeld
  BY DEF Init, StateShowsRoutine, DoorOrder, DoorClosed, FlagHeld
<1>4. ReadsLeft /\ Ledger
  BY DEF Init, ReadsLeft, Ledger
<1>. QED BY <1>2, <1>3, <1>4 DEF IInv

\* The master and the two topics touch nothing the firmware keeps.
LEMMA MasterInv == IInv /\ Master => IInv'
<1> SUFFICES ASSUME IInv, Master PROVE IInv'
  OBVIOUS
<1> USE DEF IInv, TypeOK, StateShowsRoutine, DoorOrder, DoorClosed, FlagHeld,
            ReadsLeft, Ledger, shared, thread, history, vars
<1>1. CASE MasterHears
  <2>1. Head(feedback_link) \in SystemStates
    BY <1>1 DEF MasterHears
  <2>2. Tail(feedback_link) \in Seq(SystemStates)
    BY <1>1 DEF MasterHears
  <2>. QED BY <1>1, <2>1, <2>2 DEF MasterHears
<1>2. ASSUME NEW c \in Commands, MasterSend(c) PROVE IInv'
  <2>1. Append(command_link, c) \in Seq(Commands)
    OBVIOUS
  <2>. QED BY <1>2, <2>1 DEF MasterSend
<1>. QED BY <1>1, <1>2 DEF Master

\* The main thread sets the flag only when the state is READY.
LEMMA MainThreadInv == IInv /\ MainThread => IInv'
<1> SUFFICES ASSUME IInv, MainThread PROVE IInv'
  OBVIOUS
<1> USE DEF IInv, TypeOK, StateShowsRoutine, DoorOrder, DoorClosed, FlagHeld,
            ReadsLeft, Ledger, shared, thread, links, history
<1>1. CASE Boot
  BY <1>1 DEF Boot, SystemStates, ThreadPoints
<1>2. CASE CommandCallback
  <2>1. /\ Head(command_link) \in Commands
        /\ Tail(command_link) \in Seq(Commands)
    BY <1>2 DEF CommandCallback
  <2>2. TypeOK'
    <3>1. command_pending' \in BOOLEAN /\ seen_busy' \in BOOLEAN
      BY <1>2, Zenon DEF CommandCallback
    <3>2. nAccepted' \in Nat
      BY <1>2 DEF CommandCallback
    <3>3. accepted' \in SUBSET Commands /\ ignored' \in SUBSET Commands
      BY <1>2, <2>1 DEF CommandCallback
    <3>. QED BY <1>2, <2>1, <3>1, <3>2, <3>3 DEF CommandCallback
  <2> UNCHANGED <<system_state, pc, reads>>
    BY <1>2 DEF CommandCallback
  <2>3. (StateShowsRoutine /\ DoorOrder /\ ReadsLeft)'
    OBVIOUS
  <2>4. DoorClosed'
    BY <1>2 DEF CommandCallback
  <2>5. FlagHeld'
    BY <1>2, <2>1 DEF CommandCallback
  <2>6. Ledger'
    BY <1>2 DEF CommandCallback
  <2>. QED BY <2>2, <2>3, <2>4, <2>5, <2>6
<1>3. CASE TimerCallback
  <2>1. Append(feedback_link, system_state) \in Seq(SystemStates)
    OBVIOUS
  <2>. QED BY <1>3, <2>1 DEF TimerCallback
<1>. QED BY <1>1, <1>2, <1>3 DEF MainThread

\* The command thread: polling and the switch on command_type.
LEMMA DispatchInv == IInv /\ (Poll \/ Dispatch) => IInv'
<1> SUFFICES ASSUME IInv, Poll \/ Dispatch PROVE IInv'
  OBVIOUS
<1> USE DEF IInv, TypeOK, StateShowsRoutine, DoorOrder, DoorClosed, FlagHeld,
            ReadsLeft, Ledger, shared, links, history, ThreadPoints
<1>1. CASE Poll
  BY <1>1 DEF Poll, Goto
<1>2. CASE Dispatch
  <2> DEFINE type == TypeOf[active_command_msg]
  <2>1. type \in RoutineTypes \cup {"unknown"} /\ active_command_msg \in Commands
    BY <1>2, TypeOfAssumption DEF Dispatch
  <2>2. CASE type = "unknown"
    BY <1>2, <2>2 DEF Dispatch
  <2>3. CASE type # "unknown"
    <3>1. /\ routine' = type
          /\ used' = {active_command_msg}
          /\ reads' = IF type = "TARGET" THEN CopyReads ELSE reads
          /\ pc' \in {"setup_enter", "target_copy", "homing_enter"}
          /\ pc' = "target_copy" => type = "TARGET"
          /\ UNCHANGED <<shared, frozen, links, history>>
      BY <1>2, <2>1, <2>3 DEF Dispatch
    <3>2. reads' \in Nat
      BY <3>1, ReadsAssumption
    <3>3. pc' = "target_copy" => reads' # 0
      BY <3>1, ReadsAssumption
    <3>4. pc = "dispatch"
      BY <1>2 DEF Dispatch
    <3>. QED BY <2>1, <2>3, <3>1, <3>2, <3>3, <3>4
  <2>. QED BY <2>2, <2>3
<1>. QED BY <1>1, <1>2

\* handle_setup.
LEMMA SetupInv ==
  IInv /\ (SetupEnter \/ SetupClear \/ SetupRead \/ SetupLeave) => IInv'
<1> SUFFICES ASSUME IInv, SetupEnter \/ SetupClear \/ SetupRead \/ SetupLeave
             PROVE IInv'
  OBVIOUS
<1> USE DEF IInv, TypeOK, StateShowsRoutine, DoorOrder, DoorClosed, FlagHeld,
            ReadsLeft, Ledger, shared, links, history, ThreadPoints, Goto,
            SystemStates
<1>1. CASE SetupEnter
  BY <1>1 DEF SetupEnter, SetState
<1>2. CASE SetupClear
  <2>1. TypeOK'
    <3>1. command_pending' \in BOOLEAN /\ seen_busy' \in BOOLEAN
      BY <1>2, Zenon DEF SetupClear, ClearPending
    <3>2. nStarted' \in Nat /\ reads' \in Nat
      BY <1>2, ReadsAssumption, SMT DEF SetupClear, ClearPending
    <3>. QED BY <1>2, <3>1, <3>2, SMT DEF SetupClear, ClearPending
  <2>2. (StateShowsRoutine /\ DoorOrder /\ ReadsLeft)'
    BY <1>2, ReadsAssumption DEF SetupClear, ClearPending
  <2>3. (DoorClosed /\ FlagHeld)'
    BY <1>2, Zenon DEF SetupClear, ClearPending
  <2>4. command_pending
    BY <1>2 DEF SetupClear
  <2>5. Ledger'
    BY <1>2, <2>4 DEF SetupClear, ClearPending
  <2>. QED BY <2>1, <2>2, <2>3, <2>5
<1>3. CASE SetupRead
  BY <1>3 DEF SetupRead, ReadCommand
<1>4. CASE SetupLeave
  BY <1>4 DEF SetupLeave, Leave, MayFreeze
<1>. QED BY <1>1, <1>2, <1>3, <1>4

\* handle_target.
LEMMA TargetInv ==
  IInv /\ (TargetCopy \/ TargetClear \/ TargetEnter \/ TargetWork \/ TargetLeave)
    => IInv'
<1> SUFFICES ASSUME IInv, TargetCopy \/ TargetClear \/ TargetEnter
                          \/ TargetWork \/ TargetLeave
             PROVE IInv'
  OBVIOUS
<1> USE DEF IInv, TypeOK, StateShowsRoutine, DoorOrder, DoorClosed, FlagHeld,
            ReadsLeft, Ledger, shared, links, history, ThreadPoints, Goto,
            SystemStates
<1>1. CASE TargetCopy
  BY <1>1 DEF TargetCopy, ReadCommand
<1>2. CASE TargetClear
  <2>1. TypeOK'
    <3>1. command_pending' \in BOOLEAN /\ seen_busy' \in BOOLEAN
      BY <1>2, Zenon DEF TargetClear, ClearPending
    <3>2. nStarted' \in Nat /\ reads' \in Nat
      BY <1>2, SMT DEF TargetClear, ClearPending
    <3>. QED BY <1>2, <3>1, <3>2, SMT DEF TargetClear, ClearPending
  <2>2. (StateShowsRoutine /\ DoorOrder /\ ReadsLeft)'
    BY <1>2 DEF TargetClear, ClearPending
  <2>3. (DoorClosed /\ FlagHeld)'
    BY <1>2, Zenon DEF TargetClear, ClearPending
  <2>4. command_pending
    BY <1>2 DEF TargetClear
  <2>5. Ledger'
    BY <1>2, <2>4 DEF TargetClear, ClearPending
  <2>. QED BY <2>1, <2>2, <2>3, <2>5
<1>3. CASE TargetEnter
  BY <1>3 DEF TargetEnter, SetState
<1>4. CASE TargetWork
  BY <1>4 DEF TargetWork
<1>5. CASE TargetLeave
  BY <1>5 DEF TargetLeave, Leave
<1>. QED BY <1>1, <1>2, <1>3, <1>4, <1>5

\* handle_homing.
LEMMA HomingInv ==
  IInv /\ (HomingEnter \/ HomingClear \/ HomingWork \/ HomingLeave) => IInv'
<1> SUFFICES ASSUME IInv, HomingEnter \/ HomingClear \/ HomingWork \/ HomingLeave
             PROVE IInv'
  OBVIOUS
<1> USE DEF IInv, TypeOK, StateShowsRoutine, DoorOrder, DoorClosed, FlagHeld,
            ReadsLeft, Ledger, shared, links, history, ThreadPoints, Goto,
            SystemStates
<1>1. CASE HomingEnter
  BY <1>1 DEF HomingEnter, SetState
<1>2. CASE HomingClear
  <2>1. TypeOK'
    <3>1. command_pending' \in BOOLEAN /\ seen_busy' \in BOOLEAN
      BY <1>2, Zenon DEF HomingClear, ClearPending
    <3>2. nStarted' \in Nat /\ reads' \in Nat
      BY <1>2, SMT DEF HomingClear, ClearPending
    <3>. QED BY <1>2, <3>1, <3>2, SMT DEF HomingClear, ClearPending
  <2>2. (StateShowsRoutine /\ DoorOrder /\ ReadsLeft)'
    BY <1>2 DEF HomingClear, ClearPending
  <2>3. (DoorClosed /\ FlagHeld)'
    BY <1>2, Zenon DEF HomingClear, ClearPending
  <2>4. command_pending
    BY <1>2 DEF HomingClear
  <2>5. Ledger'
    BY <1>2, <2>4 DEF HomingClear, ClearPending
  <2>. QED BY <2>1, <2>2, <2>3, <2>5
<1>3. CASE HomingWork
  BY <1>3 DEF HomingWork
<1>4. CASE HomingLeave
  BY <1>4 DEF HomingLeave, Leave
<1>. QED BY <1>1, <1>2, <1>3, <1>4

\* Every step of the system keeps the inductive invariant.
LEMMA NextInv == IInv /\ [Next]_vars => IInv'
<1> SUFFICES ASSUME IInv, [Next]_vars PROVE IInv'
  OBVIOUS
<1>1. CASE MainThread
  BY <1>1, MainThreadInv
<1>2. CASE CommandThread
  BY <1>2, DispatchInv, SetupInv, TargetInv, HomingInv DEF CommandThread
<1>3. CASE Master
  BY <1>3, MasterInv
<1>4. CASE UNCHANGED vars
  BY <1>4 DEF IInv, TypeOK, StateShowsRoutine, DoorOrder, DoorClosed, FlagHeld,
              ReadsLeft, Ledger, vars, shared, thread, links, history
<1>. QED BY <1>1, <1>2, <1>3, <1>4 DEF Next

LEMMA Invariance == Spec => []IInv
  BY InitInv, NextInv, PTL DEF Spec

\* The globals, the thread and the links keep their ranges; in particular the
\* buffer the thread dispatches on holds a published message.
THEOREM TypeCorrect == Spec => []TypeOK
<1>1. IInv => TypeOK
  BY DEF IInv
<1>. QED BY <1>1, Invariance, PTL

\* The state in the feedback is that of the routine at work.
THEOREM StateIsTruthful == Spec => []StateShowsRoutine
<1>1. IInv => StateShowsRoutine
  BY DEF IInv
<1>. QED BY <1>1, Invariance, PTL

\* No message is accepted while SETUP or HOMING is past its flag.
THEOREM DoorStaysClosed == Spec => []DoorClosed
<1>1. IInv => DoorClosed
  BY DEF IInv
<1>. QED BY <1>1, Invariance, PTL

\* One acceptance starts at most one routine.
THEOREM AtMostOnce == Spec => []AtMostOncePerAcceptance
<1>1. IInv => AtMostOncePerAcceptance
  BY DEF IInv, Ledger, AtMostOncePerAcceptance
<1>. QED BY <1>1, Invariance, PTL

-----------------------------------------------------------------------------
(* A patient master, one that has heard a busy state and then READY, finds *)
(* the controller idle, so no message comes while a routine runs or is     *)
(* about to.  The argument is about the feedback still in transit: between *)
(* two commands it is READY up to some message, busy up to another, and    *)
(* READY from there on.                                                    *)

AllReady(f) == \A i \in 1..Len(f) : f[i] = "READY"
AllBusy(f) == \A i \in 1..Len(f) : f[i] # "READY"
BusyToTheEnd(f) ==
  \A i, j \in 1..Len(f) : i < j /\ f[i] # "READY" => f[j] # "READY"
ReadyToTheEnd(f) ==
  \A i, j \in 1..Len(f) : i < j /\ f[i] = "READY" => f[j] = "READY"
OnePeriod(f) ==
  \A i, j, k \in 1..Len(f) :
    i < j /\ j < k /\ f[i] # "READY" /\ f[j] = "READY" => f[k] = "READY"

Idle == pc = "poll" /\ ~command_pending
Before == system_state = "READY" /\ pc # "off" /\ ~Idle
Busy == system_state # "READY" /\ pc # "off"

\* What the master has heard and what is in transit, by what the controller does.
Heard ==
  /\ pc = "off" =>
       /\ command_link = <<>> /\ ~command_pending
       /\ feedback_link = <<>> /\ view = "none"
  /\ command_link # <<>> =>
       Len(command_link) = 1 /\ Idle /\ AllReady(feedback_link) /\ ~seen_busy
  /\ Before => AllReady(feedback_link) /\ ~seen_busy
  /\ Busy =>
       /\ BusyToTheEnd(feedback_link)
       /\ seen_busy => AllBusy(feedback_link) /\ view # "READY"
  /\ Idle =>
       /\ OnePeriod(feedback_link)
       /\ seen_busy => ReadyToTheEnd(feedback_link)
       /\ seen_busy /\ view = "READY" => AllReady(feedback_link)

\* A routine consumes the message in the buffer, which nothing replaces.
Whole ==
  /\ pc \in {"off", "poll", "dispatch"} => used = {}
  /\ pc \notin {"off", "poll", "dispatch"} =>
       used = {active_command_msg} /\ routine = TypeOf[active_command_msg]
  /\ pc \in {"target_enter", "target_work", "target_leave"} => ~command_pending

HInv == IInv /\ Heard /\ Whole /\ NoAcceptedLost

-----------------------------------------------------------------------------
(* One feedback message more, or the first one taken. *)

LEMMA AppendIndex ==
  ASSUME NEW S, NEW f \in Seq(S), NEW s \in S
  PROVE  /\ Len(Append(f, s)) = Len(f) + 1
         /\ \A i \in 1..Len(f) : Append(f, s)[i] = f[i]
         /\ Append(f, s)[Len(f) + 1] = s
  OBVIOUS

LEMMA TailIndex ==
  ASSUME NEW S, NEW f \in Seq(S), f # <<>>
  PROVE  /\ Len(Tail(f)) = Len(f) - 1 /\ Len(f) > 0 /\ Len(f) \in Nat
         /\ \A i \in 1..Len(f) - 1 : Tail(f)[i] = f[i + 1]
         /\ Head(f) = f[1]
  OBVIOUS

LEMMA AppendKeeps ==
  ASSUME NEW S, NEW f \in Seq(S), NEW s \in S
  PROVE  /\ s = "READY" /\ AllReady(f) => AllReady(Append(f, s))
         /\ s # "READY" /\ AllBusy(f) => AllBusy(Append(f, s))
         /\ s # "READY" /\ BusyToTheEnd(f) => BusyToTheEnd(Append(f, s))
         /\ s = "READY" /\ ReadyToTheEnd(f) => ReadyToTheEnd(Append(f, s))
         /\ s = "READY" /\ OnePeriod(f) => OnePeriod(Append(f, s))
<1> DEFINE g == Append(f, s)
           n == Len(f)
<1>1. /\ Len(g) = n + 1 /\ n \in Nat
      /\ \A i \in 1..n : g[i] = f[i]
      /\ g[n + 1] = s
  BY AppendIndex
<1> HIDE DEF g, n
<1>2. \A i \in 1..Len(g) : i \in 1..n \/ i = n + 1
  BY <1>1
<1>3. n = Len(f)
  BY DEF n
<1>4. s = "READY" /\ AllReady(f) => AllReady(g)
  BY <1>1, <1>2, <1>3 DEF AllReady
<1>5. s # "READY" /\ AllBusy(f) => AllBusy(g)
  BY <1>1, <1>2, <1>3 DEF AllBusy
<1>6. s # "READY" /\ BusyToTheEnd(f) => BusyToTheEnd(g)
  BY <1>1, <1>2, <1>3 DEF BusyToTheEnd
<1>7. s = "READY" /\ ReadyToTheEnd(f) => ReadyToTheEnd(g)
  BY <1>1, <1>2, <1>3 DEF ReadyToTheEnd
<1>8. s = "READY" /\ OnePeriod(f) => OnePeriod(g)
  BY <1>1, <1>2, <1>3 DEF OnePeriod
<1> QED
  BY <1>4, <1>5, <1>6, <1>7, <1>8 DEF g

LEMMA TailKeeps ==
  ASSUME NEW S, NEW f \in Seq(S), f # <<>>
  PROVE  /\ AllReady(f) => Head(f) = "READY" /\ AllReady(Tail(f))
         /\ AllBusy(f) => Head(f) # "READY" /\ AllBusy(Tail(f))
         /\ BusyToTheEnd(f) => BusyToTheEnd(Tail(f))
         /\ BusyToTheEnd(f) /\ Head(f) # "READY" => AllBusy(Tail(f))
         /\ ReadyToTheEnd(f) => ReadyToTheEnd(Tail(f))
         /\ ReadyToTheEnd(f) /\ Head(f) = "READY" => AllReady(Tail(f))
         /\ OnePeriod(f) => OnePeriod(Tail(f))
         /\ OnePeriod(f) /\ Head(f) # "READY" => ReadyToTheEnd(Tail(f))
<1> DEFINE g == Tail(f)
           n == Len(f)
<1>1. /\ Len(g) = n - 1 /\ n > 0 /\ n \in Nat
      /\ \A i \in 1..n - 1 : g[i] = f[i + 1]
      /\ Head(f) = f[1]
  BY TailIndex
<1> HIDE DEF g, n
<1>2. \A i \in 1..Len(g) : i + 1 \in 1..n /\ g[i] = f[i + 1]
  BY <1>1
<1>3. n = Len(f) /\ 1 \in 1..n
  BY <1>1 DEF n
<1>4. AllReady(f) => Head(f) = "READY" /\ AllReady(g)
  BY <1>1, <1>2, <1>3 DEF AllReady
<1>5. AllBusy(f) => Head(f) # "READY" /\ AllBusy(g)
  BY <1>1, <1>2, <1>3 DEF AllBusy
<1>6. BusyToTheEnd(f) => BusyToTheEnd(g)
  BY <1>1, <1>2, <1>3 DEF BusyToTheEnd
<1>7. BusyToTheEnd(f) /\ Head(f) # "READY" => AllBusy(g)
  BY <1>1, <1>2, <1>3 DEF BusyToTheEnd, AllBusy
<1>8. ReadyToTheEnd(f) => ReadyToTheEnd(g)
  BY <1>1, <1>2, <1>3 DEF ReadyToTheEnd
<1>9. ReadyToTheEnd(f) /\ Head(f) = "READY" => AllReady(g)
  BY <1>1, <1>2, <1>3 DEF ReadyToTheEnd, AllReady
<1>10. OnePeriod(f) => OnePeriod(g)
  <2>1. ASSUME OnePeriod(f), NEW i \in 1..Len(g), NEW j \in 1..Len(g),
               NEW k \in 1..Len(g), i < j, j < k,
               g[i] # "READY", g[j] = "READY"
        PROVE  g[k] = "READY"
    <3>1. /\ i + 1 \in 1..Len(f) /\ j + 1 \in 1..Len(f) /\ k + 1 \in 1..Len(f)
          /\ f[i + 1] # "READY" /\ f[j + 1] = "READY" /\ g[k] = f[k + 1]
      BY <2>1, <1>2, <1>3
    <3>2. i + 1 < j + 1 /\ j + 1 < k + 1
      BY <2>1, <1>1
    <3>. QED BY <2>1, <3>1, <3>2 DEF OnePeriod
  <2>. QED BY <2>1 DEF OnePeriod
<1>11. OnePeriod(f) /\ Head(f) # "READY" => ReadyToTheEnd(g)
  BY <1>1, <1>2, <1>3 DEF OnePeriod, ReadyToTheEnd
<1> QED
  BY <1>4, <1>5, <1>6, <1>7, <1>8, <1>9, <1>10, <1>11 DEF g

LEMMA EmptyLink ==
  /\ AllReady(<<>>) /\ BusyToTheEnd(<<>>) /\ AllBusy(<<>>)
  /\ ReadyToTheEnd(<<>>) /\ OnePeriod(<<>>)
BY DEF AllReady, BusyToTheEnd, AllBusy, ReadyToTheEnd, OnePeriod

\* Whatever is all READY, or all busy, changes at most once.
LEMMA Uniform ==
  ASSUME NEW S, NEW f \in Seq(S)
  PROVE  /\ AllReady(f) => ReadyToTheEnd(f) /\ OnePeriod(f) /\ BusyToTheEnd(f)
         /\ AllBusy(f) => ReadyToTheEnd(f) /\ OnePeriod(f) /\ BusyToTheEnd(f)
         /\ BusyToTheEnd(f) => OnePeriod(f)
BY DEF AllReady, BusyToTheEnd, AllBusy, ReadyToTheEnd, OnePeriod

-----------------------------------------------------------------------------
(* The steps. *)

LEMMA HStarts == Init => HInv
<1> SUFFICES ASSUME Init PROVE HInv
  OBVIOUS
<1>1. IInv
  BY InitInv
<1>2. Heard
  BY DEF Init, Heard, Before, Busy, Idle
<1>3. Whole /\ NoAcceptedLost
  BY DEF Init, Whole, NoAcceptedLost
<1>. QED BY <1>1, <1>2, <1>3 DEF HInv

\* The master has heard busy and then READY: the controller is idle.
LEMMA MasterSendHears ==
  ASSUME HInv, MasterMode = "handshake", NEW c \in Commands, MasterSend(c)
  PROVE  Heard' /\ Whole' /\ NoAcceptedLost'
<1>1. seen_busy /\ view = "READY" /\ pc # "off"
  BY DEF MasterSend, MasterMaySend
<1>2. ~Before /\ ~Busy
  BY <1>1 DEF HInv, Heard
<1>3. Idle
  BY <1>1, <1>2 DEF Before, Busy, Idle
<1>4. /\ command_link = <<>>
      /\ OnePeriod(feedback_link) /\ AllReady(feedback_link)
  BY <1>1, <1>3 DEF HInv, Heard
<1>5. Len(Append(command_link, c)) = 1
  BY <1>4
<1>6. Heard'
  BY <1>1, <1>2, <1>3, <1>4, <1>5
     DEF MasterSend, Heard, Before, Busy, Idle, shared, thread
<1>7. Whole' /\ NoAcceptedLost'
  BY DEF HInv, MasterSend, Whole, NoAcceptedLost, shared, thread, history
<1>. QED BY <1>6, <1>7

\* One message of the feedback moves from the topic to the master's view.
LEMMA MasterHearsHears ==
  ASSUME HInv, MasterHears
  PROVE  Heard' /\ Whole' /\ NoAcceptedLost'
<1> DEFINE f == feedback_link
           s == Head(f)
<1>1. f \in Seq(SystemStates) /\ f # <<>>
  BY DEF HInv, IInv, TypeOK, MasterHears
<1>2. /\ view' = s /\ feedback_link' = Tail(f)
      /\ seen_busy' = (seen_busy \/ s # "READY")
      /\ pc' = pc /\ command_link' = command_link
      /\ (Idle' <=> Idle) /\ (Before' <=> Before) /\ (Busy' <=> Busy)
  BY DEF MasterHears, shared, thread, Idle, Before, Busy
<1>3. /\ AllReady(f) => s = "READY" /\ AllReady(Tail(f))
      /\ AllBusy(f) => s # "READY" /\ AllBusy(Tail(f))
      /\ BusyToTheEnd(f) => BusyToTheEnd(Tail(f))
      /\ BusyToTheEnd(f) /\ s # "READY" => AllBusy(Tail(f))
      /\ ReadyToTheEnd(f) => ReadyToTheEnd(Tail(f))
      /\ ReadyToTheEnd(f) /\ s = "READY" => AllReady(Tail(f))
      /\ OnePeriod(f) => OnePeriod(Tail(f))
      /\ OnePeriod(f) /\ s # "READY" => ReadyToTheEnd(Tail(f))
  BY <1>1, TailKeeps
<1>4. Heard
  BY DEF HInv
<1> HIDE DEF f, s
<1>5. f = feedback_link
  BY DEF f
<1>6. pc # "off"
  BY <1>1, <1>4, <1>5 DEF Heard
<1>7. command_link # <<>> =>
        Len(command_link) = 1 /\ Idle' /\ AllReady(Tail(f)) /\ ~seen_busy'
  BY <1>2, <1>3, <1>4, <1>5 DEF Heard
<1>8. Before => AllReady(Tail(f)) /\ ~seen_busy'
  BY <1>2, <1>3, <1>4, <1>5 DEF Heard
<1>9. Busy => /\ BusyToTheEnd(Tail(f))
              /\ seen_busy' => AllBusy(Tail(f)) /\ view' # "READY"
  BY <1>2, <1>3, <1>4, <1>5 DEF Heard
<1>10. Idle => /\ OnePeriod(Tail(f))
               /\ seen_busy' => ReadyToTheEnd(Tail(f))
               /\ seen_busy' /\ view' = "READY" => AllReady(Tail(f))
  BY <1>2, <1>3, <1>4, <1>5 DEF Heard
<1>11. Heard'
  BY <1>2, <1>6, <1>7, <1>8, <1>9, <1>10
     DEF Heard, AllReady, AllBusy, BusyToTheEnd, ReadyToTheEnd, OnePeriod
<1>12. Whole' /\ NoAcceptedLost'
  BY DEF HInv, MasterHears, Whole, NoAcceptedLost, shared, thread, history
<1>. QED BY <1>11, <1>12

\* The message finds the controller idle, and is accepted.
LEMMA CallbackHears ==
  ASSUME HInv, CommandCallback
  PROVE  Heard' /\ Whole' /\ NoAcceptedLost'
<1>1. /\ Len(command_link) = 1 /\ Idle /\ AllReady(feedback_link) /\ ~seen_busy
      /\ system_state = "READY" /\ pc = "poll" /\ ~command_pending /\ used = {}
  BY DEF HInv, IInv, StateShowsRoutine, CommandCallback, Heard, Whole, Idle
<1>2. command_link \in Seq(Commands)
  BY DEF HInv, IInv, TypeOK
<1>3. Tail(command_link) = <<>>
  <2>1. Tail(command_link) \in Seq(Commands) /\ Len(Tail(command_link)) = 0
    BY <1>1, <1>2
  <2>. QED BY <2>1, EmptySeq
<1>4. Heard'
  BY <1>1, <1>3 DEF CommandCallback, Heard, Before, Busy, Idle, thread, AllReady
<1>5. Whole'
  BY <1>1 DEF HInv, Whole, CommandCallback, thread
<1>6. accepted \subseteq executed \cup used
  BY <1>1 DEF HInv, NoAcceptedLost
<1>7. NoAcceptedLost'
  BY <1>1, <1>6 DEF CommandCallback, NoAcceptedLost, thread
<1>. QED BY <1>4, <1>5, <1>7

\* timer_callback appends the state the controller is in.
LEMMA TimerHears ==
  ASSUME HInv, TimerCallback
  PROVE  Heard' /\ Whole' /\ NoAcceptedLost'
<1> DEFINE f == feedback_link
           g == Append(f, system_state)
<1>1. f \in Seq(SystemStates) /\ system_state \in SystemStates
  BY DEF HInv, IInv, TypeOK
<1>2. /\ pc # "off" /\ feedback_link' = g /\ view' = view
      /\ seen_busy' = seen_busy /\ pc' = pc /\ command_link' = command_link
      /\ (Idle' <=> Idle) /\ (Before' <=> Before) /\ (Busy' <=> Busy)
  BY DEF TimerCallback, shared, thread, Idle, Before, Busy
<1>3. LET s == system_state
      IN /\ s = "READY" /\ AllReady(f) => AllReady(g)
         /\ s # "READY" /\ AllBusy(f) => AllBusy(g)
         /\ s # "READY" /\ BusyToTheEnd(f) => BusyToTheEnd(g)
         /\ s = "READY" /\ ReadyToTheEnd(f) => ReadyToTheEnd(g)
         /\ s = "READY" /\ OnePeriod(f) => OnePeriod(g)
  BY <1>1, AppendKeeps
<1>4. /\ Idle => system_state = "READY"
      /\ Before => system_state = "READY"
      /\ Busy => system_state # "READY"
  BY DEF HInv, IInv, StateShowsRoutine, Idle, Before, Busy
<1>5. Heard
  BY DEF HInv
<1> HIDE DEF f, g
<1>6. f = feedback_link
  BY DEF f
<1>7. Heard'
  BY <1>2, <1>3, <1>4, <1>5, <1>6
     DEF Heard, AllReady, AllBusy, BusyToTheEnd, ReadyToTheEnd, OnePeriod
<1>8. Whole' /\ NoAcceptedLost'
  BY DEF HInv, TimerCallback, Whole, NoAcceptedLost, shared, thread, history
<1>. QED BY <1>7, <1>8

LEMMA BootHears ==
  ASSUME HInv, Boot
  PROVE  Heard' /\ Whole' /\ NoAcceptedLost'
<1>1. Heard'
  BY EmptyLink DEF HInv, Boot, Heard, Before, Busy, Idle, links
<1>2. Whole' /\ NoAcceptedLost'
  BY DEF HInv, Boot, Whole, NoAcceptedLost, links, history
<1>. QED BY <1>1, <1>2

\* What the command thread does never disturbs what the master has heard: it
\* leaves READY only with nothing on the way, and comes back to it from busy.
LEMMA ThreadHears ==
  ASSUME HInv, UNCHANGED links, pc # "off", pc' # "off", ~Idle,
         Idle' => Busy, Before' => Before, Busy' => Before \/ Busy
  PROVE  Heard'
<1>1. Heard /\ feedback_link \in Seq(SystemStates)
  BY DEF HInv, IInv, TypeOK
<1>2. command_link = <<>>
  BY <1>1 DEF Heard
<1>3. /\ AllReady(feedback_link) => BusyToTheEnd(feedback_link)
      /\ AllBusy(feedback_link) => ReadyToTheEnd(feedback_link)
      /\ BusyToTheEnd(feedback_link) => OnePeriod(feedback_link)
  BY <1>1, Uniform
<1>4. /\ Before' => AllReady(feedback_link) /\ ~seen_busy
      /\ Busy' => /\ BusyToTheEnd(feedback_link)
                  /\ seen_busy => AllBusy(feedback_link) /\ view # "READY"
      /\ Idle' => /\ OnePeriod(feedback_link)
                  /\ seen_busy => ReadyToTheEnd(feedback_link) /\ view # "READY"
  BY <1>1, <1>3 DEF Heard
<1>. QED
  BY <1>2, <1>4
     DEF Heard, links, AllReady, AllBusy, BusyToTheEnd, ReadyToTheEnd, OnePeriod

LEMMA DispatchHears ==
  ASSUME HInv, Poll \/ Dispatch
  PROVE  Heard' /\ Whole' /\ NoAcceptedLost'
<1> USE DEF Poll, Dispatch, Goto, shared, links, history
<1>1. /\ system_state = "READY" /\ system_state' = "READY"
      /\ command_pending /\ command_pending' /\ pc' # "off" /\ UNCHANGED links
      /\ pc # "off" /\ used = {}
  BY DEF HInv, IInv, StateShowsRoutine, FlagHeld, Whole
<1>2. Heard'
  BY <1>1, ThreadHears DEF Idle, Before, Busy
<1>3. Whole' /\ NoAcceptedLost'
  BY <1>1 DEF HInv, Whole, NoAcceptedLost
<1>. QED BY <1>2, <1>3

\* A step inside a routine that consumes, if anything, the message it is about.
LEMMA RoutineHears ==
  ASSUME HInv, UNCHANGED <<links, accepted, ignored, executed,
                           active_command_msg, routine>>,
         used' = used \/ used' = used \cup {active_command_msg},
         pc \notin {"off", "poll", "dispatch"},
         pc' \notin {"off", "poll", "dispatch"},
         command_pending' => command_pending,
         system_state' = "READY" => system_state = "READY",
         pc' \in {"target_enter", "target_work", "target_leave"} => ~command_pending'
  PROVE  Heard' /\ Whole' /\ NoAcceptedLost'
<1>1. Heard'
  BY ThreadHears DEF Idle, Before, Busy
<1>2. used = {active_command_msg} /\ used' = used
  BY DEF HInv, Whole
<1>3. Whole' /\ NoAcceptedLost'
  BY <1>2 DEF HInv, Whole, NoAcceptedLost
<1>. QED BY <1>1, <1>3

\* The end of a routine: the flag is down, the state was not READY.
LEMMA LeaveHears ==
  ASSUME HInv, NEW from \in {"setup_leave", "target_leave", "homing_leave"},
         Leave(from)
  PROVE  Heard' /\ Whole' /\ NoAcceptedLost'
<1> USE DEF Leave, Goto, history, links
<1>1. ~command_pending /\ system_state # "READY"
  BY DEF HInv, IInv, DoorClosed, StateShowsRoutine, Whole
<1>2. Heard'
  BY <1>1, ThreadHears DEF Idle, Before, Busy
<1>3. Whole' /\ NoAcceptedLost'
  BY <1>1 DEF HInv, Whole, NoAcceptedLost
<1>. QED BY <1>2, <1>3

LEMMA CommandThreadHears ==
  ASSUME HInv, CommandThread
  PROVE  Heard' /\ Whole' /\ NoAcceptedLost'
<1> USE DEF Goto, SetState, ClearPending, ReadCommand, shared, links, history
<1>1. CASE Poll \/ Dispatch
  BY <1>1, DispatchHears
<1>2. CASE SetupEnter
  BY <1>2, RoutineHears DEF SetupEnter
<1>3. CASE SetupClear
  BY <1>3, RoutineHears DEF SetupClear, HInv, IInv, DoorOrder
<1>4. CASE SetupRead
  BY <1>4, RoutineHears DEF SetupRead
<1>5. CASE TargetCopy
  BY <1>5, RoutineHears DEF TargetCopy
<1>6. CASE TargetClear
  BY <1>6, RoutineHears DEF TargetClear
<1>7. CASE TargetEnter
  BY <1>7, RoutineHears DEF TargetEnter, HInv, Whole
<1>8. CASE TargetWork
  BY <1>8, RoutineHears DEF TargetWork, HInv, Whole
<1>9. CASE HomingEnter
  BY <1>9, RoutineHears DEF HomingEnter
<1>10. CASE HomingClear
  BY <1>10, RoutineHears DEF HomingClear
<1>11. CASE HomingWork
  BY <1>11, RoutineHears DEF HomingWork
<1>12. CASE SetupLeave \/ TargetLeave \/ HomingLeave
  BY <1>12, LeaveHears DEF SetupLeave, TargetLeave, HomingLeave
<1>. QED
  BY <1>1, <1>2, <1>3, <1>4, <1>5, <1>6, <1>7, <1>8, <1>9, <1>10, <1>11,
     <1>12 DEF CommandThread

LEMMA StutterHears ==
  ASSUME HInv, UNCHANGED vars
  PROVE  Heard' /\ Whole' /\ NoAcceptedLost'
<1> USE DEF vars, shared, thread, links, history
<1>1. Heard'
  BY DEF HInv, Heard, Before, Busy, Idle, AllReady, AllBusy, BusyToTheEnd,
         ReadyToTheEnd, OnePeriod
<1>2. Whole' /\ NoAcceptedLost'
  BY DEF HInv, Whole, NoAcceptedLost
<1>. QED BY <1>1, <1>2

LEMMA HGoes == MasterMode = "handshake" => (HInv /\ [Next]_vars => HInv')
<1> SUFFICES ASSUME MasterMode = "handshake", HInv, [Next]_vars PROVE HInv'
  OBVIOUS
<1>1. IInv'
  BY NextInv DEF HInv
<1>2. CASE MainThread
  BY <1>1, <1>2, BootHears, CallbackHears, TimerHears DEF MainThread, HInv
<1>3. CASE CommandThread
  BY <1>1, <1>3, CommandThreadHears DEF HInv
<1>4. CASE Master
  BY <1>1, <1>4, MasterHearsHears, MasterSendHears DEF Master, HInv
<1>5. CASE UNCHANGED vars
  BY <1>1, <1>5, StutterHears DEF HInv
<1>. QED BY <1>2, <1>3, <1>4, <1>5 DEF Next

LEMMA HKeeps == MasterMode = "handshake" => (Spec => []HInv)
<1> SUFFICES ASSUME MasterMode = "handshake" PROVE Spec => []HInv
  OBVIOUS
<1>1. HInv /\ [Next]_vars => HInv'
  BY HGoes
<1>. QED BY HStarts, <1>1, PTL DEF Spec

\* With a patient master a routine acts on the fields of one message only, and
\* of one of its own command_type: handle_setup's reads from the shared buffer
\* and handle_target's unlocked copy are safe.
THEOREM NothingTorn == MasterMode = "handshake" => (Spec => []NoTornCommand)
<1> SUFFICES ASSUME MasterMode = "handshake" PROVE Spec => []NoTornCommand
  OBVIOUS
<1>1. ASSUME HInv PROVE NoTornCommand
  <2>1. CASE used = {}
    BY <2>1, FS_EmptySet DEF NoTornCommand
  <2>2. CASE used # {}
    <3>1. used = {active_command_msg} /\ routine = TypeOf[active_command_msg]
      BY <1>1, <2>2 DEF HInv, Whole
    <3>2. Cardinality(used) = 1
      BY <3>1, FS_Singleton
    <3>. QED BY <3>1, <3>2 DEF NoTornCommand
  <2>. QED BY <2>1, <2>2
<1>. QED BY HKeeps, <1>1, PTL

\* With a patient master a message command_callback has accepted waits in the
\* buffer with the flag set until a routine takes it.
THEOREM NothingLost == MasterMode = "handshake" => (Spec => []NoAcceptedLost)
<1> SUFFICES ASSUME MasterMode = "handshake" PROVE Spec => []NoAcceptedLost
  OBVIOUS
<1>1. HInv => NoAcceptedLost
  BY DEF HInv
<1>. QED BY HKeeps, <1>1, PTL

-----------------------------------------------------------------------------
(* The steps of CommandChannel as steps of CommandService. *)

\* A message on its way is one that was never carried out: each is sent once.
Fresh ==
  /\ unsent \cap (executed \cup used) = {}
  /\ command_link # <<>> => Head(command_link) \notin unsent \cup executed
  /\ command_pending => active_command_msg \notin unsent

LEMMA FreshStarts == Init => Fresh
  BY DEF Init, Fresh

LEMMA FreshGoes ==
  MasterMode = "handshake" => (HInv /\ Fresh /\ [Next]_vars => Fresh')
<1> SUFFICES ASSUME MasterMode = "handshake", HInv, Fresh, [Next]_vars
             PROVE  Fresh'
  OBVIOUS
<1> USE DEF Fresh
<1>1. CASE Boot \/ TimerCallback \/ MasterHears \/ UNCHANGED vars
  BY <1>1 DEF Boot, TimerCallback, MasterHears, vars, shared, thread, links, history
<1>2. CASE CommandCallback
  <2>1. command_link' = <<>> /\ UNCHANGED <<unsent, used, executed>>
    <3>1. Idle /\ Len(command_link) = 1 /\ command_link \in Seq(Commands)
      BY <1>2 DEF CommandCallback, HInv, IInv, TypeOK, Heard
    <3>2. Tail(command_link) \in Seq(Commands) /\ Len(Tail(command_link)) = 0
      BY <3>1
    <3>3. Tail(command_link) = <<>>
      BY <3>2, EmptySeq
    <3>. QED BY <1>2, <3>3 DEF CommandCallback, thread
  <2>2. active_command_msg' \notin unsent
    BY <1>2 DEF CommandCallback
  <2>. QED BY <2>1, <2>2
<1>3. ASSUME NEW c \in Commands, MasterSend(c) PROVE Fresh'
  <2>1. command_link = <<>>
    BY <1>3 DEF HInv, Heard, MasterSend, MasterMaySend
  <2>2. Head(Append(command_link, c)) = c
    BY <2>1
  <2>. QED BY <1>3, <2>2 DEF MasterSend, shared, thread, history
<1>4. CASE CommandThread
  <2>1. UNCHANGED <<unsent, command_link, active_command_msg>>
    BY <1>4
       DEF CommandThread, Poll, Dispatch, SetupEnter, SetupClear, SetupRead,
           SetupLeave, TargetCopy, TargetClear, TargetEnter, TargetWork,
           TargetLeave, HomingEnter, HomingClear, HomingWork, HomingLeave,
           SetState, ClearPending, ReadCommand, Leave, shared, links
  <2>2. command_pending' => command_pending
    BY <1>4
       DEF CommandThread, Poll, Dispatch, SetupEnter, SetupClear, SetupRead,
           SetupLeave, TargetCopy, TargetClear, TargetEnter, TargetWork,
           TargetLeave, HomingEnter, HomingClear, HomingWork, HomingLeave,
           SetState, ClearPending, ReadCommand, Leave, shared
  <2>3. executed' \cup used' \subseteq
          executed \cup used \cup (IF command_pending THEN {active_command_msg} ELSE {})
    <3>1. CASE Dispatch
      BY <1>4, <3>1
         DEF Dispatch, HInv, IInv, FlagHeld, history, shared
    <3>2. CASE SetupRead \/ TargetCopy
      <4>1. used = {active_command_msg}
        BY <3>2 DEF SetupRead, TargetCopy, ReadCommand, HInv, Whole
      <4>. QED
        BY <3>2, <4>1 DEF SetupRead, TargetCopy, ReadCommand, history
    <3>3. CASE SetupLeave \/ TargetLeave \/ HomingLeave
      BY <3>3 DEF SetupLeave, TargetLeave, HomingLeave, Leave
    <3>. QED
      BY <1>4, <3>1, <3>2, <3>3
         DEF CommandThread, Poll, SetupEnter, SetupClear, TargetClear,
             TargetEnter, TargetWork, HomingEnter, HomingClear, HomingWork,
             SetState, ClearPending, history
  <2>4. command_link = <<>>
    <3>1. ~Idle
      BY <1>4
         DEF Idle, CommandThread, Poll, Dispatch, SetupEnter, SetupClear,
             SetupRead, SetupLeave, TargetCopy, TargetClear, TargetEnter,
             TargetWork, TargetLeave, HomingEnter, HomingClear, HomingWork,
             HomingLeave, ReadCommand, Leave, Goto
    <3>. QED BY <3>1 DEF HInv, Heard
  <2>. QED BY <2>1, <2>2, <2>3, <2>4
<1>. QED BY <1>1, <1>2, <1>3, <1>4 DEF Next, MainThread, Master

LEMMA PhaseIs ==
  /\ pc = "off" => ServicePhase = "off"
  /\ pc # "off" /\ command_pending => ServicePhase = "accepted"
  /\ pc = "poll" /\ ~command_pending => ServicePhase = "ready"
  /\ pc \notin {"off", "poll"} /\ ~command_pending => ServicePhase = "running"
  BY DEF ServicePhase

LEMMA PhaseWillBe ==
  /\ pc' = "off" => ServicePhase' = "off"
  /\ pc' # "off" /\ command_pending' => ServicePhase' = "accepted"
  /\ pc' = "poll" /\ ~command_pending' => ServicePhase' = "ready"
  /\ pc' \notin {"off", "poll"} /\ ~command_pending' => ServicePhase' = "running"
  BY DEF ServicePhase

LEMMA ServiceStarts == Init => Service!Init
  BY PhaseIs DEF Init, Service!Init, ServiceCurrent

\* What moves the thread without the flag or the ends of a routine is invisible.
LEMMA ServiceStutters ==
  ASSUME UNCHANGED <<command_pending, executed>>, pc # "off", pc' # "off",
         ServiceCurrent' = ServiceCurrent,
         ~command_pending => (pc' = "poll" <=> pc = "poll")
  PROVE  UNCHANGED Service!vars
  BY PhaseIs, PhaseWillBe DEF Service!vars

\* command_pending = false: the accepted message is the one the routine has.
LEMMA ServiceClears ==
  ASSUME HInv, ClearPending,
         pc \in {"setup_clear", "target_clear", "homing_clear"},
         pc' \notin {"off", "poll"}
  PROVE  Service!Start
<1>1. command_pending /\ used = {active_command_msg}
  BY DEF HInv, IInv, FlagHeld, Whole
<1>. QED
  BY <1>1, PhaseIs, PhaseWillBe DEF ClearPending, Service!Start, ServiceCurrent

LEMMA ServiceLeaves ==
  ASSUME HInv, NEW from \in {"setup_leave", "target_leave", "homing_leave"},
         Leave(from)
  PROVE  Service!Finish
<1>1. ~command_pending /\ pc = from /\ pc' = "poll" /\ ~command_pending'
  BY DEF HInv, IInv, DoorClosed, Whole, Leave, Goto
<1>. QED
  BY <1>1, PhaseIs, PhaseWillBe DEF Leave, Service!Finish, ServiceCurrent

LEMMA ServiceThread ==
  ASSUME HInv, CommandThread
  PROVE  [Service!Next]_(Service!vars)
<1> USE DEF Goto
<1>1. CASE Poll \/ Dispatch
  BY <1>1, ServiceStutters
     DEF Poll, Dispatch, HInv, IInv, FlagHeld, shared, history, ServiceCurrent
<1>2. CASE SetupEnter \/ TargetEnter \/ TargetWork \/ HomingEnter \/ HomingWork
  BY <1>2, ServiceStutters
     DEF SetupEnter, TargetEnter, TargetWork, HomingEnter, HomingWork,
         SetState, shared, history, ServiceCurrent
<1>3. CASE SetupClear \/ TargetClear \/ HomingClear
  BY <1>3, ServiceClears
     DEF SetupClear, TargetClear, HomingClear, Service!Next
<1>4. CASE SetupRead \/ TargetCopy
  <2>1. used = {active_command_msg} /\ pc \in {"setup_read", "target_copy"}
    BY <1>4 DEF SetupRead, TargetCopy, ReadCommand, HInv, Whole
  <2>2. UNCHANGED <<shared, history>> /\ used' = used /\ pc' \notin {"off", "poll"}
    BY <1>4, <2>1 DEF SetupRead, TargetCopy, ReadCommand
  <2>. QED
    BY <2>1, <2>2, ServiceStutters DEF shared, history, ServiceCurrent
<1>5. CASE SetupLeave \/ TargetLeave \/ HomingLeave
  BY <1>5, ServiceLeaves DEF SetupLeave, TargetLeave, HomingLeave, Service!Next
<1>. QED BY <1>1, <1>2, <1>3, <1>4, <1>5 DEF CommandThread

LEMMA ServiceAccepts ==
  ASSUME HInv, Fresh, CommandCallback
  PROVE  \E c \in Commands : Service!Accept(c)
<1>1. /\ Idle /\ system_state = "READY" /\ command_link # <<>>
      /\ command_link \in Seq(Commands) /\ used = {}
  BY DEF HInv, IInv, TypeOK, StateShowsRoutine, CommandCallback, Heard, Whole, Idle
<1> DEFINE c == Head(command_link)
<1>2. c \in Commands /\ c \notin executed
  BY <1>1 DEF Fresh
<1>3. /\ active_command_msg' = c /\ command_pending'
      /\ pc' = pc /\ executed' = executed
  BY <1>1 DEF CommandCallback, thread
<1>4. Service!Accept(c)
  BY <1>1, <1>2, <1>3, PhaseIs, PhaseWillBe DEF Idle, Service!Accept, ServiceCurrent
<1>. QED BY <1>2, <1>4

LEMMA ServiceGoes ==
  HInv /\ Fresh /\ [Next]_vars => [Service!Next]_(Service!vars)
<1> SUFFICES ASSUME HInv, Fresh, [Next]_vars
             PROVE  [Service!Next]_(Service!vars)
  OBVIOUS
<1>1. CASE Boot
  <2>1. ~command_pending /\ used = {} /\ pc = "off"
    BY <1>1 DEF Boot, HInv, Heard, Whole
  <2>2. Service!PowerUp
    BY <1>1, <2>1, PhaseIs, PhaseWillBe
       DEF Boot, history, Service!PowerUp, ServiceCurrent
  <2>. QED BY <2>2 DEF Service!Next
<1>2. CASE CommandCallback
  BY <1>2, ServiceAccepts DEF Service!Next
<1>3. CASE TimerCallback \/ Master \/ UNCHANGED vars
  <2>1. UNCHANGED <<shared, thread, executed>>
    BY <1>3 DEF TimerCallback, Master, MasterSend, MasterHears, vars, history
  <2>. QED
    BY <2>1 DEF shared, thread, ServicePhase, ServiceCurrent, Service!vars
<1>4. CASE CommandThread
  BY <1>4, ServiceThread
<1>. QED BY <1>1, <1>2, <1>3, <1>4 DEF Next, MainThread

\* With a patient master each step of main.c on a command is one CommandService
\* allows: one message at a time, accepted, begun and carried out once.
THEOREM ChannelKeepsService ==
  MasterMode = "handshake" =>
    (Spec => Service!Init /\ [][Service!Next]_(Service!vars))
<1> SUFFICES ASSUME MasterMode = "handshake"
             PROVE  Spec => Service!Init /\ [][Service!Next]_(Service!vars)
  OBVIOUS
<1>1. HInv /\ Fresh /\ [Next]_vars => HInv' /\ Fresh'
  BY HGoes, FreshGoes
<1>2. HInv /\ Fresh /\ [Next]_vars => [Service!Next]_(Service!vars)
  BY ServiceGoes
<1>. QED
  BY HStarts, FreshStarts, ServiceStarts, <1>1, <1>2, PTL DEF Spec
=============================================================================
