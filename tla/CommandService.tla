--------------------------- MODULE CommandService ---------------------------
(***************************************************************************)
(* What the firmware promises the ROS master about commands, seen from     *)
(* outside: the controller has room for one command.  A command that finds *)
(* the controller ready is accepted and carried out exactly once, as the   *)
(* command that was sent; a command that finds it busy leaves no trace.    *)
(* CommandChannel is the code that has to keep this promise.               *)
(***************************************************************************)
CONSTANT Commands

VARIABLES
  phase,    \* "off", "ready", "accepted" or "running"
  current,  \* the command accepted or being carried out, {} when none
  executed  \* the commands carried out so far

vars == <<phase, current, executed>>

TypeOK ==
  /\ phase \in {"off", "ready", "accepted", "running"}
  /\ current \in SUBSET Commands
  /\ executed \in SUBSET Commands

Init == phase = "off" /\ current = {} /\ executed = {}

PowerUp ==
  /\ phase = "off"
  /\ phase' = "ready"
  /\ UNCHANGED <<current, executed>>

Accept(c) ==
  /\ phase = "ready"
  /\ c \notin executed
  /\ phase' = "accepted"
  /\ current' = {c}
  /\ UNCHANGED executed

Start ==
  /\ phase = "accepted"
  /\ phase' = "running"
  /\ UNCHANGED <<current, executed>>

Finish ==
  /\ phase = "running"
  /\ phase' = "ready"
  /\ current' = {}
  /\ executed' = executed \cup current

Next == PowerUp \/ Start \/ Finish \/ \E c \in Commands : Accept(c)

Spec == Init /\ [][Next]_vars /\ WF_vars(Start) /\ WF_vars(Finish)
=============================================================================
