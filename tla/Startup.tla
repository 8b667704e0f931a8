------------------------------ MODULE Startup -------------------------------
(***************************************************************************)
(* main in src/src/main.c: the devices are set up, the transport is opened *)
(* and a session with the micro-ROS agent asked for until there is one,    *)
(* the ROS entities are created, commands are taken.  The agent is started *)
(* and stopped by its user.  The three transports open and close           *)
(* differently (modules/libmicroros/microros_transports); a build has one. *)
(***************************************************************************)
EXTENDS Naturals, Sequences, SequencesExt

CONSTANTS
  Transports,    \* the ones to look at: "serial", "usb", "udp"
  Troubles,      \* what may go wrong
  MaxSockets     \* sockets there are (udp)

ASSUME TransportsAssumption == Transports \subseteq {"serial", "usb", "udp"}
ASSUME SocketsAssumption == MaxSockets \in Nat \ {0}

\* From the beginning names are not resolved, or the agent's address has no
\* route.
NoNetwork == {"no_address", "no_route"}
\* The agent is stopped while main relies on it; an attempt fails although it
\* runs.
ASSUME TroublesAssumption ==
  Troubles \subseteq {"agent_stops", "attempt_fails"} \cup NoNetwork

\* In the order of their set-up; "halls" are all three sensors.
Devices == <<"strip", "pitch", "yaw", "slide", "halls">>
Motors == {"pitch", "yaw", "slide"}

VARIABLES
  transport,
  troubles,     \* those that may happen
  working,      \* devices that are ready
  set_up,       \* devices main has set up
  pc,           \* the main thread: a device, or what it does
  created,      \* ROS entities created
  agent,        \* the agent runs
  session,      \* the agent knows this client
  network,      \* "up", or what it lacks
  usb_enabled,  \* usb_enable has been called
  sockets,      \* sockets taken
  refused,      \* attempts to open that took one and failed
  system_state,
  command_thread

environment == <<troubles, working, agent, network>>
link == <<transport, set_up, usb_enabled, sockets, refused>>
vars == <<pc, created, session, environment, link, system_state, command_thread>>

\* The calls under RCCHECK, in order, and whether each needs the agent.
Entities == <<"node", "publisher", "timer", "subscription", "executor",
              "executor_timer", "executor_subscription">>
Remote == {"node", "publisher", "subscription"}

Init ==
  /\ transport \in Transports
  /\ troubles \in SUBSET Troubles
  /\ working \in SUBSET ToSet(Devices) /\ set_up = {}
  /\ pc = "strip" /\ created = 0
  /\ agent = FALSE /\ session = FALSE
  /\ network \in {"up"} \cup (troubles \cap NoNetwork)
  /\ usb_enabled = FALSE /\ sockets = 0 /\ refused = 0
  /\ system_state = "CONFIGURING" /\ command_thread = FALSE

-----------------------------------------------------------------------------
(* The surroundings. *)

AgentStarts ==
  /\ ~agent /\ agent' = TRUE
  /\ UNCHANGED <<troubles, working, pc, created, session, network, link, system_state, command_thread>>

\* A session ends with the agent; one that comes and goes before there is a
\* session is no trouble.
AgentStops ==
  /\ agent
  /\ "agent_stops" \in troubles \/ pc \in ToSet(Devices) \cup {"open", "sleep"}
  /\ agent' = FALSE /\ session' = FALSE
  /\ UNCHANGED <<troubles, working, pc, created, network, link, system_state, command_thread>>

NetworkComesUp ==
  /\ network # "up" /\ network' = "up"
  /\ UNCHANGED <<troubles, working, pc, created, session, agent, link, system_state, command_thread>>

-----------------------------------------------------------------------------
(* The main thread. *)

\* init_led, init_steppers and init_halls return nothing: main goes on whatever
\* they found, init_steppers leaves at the first motor that is not ready.
Following(device) ==
  CASE device = "strip" -> "pitch" [] device = "pitch" -> "yaw"
    [] device = "yaw" -> "slide"   [] device = "slide" -> "halls"
    [] device = "halls" -> "open"

InitDevice ==
  /\ pc \in ToSet(Devices)
  /\ set_up' = set_up \cup ({pc} \cap working)
  /\ pc' = IF pc \in Motors \ working THEN "halls" ELSE Following(pc)
  /\ UNCHANGED <<transport, usb_enabled, sockets, refused, created, session,
                 environment, system_state, command_thread>>

Opened == pc' = "session"
Refused == pc' = "sleep"

\* zephyr_transport_open of the three transports.
OpenSerial == Opened /\ UNCHANGED <<usb_enabled, sockets, refused>>

\* usb_enable answers -EALREADY the second time; the first time the port is
\* waited for, which the agent opens.
OpenUsb ==
  /\ IF usb_enabled THEN Refused ELSE agent /\ Opened
  /\ usb_enabled' = TRUE
  /\ UNCHANGED <<sockets, refused>>

\* An attempt that fails after it took a socket leaves the socket open.  Without
\* an address freeaddrinfo is given a pointer that was never set.
OpenUdp ==
  /\ \/ sockets = MaxSockets /\ Refused /\ UNCHANGED <<sockets, refused>>
     \/ /\ sockets < MaxSockets /\ sockets' = sockets + 1
        /\ \/ network = "up" /\ Opened /\ UNCHANGED refused
           \/ network # "up" /\ Refused /\ refused' = refused + 1
           \/ network = "no_address" /\ pc' = "crashed" /\ refused' = refused + 1
  /\ UNCHANGED usb_enabled

zephyr_transport_open ==
  /\ pc = "open"
  /\ CASE transport = "serial" -> OpenSerial
       [] transport = "usb" -> OpenUsb
       [] transport = "udp" -> OpenUdp
  /\ UNCHANGED <<transport, set_up, created, session, environment, system_state,
                 command_thread>>

\* rclc_support_init goes on with the session; when it fails it closes the
\* transport, which only the sockets notice.
Connect ==
  /\ pc = "session" /\ agent
  /\ session' = TRUE /\ pc' = "create"
  /\ UNCHANGED <<created, environment, link, system_state, command_thread>>

\* Mutant: a socket is not closed.
zephyr_transport_close_forgotten ==
  /\ pc = "session" /\ ("attempt_fails" \in troubles \/ ~agent)
  /\ pc' = "sleep"
  /\ UNCHANGED <<created, session, environment, link, system_state, command_thread>>

zephyr_transport_close ==
  /\ pc = "session" /\ ("attempt_fails" \in troubles \/ ~agent)
  /\ pc' = "sleep"
  /\ sockets' = IF transport = "udp" THEN sockets - 1 ELSE sockets
  /\ UNCHANGED <<transport, set_up, usb_enabled, refused, created, session,
                 environment, system_state, command_thread>>

\* Mutant: the first failure is final.
GiveUp ==
  /\ pc = "sleep"
  /\ pc' = "halted"
  /\ UNCHANGED <<created, session, environment, link, system_state, command_thread>>

Retry ==
  /\ pc = "sleep"
  /\ pc' = "open"
  /\ UNCHANGED <<created, session, environment, link, system_state, command_thread>>

\* RCCHECK: an entity the agent does not confirm stops the main thread for good.
Create ==
  /\ pc = "create" /\ created < Len(Entities)
  /\ IF Entities[created + 1] \in Remote /\ ~session
     THEN pc' = "halted" /\ UNCHANGED created
     ELSE created' = created + 1 /\ UNCHANGED pc
  /\ UNCHANGED <<session, environment, link, system_state, command_thread>>

\* "now ready for taking commands", before there is a thread for them.
BecomeReady ==
  /\ pc = "create" /\ created = Len(Entities)
  /\ system_state' = "READY"
  /\ pc' = "start_thread"
  /\ UNCHANGED <<created, session, environment, link, command_thread>>

StartThread ==
  /\ pc = "start_thread"
  /\ command_thread' = TRUE
  /\ pc' = "spin"
  /\ UNCHANGED <<created, session, environment, link, system_state>>

\* The loop of the executor, while (1) of RCCHECK, and a crash.
GoesOn == pc \in {"spin", "halted", "crashed"} /\ UNCHANGED vars

Main ==
  \/ InitDevice \/ zephyr_transport_open \/ Connect \/ zephyr_transport_close
  \/ Retry \/ Create \/ BecomeReady \/ StartThread \/ GoesOn
Next == Main \/ AgentStarts \/ AgentStops \/ NetworkComesUp

Spec == Init /\ [][Next]_vars
\* The network comes up, and an agent that runs answers in the end.
FairSpec ==
  Spec /\ WF_vars(Main) /\ SF_vars(Connect) /\ WF_vars(NetworkComesUp)

-----------------------------------------------------------------------------
(* Properties. *)

TypeOK ==
  /\ transport \in Transports
  /\ troubles \subseteq Troubles /\ set_up \subseteq working /\ working \subseteq ToSet(Devices)
  /\ pc \in ToSet(Devices) \cup
       {"open", "session", "sleep", "create", "start_thread", "spin", "halted", "crashed"}
  /\ created \in 0..Len(Entities) /\ {sockets, refused} \subseteq 0..MaxSockets
  /\ network \in {"up"} \cup NoNetwork
  /\ {agent, session, usb_enabled, command_thread} \subseteq BOOLEAN
  /\ system_state \in {"CONFIGURING", "READY"}

\* docu/src/tops_mes.md: "By default, the system enables all motors with a
\* frequency of 100 Hz and a resolution of 16 micro-steps after start up": every
\* motor that is ready is set up, whatever the others are.
DefaultsApplied == system_state = "READY" => Motors \cap working \subseteq set_up

\* The transport is open, or opened for good.
HoldsTransport == pc \in {"session", "create", "start_thread", "spin", "halted"}

\* No socket is lost but to an attempt that zephyr_transport_open itself
\* refused: a session the agent does not grant gives its socket back, however
\* often it is asked for and whatever failed in between.
SocketsAccounted ==
  sockets = refused + IF transport = "udp" /\ HoldsTransport THEN 1 ELSE 0

\* main.c waits for the agent ("wait till its back"), and docu/src/ros.md says
\* that it "can be simply run each time it is needed": an agent that runs for
\* good is served in the end.
AgentIsServed == <>[]agent => <>[](system_state = "READY" /\ session)

\* The troubles a build gets over, with any devices missing.  None gets over an
\* agent that stops: RCCHECK waits for ever and nothing asks for a second
\* session; "usb" opens only once; "udp" does not wait for its network.
Endured ==
  troubles \subseteq CASE transport = "serial" -> {"attempt_fails"} \cup NoNetwork
                      [] transport = "usb" -> NoNetwork
                      [] transport = "udp" -> {"attempt_fails"}
ServedIfEndured == Endured => AgentIsServed
=============================================================================
