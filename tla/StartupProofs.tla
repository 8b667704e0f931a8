--------------------------- MODULE StartupProofs ----------------------------
(***************************************************************************)
(* Start-up proved for every choice of transports, troubles and sockets:   *)
(* what becomes of the sockets of "udp".                                   *)
(***************************************************************************)
EXTENDS Startup, TLAPS

IInv == TypeOK /\ SocketsAccounted

LEMMA DeviceSet == ToSet(Devices) = {"strip", "pitch", "yaw", "slide", "halls"}
<1>1. DOMAIN Devices = 1..5
  BY DEF Devices
<1> QED
  BY <1>1 DEF ToSet, Devices

LEMMA EntityCount == Len(Entities) = 7
  BY DEF Entities

USE SocketsAssumption

LEMMA Starts == Init => IInv
<1> SUFFICES ASSUME Init PROVE IInv
  OBVIOUS
<1>1. {agent, session, usb_enabled, command_thread} \subseteq BOOLEAN
  BY Zenon DEF Init
<1>2. network \in {"up"} \cup NoNetwork
  BY DEF Init
<1>3. /\ transport \in Transports /\ troubles \subseteq Troubles
      /\ set_up \subseteq working /\ working \subseteq ToSet(Devices)
      /\ pc = "strip" /\ sockets = 0 /\ refused = 0 /\ created = 0
      /\ system_state = "CONFIGURING"
  BY DEF Init
<1>4. TypeOK
  BY <1>1, <1>2, <1>3, DeviceSet, EntityCount DEF TypeOK
<1>5. SocketsAccounted
  BY <1>3 DEF SocketsAccounted, HoldsTransport
<1> QED
  BY <1>4, <1>5 DEF IInv

LEMMA Goes == IInv /\ [Next]_vars => IInv'
<1> SUFFICES ASSUME IInv, [Next]_vars PROVE IInv'
  OBVIOUS
<1> USE DeviceSet, EntityCount, TransportsAssumption
    DEF IInv, TypeOK, SocketsAccounted, HoldsTransport, environment, link
<1>1. CASE AgentStarts
  BY <1>1 DEF AgentStarts
<1>2. CASE AgentStops
  BY <1>2 DEF AgentStops
<1>3. CASE NetworkComesUp
  BY <1>3 DEF NetworkComesUp
<1>4. CASE InitDevice
  BY <1>4 DEF InitDevice, Following, Motors
<1>5. CASE zephyr_transport_open
  <2> USE <1>5 DEF zephyr_transport_open, Opened, Refused
  <2>1. CASE transport = "serial"
    BY <2>1 DEF OpenSerial
  <2>2. CASE transport = "usb"
    BY <2>2 DEF OpenUsb
  <2>3. CASE transport = "udp"
    BY <2>3 DEF OpenUdp
  <2> QED
    BY <2>1, <2>2, <2>3
<1>6. CASE Connect
  BY <1>6 DEF Connect
<1>7. CASE zephyr_transport_close
  BY <1>7 DEF zephyr_transport_close
<1>8. CASE Retry
  BY <1>8 DEF Retry
<1>9. CASE Create
  BY <1>9 DEF Create
<1>10. CASE BecomeReady
  BY <1>10 DEF BecomeReady
<1>11. CASE StartThread
  BY <1>11 DEF StartThread
<1>12. CASE UNCHANGED vars
  BY <1>12 DEF vars
<1> QED
  BY <1>1, <1>2, <1>3, <1>4, <1>5, <1>6, <1>7, <1>8, <1>9, <1>10, <1>11, <1>12
     DEF Next, Main, GoesOn

LEMMA Keeps == Spec => []IInv
  BY Starts, Goes, PTL DEF Spec

\* However often the session is asked for, whatever fails and whenever the
\* network comes up: every socket taken is the one of the open transport or was
\* left by an attempt that zephyr_transport_open refused.
THEOREM NoSocketLost == Spec => []SocketsAccounted
<1>1. IInv => SocketsAccounted
  BY DEF IInv
<1> QED
  BY <1>1, Keeps, PTL

\* Every step of main and of its surroundings keeps the types; a socket is
\* taken only while there is one left and given back only by its holder.
THEOREM TypeCorrect == Spec => []TypeOK
<1>1. IInv => TypeOK
  BY DEF IInv
<1> QED
  BY <1>1, Keeps, PTL
=============================================================================
