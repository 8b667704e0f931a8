----------------------------- MODULE MCStartup ------------------------------
(* Startup over the three transports, with each trouble or with one kind. *)
EXTENDS Startup

AllTransports == {"serial", "usb", "udp"}
AllTroubles == {"agent_stops", "attempt_fails", "no_address", "no_route"}
=============================================================================
