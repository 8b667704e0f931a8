-------------------------- MODULE MCCommandChannel --------------------------
(* Instances of CommandChannel for TLC: one message of each kind. *)
EXTENDS CommandChannel, TLC

CONSTANTS setup, target, homing, soft, other, none

\* `other` is a command_type the switch of command_thread_entry has no case for.
TypeTable ==
  (setup :> "SETUP") @@ (target :> "TARGET") @@ (homing :> "HARD_HOMING")
    @@ (soft :> "SOFT_HOMING") @@ (other :> "unknown")
MCTypeOf == [c \in Commands |-> TypeTable[c]]

AllCommands == {setup, target, homing, other}
KnownCommands == {setup, target, homing}
SetupAndAnother == {setup, homing}
NoSetup == {target, homing, soft}
=============================================================================
