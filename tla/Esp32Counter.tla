---------------------------- MODULE Esp32Counter ----------------------------
(***************************************************************************)
(* The ESP32 general purpose timer as the stepper driver uses it           *)
(* (src/code_adaptions/counter_esp32_tmr.c): one "top value" channel whose *)
(* callback runs in the interrupt handler.  The hardware disables the      *)
(* alarm when it fires; the handler enables it again after the callback.   *)
(* Operations on the registers are operators for StepDirDriver to compose; *)
(* the handler is split where an alarm can slip in.  The alarm channel     *)
(* (set_alarm, cancel_alarm) has no caller in this firmware.               *)
(***************************************************************************)
EXTENDS Naturals

VARIABLES
  counter_en, \* the counter is counting
  alarm_en,   \* the alarm fires when the top value is reached
  intr_en,    \* the alarm's interrupt is enabled
  intr_st,    \* the alarm's interrupt status
  isr         \* where counter_esp32_isr is, "idle" when it does not run

registers == <<counter_en, alarm_en, intr_en, intr_st>>
counter == <<registers, isr>>

CounterTypeOK ==
  /\ counter_en \in BOOLEAN
  /\ alarm_en \in BOOLEAN
  /\ intr_en \in BOOLEAN
  /\ intr_st \in BOOLEAN
  /\ isr \in {"idle", "callback", "rearm", "return"}

\* counter_esp32_init with TIMER_PAUSE and TIMER_ALARM_DIS.
CounterInit ==
  /\ counter_en = FALSE /\ alarm_en = FALSE
  /\ intr_en = FALSE /\ intr_st = FALSE
  /\ isr = "idle"

CounterStart == counter_en' = TRUE /\ UNCHANGED <<alarm_en, intr_en, intr_st>>

\* Mutant: the counter goes on counting.
CounterStopIgnored == UNCHANGED registers

CounterStop == counter_en' = FALSE /\ UNCHANGED <<alarm_en, intr_en, intr_st>>

\* counter_esp32_set_top_value: restart from zero, drop a pending alarm, arm.
SetTopValue ==
  /\ intr_st' = FALSE
  /\ intr_en' = TRUE
  /\ alarm_en' = TRUE
  /\ UNCHANGED counter_en

\* The hardware: the counter reaches the top value and is reloaded.
AlarmFires ==
  /\ counter_en /\ alarm_en
  /\ intr_st' = TRUE
  /\ alarm_en' = FALSE
  /\ UNCHANGED <<counter_en, intr_en, isr>>

InterruptPending == intr_en /\ intr_st

\* counter_esp32_isr up to the callback: the status is cleared first.
IsrEnter ==
  /\ isr = "idle" /\ InterruptPending
  /\ isr' = "callback"
  /\ intr_st' = FALSE
  /\ UNCHANGED <<counter_en, alarm_en, intr_en>>

\* After the callback (an action of the driver): auto_reload.
IsrRearm ==
  /\ isr = "rearm"
  /\ isr' = "return"
  /\ intr_en' = TRUE
  /\ alarm_en' = TRUE
  /\ UNCHANGED <<counter_en, intr_st>>

\* Mutant: the vendor's order, which clears the status last.
IsrReturnClearing ==
  /\ isr = "return"
  /\ isr' = "idle"
  /\ intr_st' = FALSE
  /\ UNCHANGED <<counter_en, alarm_en, intr_en>>

\* The end of the handler touches no register: the vendor's version cleared
\* the status here, and with it an alarm that fired since IsrRearm.
IsrReturn ==
  /\ isr = "return"
  /\ isr' = "idle"
  /\ UNCHANGED registers

\* A counter that is counting will interrupt again: an alarm is armed or
\* pending, or the handler is still to re-arm it (docu/src/zephyr.md calls
\* the contrary "a dead timer").
NoDeadTimer ==
  counter_en => alarm_en \/ InterruptPending \/ isr \in {"callback", "rearm"}
=============================================================================
