------------------------------ MODULE MCReminders ------------------------------
(* The poller with one reminder and two ticks in flight; three todo calls on  *)
(* machines with no CLI and with remindctl and ekctl.                         *)
EXTENDS Reminders
SomeMachines == {{}, {"remindctl", "ekctl"}}
===============================================================================
