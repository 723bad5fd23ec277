---------------------------- MODULE MCReminderPoll ----------------------------
(* ReminderPoll with one reminder (they do not affect each other) and two     *)
(* ticks in flight.                                                           *)
EXTENDS ReminderPoll
===============================================================================
