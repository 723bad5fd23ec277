------------------------------- MODULE Reminders -------------------------------
(* The two halves of src/src/reminders side by side: the poller, which always *)
(* asks remindctl, and the calls that list and change todos.  They share no   *)
(* variable (what a call does to the list in Apple Reminders is a ChangeList  *)
(* of the poller's), so that their steps need not be interleaved: a behaviour *)
(* shows one or the other.                                                    *)
EXTENDS ReminderPoll

CONSTANTS NCalls, MaxTime, Machines
VARIABLES installed, reminders, file, calls, now, disturbed, flapped

Bridge == INSTANCE TodoStore
ASSUME BridgeBounds ==
  /\ NCalls \in Nat /\ MaxTime \in Nat
  /\ Machines \subseteq SUBSET {"remindctl", "apple-reminders-cli", "ekctl"}

bridgeVars == <<installed, reminders, file, calls, now, disturbed, flapped>>

BothInit == Init /\ Bridge!Init

BothNext ==
  \/ Next /\ Bridge!Init /\ "remindctl" \in installed /\ UNCHANGED bridgeVars
  \/ Bridge!Next /\ Init /\ list = Nothing /\ UNCHANGED vars

BothSpec == BothInit /\ [][BothNext]_<<vars, bridgeVars>> /\ Fairness

ReadsItsWrites == Bridge!ReadsItsWrites
NothingMadeUp == Bridge!NothingMadeUp
=============================================================================
