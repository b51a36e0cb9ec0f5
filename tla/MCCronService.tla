---------------------------- MODULE MCCronService ----------------------------
(* Instances of CronService for TLC: the heartbeat, a repeating reminder   *)
(* and a one-shot one that is due at time 1.                               *)
EXTENDS CronService

CONSTANTS heartbeat, reminder, oneshot

MCAt == [j \in Jobs |-> IF j = oneshot THEN 1 ELSE 0]
=============================================================================
