--------------------------- MODULE MCLocalTriggers ---------------------------
(* Instances of LocalTriggers for TLC: which trigger a delivery is for. *)
EXTENDS LocalTriggers

CONSTANTS t1, t2

\* The first deliveries are for t1, the third for t2.
MCTriggerOf == [d \in Deliveries |-> IF d <= 2 THEN t1 ELSE t2]
=============================================================================
