-------------------------- MODULE MCBackgroundWork --------------------------
(* Instances of BackgroundWork for TLC. *)
EXTENDS BackgroundWork, TLC

CONSTANTS k1, k2, b1, b2

Budget(turns, subs, starts, writes, faults, idle, overdue) ==
    [turns |-> turns, subs |-> subs, starts |-> starts, writes |-> writes, faults |-> faults,
     idle |-> idle, overdue |-> overdue]

One == [k \in Keys |-> IF k = k1 THEN 1 ELSE 0]
Two == [k \in Keys |-> 1]
Again == [k \in Keys |-> IF k = k1 THEN 2 ELSE 0]

MCBudgets == {Budget(Two, {}, 2, 0, 0, 1, 0), Budget(Again, {}, 1, 1, 0, 0, 1),
              Budget(Two, {}, 1, 0, 1, 1, 0), Budget(One, {b1}, 1, 0, 1, 0, 0),
              Budget(One, {}, 1, 0, 2, 1, 0), Budget(Two, {b1, b2}, 0, 0, 0, 0, 0)}
=============================================================================
