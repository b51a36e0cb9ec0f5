---------------------------- MODULE DeliveryQueue ----------------------------
(***************************************************************************)
(* What the local-trigger queue promises (docs/automations.md, "Delivery   *)
(* and Reliability"): an accepted delivery is kept until it was handled,   *)
(* was given up after MaxAttempts, or its trigger was deleted; it may be   *)
(* submitted more than once but never more than MaxAttempts times, and     *)
(* never after it ended.                                                   *)
(***************************************************************************)
EXTENDS Naturals

CONSTANTS
    Deliveries,     \* the deliveries that may be enqueued
    MaxAttempts     \* _MAX_DELIVERY_ATTEMPTS

VARIABLES
    state,          \* what became of each delivery
    submits         \* how often each was submitted as a turn

vars == <<state, submits>>

Pending(d) == state[d] = "pending"

Init ==
    /\ state = [d \in Deliveries |-> "none"]
    /\ submits = [d \in Deliveries |-> 0]

Accept(d) ==
    /\ state[d] = "none"
    /\ state' = [state EXCEPT ![d] = "pending"]
    /\ UNCHANGED submits

Submit(d) ==
    /\ Pending(d)
    /\ submits[d] < MaxAttempts
    /\ submits' = [submits EXCEPT ![d] = @ + 1]
    /\ UNCHANGED state

\* A turn was reported, or the delivery was dropped for a reason.
Settle(d) ==
    /\ Pending(d)
    /\ state' = [state EXCEPT ![d] = "settled"]
    /\ UNCHANGED submits

\* Deliveries whose attempts are used up, several at a restart.
Fail(D) ==
    /\ D # {} /\ \A d \in D : Pending(d)
    /\ state' = [d \in Deliveries |-> IF d \in D THEN "failed" ELSE state[d]]
    /\ UNCHANGED submits

\* The deletion of a trigger takes its deliveries along.
Void(D) ==
    /\ \A d \in D : state[d] \notin {"none", "void"}
    /\ state' = [d \in Deliveries |-> IF d \in D THEN "void" ELSE state[d]]
    /\ UNCHANGED submits

Next ==
    \/ \E d \in Deliveries : Accept(d) \/ Submit(d) \/ Settle(d)
    \/ \E D \in SUBSET Deliveries : Fail(D) \/ Void(D)

Spec == Init /\ [][Next]_vars
=============================================================================
