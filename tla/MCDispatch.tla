----------------------------- MODULE MCDispatch -----------------------------
(* Instances of Dispatch for TLC: which messages go to which session. *)
EXTENDS Dispatch

CONSTANTS s1, s2, u1, u2, u3, a1, a2, cmd, tmp, stop, new, discard

\* The letter of a message says what it is.
MCKind == [m \in Msgs |-> CASE m \in {u1, u2, u3} -> "user"
                            [] m \in {a1, a2} -> "auto"
                            [] m = cmd -> "command"
                            [] m = tmp -> "temporary"
                            [] m = stop -> "stop"
                            [] m = new -> "new"
                            [] m = discard -> "discard"]

\* Everything competes for one session.
OneSession == [m \in Msgs |-> s1]

\* Two sessions compete for the gate.
TwoSessions == [m \in Msgs |-> IF m \in {u3, cmd} THEN s2 ELSE s1]
=============================================================================
