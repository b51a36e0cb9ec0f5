-------------------------- MODULE MCTurnTranscript --------------------------
(* An instance of TurnTranscript for TLC. *)
EXTENDS TurnTranscript

CONSTANTS u1, u2, r1
=============================================================================
