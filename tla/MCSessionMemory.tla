--------------------------- MODULE MCSessionMemory ---------------------------
(* An instance of SessionMemory for TLC. *)
EXTENDS SessionMemory
=============================================================================
