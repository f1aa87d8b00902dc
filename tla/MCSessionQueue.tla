--------------------------- MODULE MCSessionQueue ---------------------------
(* Small instances of SessionQueue for TLC. *)
EXTENDS SessionQueue
=============================================================================
