-------------------------- MODULE MCCentralClaims --------------------------
(* Small instances of CentralClaims for TLC. *)
EXTENDS CentralClaims

CONSTANTS a, b
=============================================================================
