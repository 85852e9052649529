------------------------------- MODULE MCHosts -------------------------------
(* Instances of Hosts for TLC. *)
EXTENDS Hosts
CONSTANTS a, b, r1, r2
=============================================================================
