----------------------------- MODULE MCTraffic -----------------------------
(* An instance of Traffic for TLC. *)
EXTENDS Traffic
=============================================================================
