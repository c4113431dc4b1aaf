---------------------------- MODULE MCPowerEvents ----------------------------
(* Instances of PowerEvents for TLC. *)
EXTENDS PowerEvents
=============================================================================
