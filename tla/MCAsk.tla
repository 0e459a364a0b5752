------------------------------- MODULE MCAsk -------------------------------
(* Instances of Ask for TLC. *)
EXTENDS Ask
=============================================================================
