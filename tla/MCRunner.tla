------------------------------ MODULE MCRunner ------------------------------
(* Instances of Runner: two turns, a deadline two probes long. *)
EXTENDS Runner
=============================================================================
