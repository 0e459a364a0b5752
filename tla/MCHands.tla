------------------------------ MODULE MCHands ------------------------------
(* The hands on a directory and one below it. *)
EXTENDS Hands

CONSTANTS a, c

MCAbove == [d \in Dirs |-> IF d = c THEN {a, c} ELSE {d}]
=============================================================================
