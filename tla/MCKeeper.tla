------------------------------ MODULE MCKeeper ------------------------------
(* Instances of Keeper: two turns, one output of each size. *)
EXTENDS Keeper
=============================================================================
