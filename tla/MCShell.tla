------------------------------- MODULE MCShell ------------------------------
(* The persistent shell under a few commands and a Ctrl-C or two. *)
EXTENDS Shell
=============================================================================
