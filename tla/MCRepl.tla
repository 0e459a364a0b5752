------------------------------- MODULE MCRepl -------------------------------
EXTENDS Repl
=============================================================================
