------------------------------ MODULE MCServer ------------------------------
EXTENDS Server
=============================================================================
