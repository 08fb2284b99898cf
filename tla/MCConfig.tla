------------------------------- MODULE MCConfig -------------------------------
EXTENDS Config

CONSTANTS t1, t2
=============================================================================
