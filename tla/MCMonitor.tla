----------------------------- MODULE MCMonitor ------------------------------
(* Instances of Monitor for TLC: a few files that are interchangeable.     *)
EXTENDS Monitor, TLC

Symmetry == Permutations(Files)
=============================================================================
