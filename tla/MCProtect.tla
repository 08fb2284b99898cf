----------------------------- MODULE MCProtect ------------------------------
(* Instances of Protect for TLC. *)
EXTENDS Protect

Pids5 == 1..5
=============================================================================
