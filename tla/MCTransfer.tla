------------------------------ MODULE MCTransfer ------------------------------
(* A length of two bytes and two messages, the first as long as a length. *)
EXTENDS Transfer

MCSize == <<2, 1>>
MCLengths == {0, 2}
=============================================================================
