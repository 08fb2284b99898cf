------------------------------- MODULE MCDataOp -------------------------------
(* Texts and files that stay below the size of a new buffer, and that take it *)
(* past one and past several steps of growth.                                 *)
EXTENDS DataOp

MCTexts == {0, 3, 30}
MCFiles == {0, 1, 9}
MCNumbers == {-1, 9}
MCLines == {<< >>, <<0>>, <<3>>, <<3, 0, 30>>, <<30, 30>>}
=============================================================================
