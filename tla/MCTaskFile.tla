----------------------------- MODULE MCTaskFile -----------------------------
(* Instances of TaskFile for TLC: ids 1, 2, ... in the order of addition.  *)
EXTENDS TaskFile, TLC

Task1To3 == 1..3
Task1To4 == 1..4
\* Task 2 is a control task.
AllBut2 == Tasks \ {2}
\* The threads do the same, and nothing depends on what a TaskInfo says.
Symmetry == {p @@ q : p \in Permutations(Threads), q \in Permutations(Infos)}
=============================================================================
