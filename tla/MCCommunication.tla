--------------------------- MODULE MCCommunication ---------------------------
(* Instances of Communication for TLC: a few files and messages.  Task      *)
(* numbers say what the task is: 1, 11 a large file, 2, 12 a small file,    *)
(* 3, 13 a message.                                                         *)
EXTENDS Communication

ServerOwnsBelow10 == [t \in Tasks |-> IF t < 10 THEN Server ELSE Client]
ClientOwnsBelow10 == [t \in Tasks |-> IF t < 10 THEN Client ELSE Server]

KindByDigit == [t \in Tasks |-> CASE t % 10 = 1 -> "LARGE_FILE"
                                  [] t % 10 = 2 -> "SMALL_FILE"
                                  [] OTHER -> "MESSAGE"]
Size2 == [t \in Tasks |-> 2]
Size3 == [t \in Tasks |-> 3]

Priority5 == [t \in Tasks |-> 5]
\* The tasks from 11 on come before any answer.
UrgentAbove10 == [t \in Tasks |-> IF t < 10 THEN 5 ELSE 0]
=============================================================================
