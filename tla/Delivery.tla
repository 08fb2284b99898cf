------------------------------- MODULE Delivery -------------------------------
(***************************************************************************)
(* What nbftp promises of a task, told without sessions, queues or         *)
(* connections: a task that is submitted is handed to the other side at    *)
(* least once, and is called done only after that.                         *)
(*                                                                         *)
(* It is a promise of at-least-once delivery: a task may be delivered      *)
(* again, and one that was done may be taken up again.  What the user has  *)
(* deleted may still arrive.  It stays deleted once that is on the disk;   *)
(* before, a restart may undo it.                                          *)
(***************************************************************************)
CONSTANT Tasks

VARIABLES
    phase,      \* per task, what its owner's queue says of it
    delivered   \* the tasks that were handed over on the other side

vars == <<phase, delivered>>

\* A task that is dropped is deleted, but not on the disk.
Phases == {"none", "waiting", "failed", "done", "dropped", "deleted"}

Init ==
    /\ phase = [t \in Tasks |-> "none"]
    /\ delivered = {}

\* What is not concerned in a step keeps its phase, but a deletion gets to
\* the disk with whatever is written.
Keeps(u) ==
    \/ phase'[u] = phase[u]
    \/ phase[u] = "dropped" /\ phase'[u] = "deleted"

Become(t, next) ==
    /\ phase' \in [Tasks -> Phases]
    /\ phase'[t] = next
    /\ \A u \in Tasks \ {t} : Keeps(u)
    /\ UNCHANGED delivered

Submit(t) == phase[t] = "none" /\ Become(t, "waiting")

\* It cannot be sent: its file is gone, or it was not submitted completely.
Fail(t) == phase[t] \in {"none", "waiting", "done"} /\ Become(t, "failed")

Deliver(t) ==
    /\ phase[t] # "none"
    /\ delivered' = delivered \cup {t}
    /\ UNCHANGED phase

Acknowledge(t) ==
    /\ phase[t] \in {"waiting", "failed"}
    /\ t \in delivered
    /\ Become(t, "done")

\* An answer that comes late has the task sent once more.
TakeUpAgain(t) == phase[t] \in {"done", "failed"} /\ Become(t, "waiting")

Delete(S) ==
    /\ phase' \in [Tasks -> Phases]
    /\ \A t \in S :
        phase[t] \in {"waiting", "failed", "done"} /\ phase'[t] \in {"dropped", "deleted"}
    /\ \A u \in Tasks \ S : Keeps(u)
    /\ UNCHANGED delivered

Write ==
    /\ phase' \in [Tasks -> Phases]
    /\ \A u \in Tasks : Keeps(u)
    /\ UNCHANGED delivered

\* A restart: deletions that are not on the disk are undone.
BringBack ==
    /\ phase' \in [Tasks -> Phases]
    /\ \A u \in Tasks :
        \/ phase'[u] = phase[u]
        \/ /\ phase[u] = "dropped"
           /\ phase'[u] \in {"waiting", "failed"} \/ (phase'[u] = "done" /\ u \in delivered)
    /\ UNCHANGED delivered

Next ==
    \/ \E t \in Tasks : Submit(t) \/ Fail(t) \/ Deliver(t) \/ Acknowledge(t) \/ TakeUpAgain(t)
    \/ \E S \in SUBSET Tasks : Delete(S)
    \/ Write \/ BringBack

Spec == Init /\ [][Next]_vars
=============================================================================
