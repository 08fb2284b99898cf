------------------------------ MODULE Protect -------------------------------
(***************************************************************************)
(* Cross protection (protect.cpp): a main process and a protect process    *)
(* start one another again when one of them is gone.  They know each other *)
(* by their pid files; the run file says that the service is wanted.  The  *)
(* protect process sends the main one SIGUSR1, which fails if it is gone   *)
(* and is a heartbeat otherwise; the main process starts a protect process *)
(* when no heartbeat came for a while.  A process that finds another of    *)
(* its kind at work leaves at once.                                        *)
(*                                                                         *)
(* Time is abstracted to one question: may a process take longer to start  *)
(* (to fork, exec, read its configuration and write its pid file) than the *)
(* waits of the others?  PromptStart says no.                              *)
(***************************************************************************)
EXTENDS Naturals, FiniteSets

CONSTANTS
    Pids,         \* process ids; none is given out again while a pid file has it
    PromptStart,
    MaxKills,     \* bound: processes killed or crashed
    MaxHangs      \* bound: processes that stop to run but do not end

ASSUME ProtectAssumption ==
    /\ Pids \subseteq Nat \ {0}
    /\ PromptStart \in BOOLEAN
    /\ MaxKills \in Nat /\ MaxHangs \in Nat

VARIABLES
    kind,     \* per process, argv[1]: --server or --protect
    pc,       \* per process, where it is; NONE if there is no such process
    pidfile,  \* main_pidfile and protect_pidfile; 0 if the file does not exist
    run,      \* the run file exists
    stopped,  \* a main process that was told to stop has deleted the run file
    kills, hangs

vars == <<kind, pc, pidfile, run, stopped, kills, hangs>>

Kinds == {"main", "protect"}
Starting == {"CREATE", "READ", "WRITE"}
Loop == {"CHECK", "PROBE", "FORK", "SLEEP"}   \* of protect_main
Points == {"NONE", "RUN", "STOP", "EXIT", "HUNG"} \cup Starting \cup Loop

\* Mutant of Exists: the result of kill() is taken the wrong way round.
ExistsReversed(p) == p # 0 /\ pc[p] = "NONE"
\* What kill(pid, SIGUSR1) finds: a hung process is there, too.
Exists(p) == p # 0 /\ pc[p] # "NONE"
Free == {p \in Pids : pc[p] = "NONE" /\ \A k \in Kinds : pidfile[k] # p}

\* Nobody waits as long as a process takes to start.
NoneStarting == PromptStart => \A p \in Pids : pc[p] \notin Starting

Init ==
    /\ kind = [p \in Pids |-> "main"]
    /\ \E p \in Pids : pc = [q \in Pids |-> IF q = p THEN "CREATE" ELSE "NONE"]
    /\ pidfile = [k \in Kinds |-> 0]
    /\ run = FALSE /\ stopped = FALSE
    /\ kills = 0 /\ hangs = 0

\* fork and execv: the child begins with main() and init_protect.
Fork(p, k, goto) ==
    \E c \in Free :
        /\ kind' = [kind EXCEPT ![c] = k]
        /\ pc' = [pc EXCEPT ![c] = "CREATE", ![p] = goto]

Goto(p, from, to) == pc[p] = from /\ pc' = [pc EXCEPT ![p] = to]

-----------------------------------------------------------------------------
(* init_protect and save_pidfile *)

CreateRunFile(p) ==
    /\ Goto(p, "CREATE", "READ")
    /\ run' = TRUE
    /\ UNCHANGED <<kind, pidfile, stopped, kills, hangs>>

\* Mutant of ReadPidfile: the pid file alone decides, not whether it is alive.
ReadPidfileOnly(p) ==
    /\ Goto(p, "READ", IF pidfile[kind[p]] # 0 THEN "NONE" ELSE "WRITE")
    /\ UNCHANGED <<kind, pidfile, run, stopped, kills, hangs>>
\* Another one of this kind is at work: exit, before atexit was called.
ReadPidfile(p) ==
    /\ Goto(p, "READ", IF Exists(pidfile[kind[p]]) THEN "NONE" ELSE "WRITE")
    /\ UNCHANGED <<kind, pidfile, run, stopped, kills, hangs>>

WritePidfile(p) ==
    /\ Goto(p, "WRITE", IF kind[p] = "main" THEN "RUN" ELSE "CHECK")
    /\ pidfile' = [pidfile EXCEPT ![kind[p]] = p]
    /\ UNCHANGED <<kind, run, stopped, kills, hangs>>

\* Mutant of Exit: the pid file is left with something that is no pid.
ExitEmptying(p) ==
    /\ Goto(p, "EXIT", "NONE")
    /\ pidfile' = [k \in Kinds \ {kind[p]} |-> pidfile[k]]
    /\ UNCHANGED <<kind, run, stopped, kills, hangs>>
\* exit, with pidfile_delete: whatever the file says by then.
Exit(p) ==
    /\ Goto(p, "EXIT", "NONE")
    /\ pidfile' = [pidfile EXCEPT ![kind[p]] = 0]
    /\ UNCHANGED <<kind, run, stopped, kills, hangs>>

-----------------------------------------------------------------------------
(* protect_main *)

CheckRunFile(p) ==
    /\ Goto(p, "CHECK", IF run THEN "PROBE" ELSE "EXIT")
    /\ UNCHANGED <<kind, pidfile, run, stopped, kills, hangs>>

Probe(p) ==
    /\ Goto(p, "PROBE", IF Exists(pidfile["main"]) THEN "SLEEP" ELSE "FORK")
    /\ UNCHANGED <<kind, pidfile, run, stopped, kills, hangs>>

\* Mutant of StartMain: the run file is not looked for again.
StartMainAlways(p) ==
    /\ pc[p] = "FORK"
    /\ Fork(p, "main", "SLEEP")
    /\ UNCHANGED <<pidfile, run, stopped, kills, hangs>>
StartMain(p) ==
    /\ pc[p] = "FORK"
    /\ IF run THEN Fork(p, "main", "SLEEP") ELSE Goto(p, "FORK", "SLEEP") /\ UNCHANGED kind
    /\ UNCHANGED <<pidfile, run, stopped, kills, hangs>>

\* Period seconds, or until the run file has gone.
Wake(p) ==
    /\ NoneStarting \/ ~run
    /\ Goto(p, "SLEEP", "CHECK")
    /\ UNCHANGED <<kind, pidfile, run, stopped, kills, hangs>>

-----------------------------------------------------------------------------
(* The main process: check_protect, and the end after STOP_SERVER *)

\* The process that sends the heartbeats is there and runs.
HasHeartbeat(p) ==
    /\ pidfile["main"] = p
    /\ \E q \in Pids : kind[q] = "protect" /\ pc[q] \in Loop

\* With Period < Timeout and processes that start promptly, no heartbeat is
\* late; otherwise a process may be started although there is one.
CheckProtect(p) ==
    /\ pc[p] = "RUN" /\ kind[p] = "main"
    /\ NoneStarting
    /\ PromptStart => ~HasHeartbeat(p)
    /\ Fork(p, "protect", "RUN")
    /\ UNCHANGED <<pidfile, run, stopped, kills, hangs>>

\* STOP_SERVER waits half a second, at least.
Stop(p) ==
    /\ NoneStarting
    /\ Goto(p, "RUN", "STOP")
    /\ UNCHANGED <<kind, pidfile, run, stopped, kills, hangs>>

StopProtect(p) ==
    /\ Goto(p, "STOP", "EXIT")
    /\ run' = FALSE /\ stopped' = TRUE
    /\ UNCHANGED <<kind, pidfile, kills, hangs>>

-----------------------------------------------------------------------------
(* Faults *)

Kill(p) ==
    /\ kills < MaxKills /\ pc[p] # "NONE"
    /\ kills' = kills + 1
    /\ pc' = [pc EXCEPT ![p] = "NONE"]
    /\ UNCHANGED <<kind, pidfile, run, stopped, hangs>>

\* It does not answer any more, but kill(pid, SIGUSR1) still succeeds.
Hang(p) ==
    /\ hangs < MaxHangs /\ pc[p] \in {"RUN", "SLEEP"}
    /\ hangs' = hangs + 1
    /\ pc' = [pc EXCEPT ![p] = "HUNG"]
    /\ UNCHANGED <<kind, pidfile, run, stopped, kills>>

ProcessStep(p) ==
    \/ CreateRunFile(p) \/ ReadPidfile(p) \/ WritePidfile(p) \/ Exit(p)
    \/ CheckRunFile(p) \/ Probe(p) \/ StartMain(p) \/ Wake(p)
    \/ CheckProtect(p) \/ StopProtect(p)

Next == \E p \in Pids : ProcessStep(p) \/ Stop(p) \/ Kill(p) \/ Hang(p)

Spec == Init /\ [][Next]_vars

\* The kernel schedules every process; stops and faults just happen.
FairSpec == Spec /\ \A p \in Pids : WF_vars(ProcessStep(p))

-----------------------------------------------------------------------------
(* Properties *)

TypeOK ==
    /\ kind \in [Pids -> Kinds]
    /\ pc \in [Pids -> Points]
    /\ pidfile \in [Kinds -> Pids \cup {0}]
    /\ run \in BOOLEAN /\ stopped \in BOOLEAN
    /\ kills \in 0..MaxKills /\ hangs \in 0..MaxHangs

Working(k) == {p \in Pids : kind[p] = k /\ pc[p] \notin {"NONE", "CREATE", "READ"}}

\* save_pidfile: of two main processes, or two protect processes, one leaves,
\* whichever was killed or started when; two daemons would write one task file.
AtMostOne == \A k \in Kinds : Cardinality(Working(k)) <= 1

\* Once a main process has been stopped and has taken the run file away, none
\* comes back: no protect process, an old one or one just started, revives it.
StaysStopped == stopped => ~run

Running(k) == \E p \in Pids : kind[p] = k /\ pc[p] \in Loop \cup {"RUN"}
Gone == \A p \in Pids : pc[p] = "NONE"

\* As long as one process is left it restores the other, whenever the two are
\* killed; after a stop, both end.  A process that hangs is never replaced: it
\* still answers kill().
Restored == <>[](Gone \/ (\A k \in Kinds : Running(k)) \/ hangs > 0)
=============================================================================
