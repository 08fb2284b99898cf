---------------------------- MODULE ProtectProofs ----------------------------
(***************************************************************************)
(* Theorems about Protect: if processes start promptly there is never more *)
(* than one of each kind, and a stopped service stays stopped.             *)
(*                                                                         *)
(* What makes save_pidfile work is that a process which looks for another  *)
(* one (ReadPidfile) can rely on the pid file: every process past its own  *)
(* WritePidfile is in it, and nobody else is about to write it.  The latter *)
(* needs that nobody is started while another one starts, hence the facts  *)
(* about the processes that may start one.                                 *)
(***************************************************************************)
EXTENDS Protect, FiniteSetTheorems, TLAPS

\* A process is where its kind can be.
KindsMatch ==
    \A p \in Pids :
        /\ pc[p] \in Loop => kind[p] = "protect"
        /\ pc[p] \in {"RUN", "STOP"} => kind[p] = "main"

OneStarting ==
    \A p, q \in Pids : pc[p] \in Starting /\ pc[q] \in Starting => p = q

\* A process that has started is the one its pid file names.
Recorded ==
    \A p \in Pids : pc[p] \notin {"NONE"} \cup Starting => pidfile[kind[p]] = p

\* Who has decided to write the pid file is the only one of its kind at work.
WriterAlone ==
    \A p, q \in Pids : pc[p] = "WRITE" /\ kind[q] = kind[p] /\ q # p
                        => pc[q] \in {"NONE", "CREATE", "READ"}

\* While a process may be about to start another, or to end it all, none starts.
NobodyStartsMeanwhile ==
    \A p \in Pids : pc[p] \in {"CHECK", "PROBE", "FORK", "STOP"}
                        => \A q \in Pids : pc[q] \notin Starting

\* A main process is started only when there is none.
MainGone ==
    \A p \in Pids : pc[p] = "FORK"
                        => \A q \in Pids : kind[q] = "main" => pc[q] = "NONE"

\* Without the run file nobody starts or starts another, except for the very
\* first process, which is about to create it.
NothingRevives ==
    ~run => \/ \A p \in Pids : pc[p] \notin Starting \cup {"RUN", "STOP"}
            \/ /\ ~stopped
               /\ \E p \in Pids : /\ pc[p] = "CREATE"
                                  /\ \A q \in Pids : q # p => pc[q] = "NONE"

\* The inductive invariant.
ProtectInv ==
    /\ TypeOK
    /\ KindsMatch
    /\ OneStarting
    /\ Recorded
    /\ WriterAlone
    /\ NobodyStartsMeanwhile
    /\ MainGone
    /\ NothingRevives
    /\ StaysStopped

-----------------------------------------------------------------------------
(* Types *)

LEMMA TypeInit == Init => TypeOK
<1> SUFFICES ASSUME Init PROVE TypeOK
  OBVIOUS
<1>1. kind \in [Pids -> Kinds]
  BY DEF Init, Kinds
<1>2. pc \in [Pids -> Points]
  <2> PICK p \in Pids : pc = [q \in Pids |-> IF q = p THEN "CREATE" ELSE "NONE"]
    BY DEF Init
  <2> QED
    BY DEF Points, Starting
<1>3. pidfile \in [Kinds -> Pids \cup {0}]
  BY DEF Init
<1>4. kills \in 0..MaxKills /\ hangs \in 0..MaxHangs
  BY ProtectAssumption DEF Init
<1>5. run \in BOOLEAN /\ stopped \in BOOLEAN
  BY DEF Init
<1> QED
  BY <1>1, <1>2, <1>3, <1>4, <1>5 DEF TypeOK

LEMMA TypeNext == TypeOK /\ [Next]_vars => TypeOK'
<1> SUFFICES ASSUME TypeOK, [Next]_vars PROVE TypeOK'
  OBVIOUS
<1> USE ProtectAssumption DEF TypeOK, Kinds, Points, Starting, Loop
<1>1. ASSUME NEW p \in Pids, CreateRunFile(p) PROVE TypeOK'
  BY <1>1 DEF CreateRunFile, Goto, Fork, Free
<1>2. ASSUME NEW p \in Pids, ReadPidfile(p) PROVE TypeOK'
  BY <1>2 DEF ReadPidfile, Goto, Fork, Free
<1>3. ASSUME NEW p \in Pids, WritePidfile(p) PROVE TypeOK'
  BY <1>3 DEF WritePidfile, Goto, Fork, Free
<1>4. ASSUME NEW p \in Pids, Exit(p) PROVE TypeOK'
  BY <1>4 DEF Exit, Goto, Fork, Free
<1>5. ASSUME NEW p \in Pids, CheckRunFile(p) PROVE TypeOK'
  BY <1>5 DEF CheckRunFile, Goto, Fork, Free
<1>6. ASSUME NEW p \in Pids, Probe(p) PROVE TypeOK'
  BY <1>6 DEF Probe, Goto, Fork, Free
<1>7. ASSUME NEW p \in Pids, StartMain(p) PROVE TypeOK'
  BY <1>7 DEF StartMain, Goto, Fork, Free
<1>8. ASSUME NEW p \in Pids, Wake(p) PROVE TypeOK'
  BY <1>8 DEF Wake, Goto, Fork, Free
<1>9. ASSUME NEW p \in Pids, CheckProtect(p) PROVE TypeOK'
  BY <1>9 DEF CheckProtect, Goto, Fork, Free
<1>10. ASSUME NEW p \in Pids, StopProtect(p) PROVE TypeOK'
  BY <1>10 DEF StopProtect, Goto, Fork, Free
<1>11. ASSUME NEW p \in Pids, Stop(p) PROVE TypeOK'
  BY <1>11 DEF Stop, Goto, Fork, Free
<1>12. ASSUME NEW p \in Pids, Kill(p) PROVE TypeOK'
  BY <1>12 DEF Kill, Goto, Fork, Free
<1>13. ASSUME NEW p \in Pids, Hang(p) PROVE TypeOK'
  BY <1>13 DEF Hang, Goto, Fork, Free
<1>14. CASE UNCHANGED vars
  BY <1>14 DEF vars
<1> QED
  BY <1>1, <1>2, <1>3, <1>4, <1>5, <1>6, <1>7, <1>8, <1>9, <1>10, <1>11, <1>12, <1>13, <1>14 DEF Next, ProcessStep

LEMMA CreateRunFileInv ==
    ASSUME PromptStart, ProtectInv, NEW p \in Pids, CreateRunFile(p), TypeOK'
    PROVE  ProtectInv'
<1> USE DEF ProtectInv, TypeOK, Kinds, Points, Starting, Loop, CreateRunFile, Goto
<1>1. KindsMatch'
  BY DEF KindsMatch
<1>2. OneStarting'
  BY DEF OneStarting
<1>3. Recorded'
  BY DEF Recorded
<1>4. WriterAlone'
  BY DEF WriterAlone
<1>5. NobodyStartsMeanwhile'
  BY DEF NobodyStartsMeanwhile
<1>6. MainGone'
  BY DEF MainGone
<1>7. NothingRevives'
  BY DEF NothingRevives
<1>8. StaysStopped'
  BY DEF StaysStopped, NothingRevives
<1> QED
  BY <1>1, <1>2, <1>3, <1>4, <1>5, <1>6, <1>7, <1>8

\* A process of this kind that has started would be in the pid file, and exist.
LEMMA ReadPidfileInv ==
    ASSUME PromptStart, ProtectInv, NEW p \in Pids, ReadPidfile(p), TypeOK'
    PROVE  ProtectInv'
<1> USE DEF ProtectInv, TypeOK, Kinds, Points, Starting, Loop, ReadPidfile, Goto
<1>1. KindsMatch'
  BY DEF KindsMatch
<1>2. OneStarting'
  BY DEF OneStarting
<1>3. Recorded'
  BY DEF Recorded
<1>4. WriterAlone'
  BY ProtectAssumption DEF WriterAlone, OneStarting, Recorded, Exists
<1>5. NobodyStartsMeanwhile'
  BY DEF NobodyStartsMeanwhile
<1>6. MainGone'
  BY DEF MainGone
<1>7. NothingRevives'
  BY DEF NothingRevives
<1>8. StaysStopped'
  BY DEF StaysStopped
<1> QED
  BY <1>1, <1>2, <1>3, <1>4, <1>5, <1>6, <1>7, <1>8

\* It overwrites the pid of none that lives, as it is alone at work.
LEMMA WritePidfileInv ==
    ASSUME PromptStart, ProtectInv, NEW p \in Pids, WritePidfile(p), TypeOK'
    PROVE  ProtectInv'
<1> USE DEF ProtectInv, TypeOK, Kinds, Points, Starting, Loop, WritePidfile, Goto
<1>1. KindsMatch'
  BY DEF KindsMatch
<1>2. OneStarting'
  BY DEF OneStarting
<1>3. Recorded'
  BY DEF Recorded, WriterAlone
<1>4. WriterAlone'
  BY DEF WriterAlone
<1>5. NobodyStartsMeanwhile'
  BY DEF NobodyStartsMeanwhile, OneStarting
<1>6. MainGone'
  BY DEF MainGone
<1>7. NothingRevives'
  BY DEF NothingRevives
<1>8. StaysStopped'
  BY DEF StaysStopped
<1> QED
  BY <1>1, <1>2, <1>3, <1>4, <1>5, <1>6, <1>7, <1>8

\* The pid file that exit removes is the own one.
LEMMA ExitInv ==
    ASSUME PromptStart, ProtectInv, NEW p \in Pids, Exit(p), TypeOK'
    PROVE  ProtectInv'
<1> USE DEF ProtectInv, TypeOK, Kinds, Points, Starting, Loop, Exit, Goto
<1>1. KindsMatch'
  BY DEF KindsMatch
<1>2. OneStarting'
  BY DEF OneStarting
<1>3. Recorded'
  BY DEF Recorded
<1>4. WriterAlone'
  BY DEF WriterAlone
<1>5. NobodyStartsMeanwhile'
  BY DEF NobodyStartsMeanwhile
<1>6. MainGone'
  BY DEF MainGone
<1>7. NothingRevives'
  BY DEF NothingRevives
<1>8. StaysStopped'
  BY DEF StaysStopped
<1> QED
  BY <1>1, <1>2, <1>3, <1>4, <1>5, <1>6, <1>7, <1>8

LEMMA CheckRunFileInv ==
    ASSUME PromptStart, ProtectInv, NEW p \in Pids, CheckRunFile(p), TypeOK'
    PROVE  ProtectInv'
<1> USE DEF ProtectInv, TypeOK, Kinds, Points, Starting, Loop, CheckRunFile, Goto
<1>1. KindsMatch'
  BY DEF KindsMatch
<1>2. OneStarting'
  BY DEF OneStarting
<1>3. Recorded'
  BY DEF Recorded
<1>4. WriterAlone'
  BY DEF WriterAlone
<1>5. NobodyStartsMeanwhile'
  BY DEF NobodyStartsMeanwhile
<1>6. MainGone'
  BY DEF MainGone
<1>7. NothingRevives'
  BY DEF NothingRevives
<1>8. StaysStopped'
  BY DEF StaysStopped
<1> QED
  BY <1>1, <1>2, <1>3, <1>4, <1>5, <1>6, <1>7, <1>8

\* No main process is in the pid file, and none starts: there is none.
LEMMA ProbeInv ==
    ASSUME PromptStart, ProtectInv, NEW p \in Pids, Probe(p), TypeOK'
    PROVE  ProtectInv'
<1> USE DEF ProtectInv, TypeOK, Kinds, Points, Starting, Loop, Probe, Goto
<1>1. KindsMatch'
  BY DEF KindsMatch
<1>2. OneStarting'
  BY DEF OneStarting
<1>3. Recorded'
  BY DEF Recorded
<1>4. WriterAlone'
  BY DEF WriterAlone
<1>5. NobodyStartsMeanwhile'
  BY DEF NobodyStartsMeanwhile
<1>6. MainGone'
  BY ProtectAssumption DEF MainGone, Recorded, NobodyStartsMeanwhile, Exists
<1>7. NothingRevives'
  BY DEF NothingRevives
<1>8. StaysStopped'
  BY DEF StaysStopped
<1> QED
  BY <1>1, <1>2, <1>3, <1>4, <1>5, <1>6, <1>7, <1>8

\* Nobody else starts, and no main process is there that might end it all.
LEMMA StartMainInv ==
    ASSUME PromptStart, ProtectInv, NEW p \in Pids, StartMain(p), TypeOK'
    PROVE  ProtectInv'
<1> USE DEF ProtectInv, TypeOK, Kinds, Points, Starting, Loop, StartMain, Fork, Free, Goto
<1>1. KindsMatch'
  BY DEF KindsMatch
<1>2. OneStarting'
  BY DEF OneStarting, NobodyStartsMeanwhile
<1>3. Recorded'
  BY DEF Recorded
<1>4. WriterAlone'
  BY DEF WriterAlone
<1>5. NobodyStartsMeanwhile'
  BY DEF NobodyStartsMeanwhile, KindsMatch, Recorded, MainGone
<1>6. MainGone'
  BY DEF MainGone, KindsMatch, Recorded
<1>7. NothingRevives'
  BY DEF NothingRevives
<1>8. StaysStopped'
  BY DEF StaysStopped
<1> QED
  BY <1>1, <1>2, <1>3, <1>4, <1>5, <1>6, <1>7, <1>8

\* Without the run file nobody starts, with it the wait outlasts every start.
LEMMA WakeInv ==
    ASSUME PromptStart, ProtectInv, NEW p \in Pids, Wake(p), TypeOK'
    PROVE  ProtectInv'
<1> USE DEF ProtectInv, TypeOK, Kinds, Points, Starting, Loop, Wake, Goto, NoneStarting
<1>1. KindsMatch'
  BY DEF KindsMatch
<1>2. OneStarting'
  BY DEF OneStarting
<1>3. Recorded'
  BY DEF Recorded
<1>4. WriterAlone'
  BY DEF WriterAlone
<1>5. NobodyStartsMeanwhile'
  BY DEF NobodyStartsMeanwhile, NothingRevives
<1>6. MainGone'
  BY DEF MainGone
<1>7. NothingRevives'
  BY DEF NothingRevives
<1>8. StaysStopped'
  BY DEF StaysStopped
<1> QED
  BY <1>1, <1>2, <1>3, <1>4, <1>5, <1>6, <1>7, <1>8

\* A protect process that may start another would send heartbeats.
LEMMA CheckProtectInv ==
    ASSUME PromptStart, ProtectInv, NEW p \in Pids, CheckProtect(p), TypeOK'
    PROVE  ProtectInv'
<1> USE DEF ProtectInv, TypeOK, Kinds, Points, Starting, Loop, CheckProtect, Fork, Free, NoneStarting
<1>1. KindsMatch'
  BY DEF KindsMatch
<1>2. OneStarting'
  BY DEF OneStarting
<1>3. Recorded'
  BY DEF Recorded
<1>4. WriterAlone'
  BY DEF WriterAlone
<1>5. NobodyStartsMeanwhile'
  BY DEF NobodyStartsMeanwhile, KindsMatch, Recorded, HasHeartbeat
<1>6. MainGone'
  BY DEF MainGone
<1>7. NothingRevives'
  BY DEF NothingRevives
<1>8. StaysStopped'
  BY DEF StaysStopped
<1> QED
  BY <1>1, <1>2, <1>3, <1>4, <1>5, <1>6, <1>7, <1>8

\* The only main process takes the run file away while nobody starts.
LEMMA StopProtectInv ==
    ASSUME PromptStart, ProtectInv, NEW p \in Pids, StopProtect(p), TypeOK'
    PROVE  ProtectInv'
<1> USE DEF ProtectInv, TypeOK, Kinds, Points, Starting, Loop, StopProtect, Goto
<1>1. KindsMatch'
  BY DEF KindsMatch
<1>2. OneStarting'
  BY DEF OneStarting
<1>3. Recorded'
  BY DEF Recorded
<1>4. WriterAlone'
  BY DEF WriterAlone
<1>5. NobodyStartsMeanwhile'
  BY DEF NobodyStartsMeanwhile
<1>6. MainGone'
  BY DEF MainGone
<1>7. NothingRevives'
  BY DEF NothingRevives, KindsMatch, Recorded, NobodyStartsMeanwhile
<1>8. StaysStopped'
  BY DEF StaysStopped
<1> QED
  BY <1>1, <1>2, <1>3, <1>4, <1>5, <1>6, <1>7, <1>8

LEMMA StopInv ==
    ASSUME PromptStart, ProtectInv, NEW p \in Pids, Stop(p), TypeOK'
    PROVE  ProtectInv'
<1> USE DEF ProtectInv, TypeOK, Kinds, Points, Starting, Loop, Stop, Goto, NoneStarting
<1>1. KindsMatch'
  BY DEF KindsMatch
<1>2. OneStarting'
  BY DEF OneStarting
<1>3. Recorded'
  BY DEF Recorded
<1>4. WriterAlone'
  BY DEF WriterAlone
<1>5. NobodyStartsMeanwhile'
  BY DEF NobodyStartsMeanwhile
<1>6. MainGone'
  BY DEF MainGone
<1>7. NothingRevives'
  BY DEF NothingRevives
<1>8. StaysStopped'
  BY DEF StaysStopped
<1> QED
  BY <1>1, <1>2, <1>3, <1>4, <1>5, <1>6, <1>7, <1>8

LEMMA KillInv ==
    ASSUME PromptStart, ProtectInv, NEW p \in Pids, Kill(p), TypeOK'
    PROVE  ProtectInv'
<1> USE DEF ProtectInv, TypeOK, Kinds, Points, Starting, Loop, Kill
<1>1. KindsMatch'
  BY DEF KindsMatch
<1>2. OneStarting'
  BY DEF OneStarting
<1>3. Recorded'
  BY DEF Recorded
<1>4. WriterAlone'
  BY DEF WriterAlone
<1>5. NobodyStartsMeanwhile'
  BY DEF NobodyStartsMeanwhile
<1>6. MainGone'
  BY DEF MainGone
<1>7. NothingRevives'
  BY DEF NothingRevives
<1>8. StaysStopped'
  BY DEF StaysStopped
<1> QED
  BY <1>1, <1>2, <1>3, <1>4, <1>5, <1>6, <1>7, <1>8

LEMMA HangInv ==
    ASSUME PromptStart, ProtectInv, NEW p \in Pids, Hang(p), TypeOK'
    PROVE  ProtectInv'
<1> USE DEF ProtectInv, TypeOK, Kinds, Points, Starting, Loop, Hang
<1>1. KindsMatch'
  BY DEF KindsMatch
<1>2. OneStarting'
  BY DEF OneStarting
<1>3. Recorded'
  BY DEF Recorded
<1>4. WriterAlone'
  BY DEF WriterAlone
<1>5. NobodyStartsMeanwhile'
  BY DEF NobodyStartsMeanwhile
<1>6. MainGone'
  BY DEF MainGone
<1>7. NothingRevives'
  BY DEF NothingRevives
<1>8. StaysStopped'
  BY DEF StaysStopped
<1> QED
  BY <1>1, <1>2, <1>3, <1>4, <1>5, <1>6, <1>7, <1>8

-----------------------------------------------------------------------------

\* Every variable of Protect keeps its type (protect.cpp), however long
\* processes take to start.
THEOREM ProtectTypeOK == Spec => []TypeOK
BY TypeInit, TypeNext, PTL DEF Spec

LEMMA InvInit == Init => ProtectInv
<1> SUFFICES ASSUME Init PROVE ProtectInv
  OBVIOUS
<1>1. TypeOK
  BY TypeInit
<1>2. PICK p \in Pids : pc = [q \in Pids |-> IF q = p THEN "CREATE" ELSE "NONE"]
  BY DEF Init
<1>3. \A q \in Pids : q # p => pc[q] = "NONE"
  BY <1>2
<1>4. pc[p] = "CREATE"
  BY <1>2
<1>5. KindsMatch /\ OneStarting /\ Recorded
  BY <1>3, <1>4 DEF KindsMatch, OneStarting, Recorded, Starting, Loop
<1>6. WriterAlone /\ NobodyStartsMeanwhile /\ MainGone
  BY <1>3, <1>4 DEF WriterAlone, NobodyStartsMeanwhile, MainGone
<1>7. NothingRevives /\ StaysStopped
  BY <1>3, <1>4 DEF NothingRevives, StaysStopped, Init
<1> QED
  BY <1>1, <1>5, <1>6, <1>7 DEF ProtectInv

LEMMA InvNext == ASSUME PromptStart PROVE ProtectInv /\ [Next]_vars => ProtectInv'
<1> SUFFICES ASSUME ProtectInv, [Next]_vars PROVE ProtectInv'
  OBVIOUS
<1>1. TypeOK'
  BY TypeNext DEF ProtectInv
<1>2. ASSUME NEW p \in Pids, ProcessStep(p) PROVE ProtectInv'
  BY <1>1, <1>2, PromptStart, CreateRunFileInv, ReadPidfileInv, WritePidfileInv, ExitInv,
     CheckRunFileInv, ProbeInv, StartMainInv, WakeInv, CheckProtectInv, StopProtectInv
  DEF ProcessStep
<1>3. ASSUME NEW p \in Pids, Stop(p) \/ Kill(p) \/ Hang(p) PROVE ProtectInv'
  BY <1>1, <1>3, PromptStart, StopInv, KillInv, HangInv
<1>4. CASE UNCHANGED vars
  BY <1>4 DEF vars, ProtectInv, TypeOK, KindsMatch, OneStarting, Recorded, WriterAlone,
     NobodyStartsMeanwhile, MainGone, NothingRevives, StaysStopped
<1> QED
  BY <1>2, <1>3, <1>4 DEF Next

LEMMA InvAlways == ASSUME PromptStart PROVE Spec => []ProtectInv
<1>1. ProtectInv /\ [Next]_vars => ProtectInv'
  BY PromptStart, InvNext
<1> QED
  BY <1>1, InvInit, PTL DEF Spec

\* Two processes at work are both recorded in the one pid file of their kind.
LEMMA WorkingIsOne ==
    ASSUME ProtectInv, NEW k \in Kinds, NEW p \in Working(k), NEW q \in Working(k)
    PROVE  p = q
BY DEF ProtectInv, TypeOK, Kinds, Points, Starting, Loop, Working, Recorded, WriterAlone

\* Given that processes start more promptly than the others wait, of the main
\* processes and of the protect processes there is at most one at work
\* (save_pidfile), whichever was killed, hung or started when.
THEOREM OneOfEachKind == ASSUME PromptStart PROVE Spec => []AtMostOne
<1>1. ProtectInv => AtMostOne
  <2> SUFFICES ASSUME ProtectInv, NEW k \in Kinds PROVE Cardinality(Working(k)) <= 1
    BY DEF AtMostOne
  <2>1. CASE Working(k) = {}
    BY <2>1, FS_EmptySet
  <2>2. CASE Working(k) # {}
    <3>1. PICK p \in Working(k) : TRUE
      BY <2>2
    <3>2. Working(k) = {p}
      BY <3>1, WorkingIsOne
    <3>3. Cardinality({p}) = 1
      BY FS_Singleton
    <3> QED
      BY <3>2, <3>3
  <2> QED
    BY <2>1, <2>2
<1>2. Spec => []ProtectInv
  BY PromptStart, InvAlways
<1> QED
  BY <1>1, <1>2, PTL

\* Given prompt starts, once the main process was stopped and has deleted the
\* run file, it never exists again: nobody revives the service (init_protect,
\* start_process).
THEOREM StoppedStaysStopped == ASSUME PromptStart PROVE Spec => []StaysStopped
<1>1. ProtectInv => StaysStopped
  BY DEF ProtectInv
<1>2. Spec => []ProtectInv
  BY PromptStart, InvAlways
<1> QED
  BY <1>1, <1>2, PTL
=============================================================================
