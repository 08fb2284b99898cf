---------------------------- MODULE MonitorProofs ----------------------------
(***************************************************************************)
(* Theorems about Monitor: a reported file is queued, .last_added never    *)
(* runs ahead of the queue, and a file that is skipped is no newer than    *)
(* one that was added.                                                     *)
(*                                                                         *)
(* The last one needs most of the invariant.  A file written while the     *)
(* watch exists is reported.  One written before it is returned by the     *)
(* walk, and left out only if it is no newer than the time that the walk   *)
(* compares with; that time comes from .last_added or from the file added  *)
(* before, so the queue holds a file for which it was noted.               *)
(***************************************************************************)
EXTENDS Monitor, TLAPS

\* Files are reported exactly from Monitor::set on.
WatchedFromSet ==
    /\ watching <=> pc \notin {"DOWN", "WATCH"}
    /\ ~watching => reported = {}

\* add_file returns to the walk until it is over, and to check from then on.
WalkFirst ==
    /\ pc \in {"WATCH", "OPENDIR", "WALK"} => loop = "WALK"
    /\ pc = "RUN" => loop = "RUN"

\* What is copied is a file of the directory.
CopiesFile == pc = "ADD" => file \in Files

\* The time that the walk compares with, or that is about to be logged, was
\* noted for a file that is in the queue, unless it was read from an empty log.
LastIsAdded ==
    pc \in {"OPENLOG", "WRITELOG"} \/ (~garbage /\ pc \notin {"DOWN", "ADD"}) =>
        last = 0 \/ \E added \in queued : added[3] = last

\* Every file is queued, was reported, is being added, will be returned by the
\* walk, or is no newer than one that was added or is just being added.
WillBeFound(f) == pc \in {"WATCH", "OPENDIR"} \/ (loop = "WALK" /\ f \in walk)
NoNewer(f) ==
    \/ \E added \in queued : added[3] >= dir[f]
    \/ pc = "ADD" /\ last >= dir[f]
NewOnItsWay ==
    ~garbage /\ pc # "DOWN" =>
        \A f \in Files : dir[f] > 0 =>
            IsQueued(f) \/ f \in reported \/ (pc = "ADD" /\ file = f) \/ WillBeFound(f) \/ NoNewer(f)

\* The inductive invariant.
MonitorInv ==
    /\ TypeOK
    /\ WatchedFromSet
    /\ WalkFirst
    /\ CopiesFile
    /\ LastIsAdded
    /\ LogBehindQueue
    /\ ReportedIsQueued
    /\ NewOnItsWay
-----------------------------------------------------------------------------
(* Sequences, and types *)

LEMMA AppendContains ==
    ASSUME NEW S, NEW s \in Seq(S), NEW e \in S, NEW x
    PROVE  Contains(Append(s, e), x) <=> Contains(s, x) \/ x = e
BY DEF Contains

LEMMA TailContains ==
    ASSUME NEW S, NEW s \in Seq(S), s # << >>, NEW x, Contains(s, x)
    PROVE  x = Head(s) \/ Contains(Tail(s), x)
<1>1. PICK i \in 1..Len(s) : s[i] = x
  BY DEF Contains
<1>2. CASE i = 1
  BY <1>1, <1>2
<1>3. CASE i # 1
  <2>1. i - 1 \in 1..Len(Tail(s)) /\ Tail(s)[i - 1] = s[i]
    BY <1>3
  <2> QED
    BY <1>1, <2>1 DEF Contains
<1> QED
  BY <1>2, <1>3

LEMMA LastContains ==
    ASSUME NEW S, NEW s \in Seq(S), s # << >>
    PROVE  Contains(s, Last(s))
BY DEF Contains, Last

LEMMA TypeInit == Init => TypeOK
<1> SUFFICES ASSUME Init PROVE TypeOK
  OBVIOUS
<1> USE MonitorAssumption DEF Init, Times, Points, Empty
<1>1. dir \in [Files -> Times] /\ version \in [Files -> 0..MaxWrites] /\ writes \in 0..MaxWrites
  OBVIOUS
<1>2. events \in Seq(Files) /\ log \in Times \cup {Empty} /\ queued = {}
  OBVIOUS
<1>3. watching \in BOOLEAN /\ {overflow, garbage} \subseteq BOOLEAN
  OBVIOUS
<1>4. pc \in Points /\ loop \in {"WALK", "RUN"} /\ last \in Times
  OBVIOUS
<1> QED
  BY <1>1, <1>2, <1>3, <1>4 DEF TypeOK

\* Unless an event does not fit, the file is waiting and so is all that was.
LEMMA ReportKeeps ==
    ASSUME TypeOK, NEW f \in Files, Report(f)
    PROVE  /\ reported' = reported \cup {f}
           /\ events' \in Seq(Files) /\ overflow' \in BOOLEAN
           /\ ~overflow' => /\ ~overflow
                            /\ Contains(events', f)
                            /\ \A g \in Files : Contains(events, g) => Contains(events', g)
<1> USE DEF TypeOK, Report
<1>1. CASE events # <<>> /\ Last(events) = f
  <2>1. UNCHANGED <<events, overflow>>
    BY <1>1
  <2> QED
    BY <1>1, <2>1, LastContains
<1>2. CASE ~(events # <<>> /\ Last(events) = f) /\ Len(events) < QueueLimit
  <2>1. events' = Append(events, f) /\ UNCHANGED overflow
    BY <1>2
  <2> QED
    BY <2>1, AppendContains
<1>3. CASE ~(events # <<>> /\ Last(events) = f) /\ ~(Len(events) < QueueLimit)
  <2>1. overflow' = TRUE /\ UNCHANGED events
    BY <1>3
  <2> QED
    BY <2>1
<1> QED
  BY <1>1, <1>2, <1>3

LEMMA WriteType == ASSUME TypeOK, NEW f \in Files, Write(f) PROVE TypeOK'
<1> USE MonitorAssumption DEF TypeOK, Times, Points, world, kernel, disk
<1>1. dir' \in [Files -> Times] /\ version' \in [Files -> 0..MaxWrites] /\ writes' \in 0..MaxWrites
  BY DEF Write
<1>2. CASE watching
  <2>1. events' \in Seq(Files) /\ overflow' \in BOOLEAN /\ reported' \subseteq Files
    BY <1>2, ReportKeeps DEF Write
  <2> QED
    BY <1>1, <2>1 DEF Write
<1>3. CASE ~watching
  BY <1>1, <1>3 DEF Write
<1> QED
  BY <1>2, <1>3

LEMMA ConfirmType == ASSUME TypeOK, NEW f \in Files, Confirm(f) PROVE TypeOK'
BY MonitorAssumption DEF TypeOK, Confirm, BeginAdd, Times, Points, world, kernel, disk

LEMMA StopType == ASSUME TypeOK, Stop PROVE TypeOK'
<1> USE DEF TypeOK, Stop, Points, world, disk
<1>1. events' \in Seq(Files) /\ pc' \in Points /\ file' \in Files \cup {None}
  OBVIOUS
<1>2. watching' \in BOOLEAN /\ overflow' \in BOOLEAN /\ garbage' \in BOOLEAN
  OBVIOUS
<1> QED
  BY <1>1, <1>2

LEMMA DaemonType == ASSUME TypeOK, CopiesFile, Daemon PROVE TypeOK'
<1> USE MonitorAssumption DEF TypeOK, Times, Points, Goto, world, kernel, disk
<1>1. CASE Start
  <2>1. last' \in Times /\ garbage' \in BOOLEAN /\ starts' \in 0..MaxStarts
    BY <1>1 DEF Start, Empty
  <2> QED
    BY <1>1, <2>1 DEF Start
<1>2. CASE SetWatch
  BY <1>2 DEF SetWatch
<1>3. CASE OpenDir
  BY <1>3 DEF OpenDir
<1>4. CASE EndWalk
  BY <1>4 DEF EndWalk
<1>5. CASE Check
  <2>1. Head(events) \in Files /\ events' \in Seq(Files) /\ last' \in Times
    BY <1>5 DEF Check, BeginAdd
  <2> QED
    BY <1>5, <2>1 DEF Check, BeginAdd
<1>6. CASE AddFileTask
  BY <1>6 DEF AddFileTask, CopiesFile
<1>7. CASE OpenLog
  BY <1>7 DEF OpenLog, Empty
<1>8. CASE WriteLog
  BY <1>8 DEF WriteLog
<1>9. CASE Stop
  BY <1>9, StopType
<1>10. CASE \E f \in Files : Confirm(f)
  BY <1>10, ConfirmType
<1> QED
  BY <1>1, <1>2, <1>3, <1>4, <1>5, <1>6, <1>7, <1>8, <1>9, <1>10 DEF Daemon

\* The time in the log is that of a file in the queue.
LEMMA StartInv == ASSUME MonitorInv, Start, TypeOK' PROVE MonitorInv'
<1> USE MonitorAssumption DEF MonitorInv, TypeOK, Times, world, Start, kernel, disk, Goto, Empty
<1>1. WatchedFromSet'
  BY DEF WatchedFromSet
<1>2. WalkFirst'
  BY DEF WalkFirst
<1>3. CopiesFile'
  BY DEF CopiesFile
<1>4. LastIsAdded'
  <2>1. CASE log = Empty
    BY <2>1 DEF LastIsAdded
  <2>2. CASE log # Empty
    BY <2>2 DEF LastIsAdded, LogBehindQueue
  <2> QED
    BY <2>1, <2>2
<1>5. LogBehindQueue'
  BY DEF LogBehindQueue
<1>6. ReportedIsQueued'
  BY DEF ReportedIsQueued, IsQueued
<1>7. NewOnItsWay'
  BY DEF NewOnItsWay, WillBeFound, NoNewer, IsQueued
<1> QED
  BY <1>1, <1>2, <1>3, <1>4, <1>5, <1>6, <1>7

LEMMA SetWatchInv == ASSUME MonitorInv, SetWatch, TypeOK' PROVE MonitorInv'
<1> USE MonitorAssumption DEF MonitorInv, TypeOK, Times, world, SetWatch, disk, Goto
<1>1. WatchedFromSet'
  BY DEF WatchedFromSet
<1>2. WalkFirst'
  BY DEF WalkFirst
<1>3. CopiesFile'
  BY DEF CopiesFile
<1>4. LastIsAdded'
  BY DEF LastIsAdded
<1>5. LogBehindQueue'
  BY DEF LogBehindQueue
<1>6. ReportedIsQueued'
  BY DEF ReportedIsQueued, IsQueued
<1>7. NewOnItsWay'
  BY DEF NewOnItsWay, WillBeFound, NoNewer, IsQueued
<1> QED
  BY <1>1, <1>2, <1>3, <1>4, <1>5, <1>6, <1>7

\* The walk will return every file that is there by now.
LEMMA OpenDirInv == ASSUME MonitorInv, OpenDir, TypeOK' PROVE MonitorInv'
<1> USE MonitorAssumption DEF MonitorInv, TypeOK, Times, world, OpenDir, kernel, disk, Goto
<1>1. WatchedFromSet'
  BY DEF WatchedFromSet
<1>2. WalkFirst'
  BY DEF WalkFirst
<1>3. CopiesFile'
  BY DEF CopiesFile
<1>4. LastIsAdded'
  BY DEF LastIsAdded
<1>5. LogBehindQueue'
  BY DEF LogBehindQueue
<1>6. ReportedIsQueued'
  BY DEF ReportedIsQueued, IsQueued
<1>7. NewOnItsWay'
  BY DEF NewOnItsWay, WillBeFound, NoNewer, IsQueued, WalkFirst
<1> QED
  BY <1>1, <1>2, <1>3, <1>4, <1>5, <1>6, <1>7

LEMMA EndWalkInv == ASSUME MonitorInv, EndWalk, TypeOK' PROVE MonitorInv'
<1> USE MonitorAssumption DEF MonitorInv, TypeOK, Times, world, EndWalk, kernel, disk, Goto
<1>1. WatchedFromSet'
  BY DEF WatchedFromSet
<1>2. WalkFirst'
  BY DEF WalkFirst
<1>3. CopiesFile'
  BY DEF CopiesFile
<1>4. LastIsAdded'
  BY DEF LastIsAdded
<1>5. LogBehindQueue'
  BY DEF LogBehindQueue
<1>6. ReportedIsQueued'
  BY DEF ReportedIsQueued, IsQueued
<1>7. NewOnItsWay'
  BY DEF NewOnItsWay, WillBeFound, NoNewer, IsQueued
<1> QED
  BY <1>1, <1>2, <1>3, <1>4, <1>5, <1>6, <1>7

\* The event taken from the queue becomes the file that is being added.
LEMMA CheckInv == ASSUME MonitorInv, Check, TypeOK' PROVE MonitorInv'
<1> USE MonitorAssumption DEF MonitorInv, TypeOK, Times, world, Check, disk, BeginAdd
<1>1. WatchedFromSet'
  BY DEF WatchedFromSet
<1>2. WalkFirst'
  BY DEF WalkFirst
<1>3. CopiesFile'
  BY DEF CopiesFile
<1>4. LastIsAdded'
  BY DEF LastIsAdded
<1>5. LogBehindQueue'
  BY DEF LogBehindQueue
<1>6. ReportedIsQueued'
  <2>1. \A f \in Files : Contains(events, f) => f = file' \/ Contains(events', f)
    BY TailContains
  <2> QED
    BY <2>1 DEF ReportedIsQueued, IsQueued
<1>7. NewOnItsWay'
  <2> SUFFICES ASSUME NEW f \in Files, ~garbage, dir[f] > 0
               PROVE  IsQueued(f) \/ f \in reported \/ \E added \in queued : added[3] >= dir[f]
    BY DEF NewOnItsWay, IsQueued, NoNewer
  <2>1. ~WillBeFound(f)
    BY DEF WalkFirst, WillBeFound
  <2> QED
    BY <2>1 DEF NewOnItsWay, NoNewer
<1> QED
  BY <1>1, <1>2, <1>3, <1>4, <1>5, <1>6, <1>7

\* The version that is queued is the present one.
LEMMA AddFileTaskInv == ASSUME MonitorInv, AddFileTask, TypeOK' PROVE MonitorInv'
<1> USE MonitorAssumption DEF MonitorInv, TypeOK, Times, world, AddFileTask, kernel, Goto
<1>1. WatchedFromSet'
  BY DEF WatchedFromSet
<1>2. WalkFirst'
  BY DEF WalkFirst
<1>3. CopiesFile'
  BY DEF CopiesFile
<1>4. LastIsAdded'
  <2>1. <<file, version[file], last>> \in queued' /\ <<file, version[file], last>>[3] = last'
    OBVIOUS
  <2> QED
    BY <2>1 DEF LastIsAdded
<1>5. LogBehindQueue'
  BY DEF LogBehindQueue
<1>6. ReportedIsQueued'
  <2>1. IsQueued(file)' /\ \A f \in Files : IsQueued(f) => IsQueued(f)'
    BY DEF IsQueued, CopiesFile
  <2> QED
    BY <2>1 DEF ReportedIsQueued
<1>7. NewOnItsWay'
  <2>1. IsQueued(file)' /\ \A f \in Files : IsQueued(f) => IsQueued(f)'
    BY DEF IsQueued, CopiesFile
  <2>2. <<file, version[file], last>> \in queued' /\ <<file, version[file], last>>[3] = last
    OBVIOUS
  <2>3. \A f \in Files : NoNewer(f) => NoNewer(f)'
    BY <2>2 DEF NoNewer
  <2> QED
    BY <2>1, <2>3 DEF NewOnItsWay, WillBeFound
<1> QED
  BY <1>1, <1>2, <1>3, <1>4, <1>5, <1>6, <1>7

LEMMA OpenLogInv == ASSUME MonitorInv, OpenLog, TypeOK' PROVE MonitorInv'
<1> USE MonitorAssumption DEF MonitorInv, TypeOK, Times, world, OpenLog, kernel, Goto, Empty
<1>1. WatchedFromSet'
  BY DEF WatchedFromSet
<1>2. WalkFirst'
  BY DEF WalkFirst
<1>3. CopiesFile'
  BY DEF CopiesFile
<1>4. LastIsAdded'
  BY DEF LastIsAdded
<1>5. LogBehindQueue'
  BY DEF LogBehindQueue
<1>6. ReportedIsQueued'
  BY DEF ReportedIsQueued, IsQueued
<1>7. NewOnItsWay'
  BY DEF NewOnItsWay, WillBeFound, NoNewer, IsQueued
<1> QED
  BY <1>1, <1>2, <1>3, <1>4, <1>5, <1>6, <1>7

LEMMA WriteLogInv == ASSUME MonitorInv, WriteLog, TypeOK' PROVE MonitorInv'
<1> USE MonitorAssumption DEF MonitorInv, TypeOK, Times, world, WriteLog, kernel, Goto
<1>1. WatchedFromSet'
  BY DEF WatchedFromSet
<1>2. WalkFirst'
  BY DEF WalkFirst
<1>3. CopiesFile'
  BY DEF CopiesFile
<1>4. LastIsAdded'
  BY DEF LastIsAdded
<1>5. LogBehindQueue'
  BY DEF LogBehindQueue, LastIsAdded
<1>6. ReportedIsQueued'
  BY DEF ReportedIsQueued, IsQueued
<1>7. NewOnItsWay'
  BY DEF NewOnItsWay, WillBeFound, NoNewer, IsQueued
<1> QED
  BY <1>1, <1>2, <1>3, <1>4, <1>5, <1>6, <1>7

\* A daemon that is down promises nothing until its next walk.
LEMMA StopInv == ASSUME MonitorInv, Stop, TypeOK' PROVE MonitorInv'
<1> USE MonitorAssumption DEF MonitorInv, TypeOK, Times, world, Stop, disk
<1>1. WatchedFromSet'
  BY DEF WatchedFromSet
<1>2. WalkFirst'
  BY DEF WalkFirst
<1>3. CopiesFile'
  BY DEF CopiesFile
<1>4. LastIsAdded'
  BY DEF LastIsAdded
<1>5. LogBehindQueue'
  BY DEF LogBehindQueue
<1>6. ReportedIsQueued'
  BY DEF ReportedIsQueued, IsQueued
<1>7. NewOnItsWay'
  BY DEF NewOnItsWay, WillBeFound, NoNewer, IsQueued
<1> QED
  BY <1>1, <1>2, <1>3, <1>4, <1>5, <1>6, <1>7

\* A file that is passed over is no newer than last.
LEMMA ConfirmInv == ASSUME MonitorInv, NEW f \in Files, Confirm(f), TypeOK' PROVE MonitorInv'
<1> USE MonitorAssumption DEF MonitorInv, TypeOK, Times, world, Confirm, kernel, disk, BeginAdd
<1>1. WatchedFromSet'
  BY DEF WatchedFromSet
<1>2. WalkFirst'
  BY DEF WalkFirst
<1>3. CopiesFile'
  BY DEF CopiesFile
<1>4. LastIsAdded'
  BY DEF LastIsAdded
<1>5. LogBehindQueue'
  BY DEF LogBehindQueue
<1>6. ReportedIsQueued'
  BY DEF ReportedIsQueued, IsQueued
<1>7. NewOnItsWay'
  <2> SUFFICES ASSUME ~garbage, NEW g \in Files, dir[g] > 0
               PROVE  \/ IsQueued(g)' \/ g \in reported \/ (pc = "ADD" /\ file = g)'
                      \/ WillBeFound(g)' \/ NoNewer(g)'
    BY DEF NewOnItsWay
  <2>1. IsQueued(g) => IsQueued(g)'
    BY DEF IsQueued
  <2>2. NoNewer(g) => NoNewer(g)'
    BY DEF NoNewer
  <2>3. CASE g # f
    BY <2>1, <2>2, <2>3 DEF NewOnItsWay, WillBeFound
  <2>4. CASE g = f /\ last < dir[f]
    BY <2>4
  <2>5. CASE g = f /\ ~(last < dir[f])
    <3>1. PICK added \in queued : added[3] = last
      BY <2>5 DEF LastIsAdded
    <3> QED
      BY <2>5, <3>1 DEF NoNewer
  <2> QED
    BY <2>3, <2>4, <2>5
<1> QED
  BY <1>1, <1>2, <1>3, <1>4, <1>5, <1>6, <1>7

\* The file just written is reported, or will be returned by the walk.
LEMMA WriteInv == ASSUME MonitorInv, NEW f \in Files, Write(f), TypeOK' PROVE MonitorInv'
<1> USE MonitorAssumption DEF MonitorInv, TypeOK, Times, world, Write, disk
<1>1. WatchedFromSet'
  BY DEF WatchedFromSet
<1>2. WalkFirst'
  BY DEF WalkFirst
<1>3. CopiesFile'
  BY DEF CopiesFile
<1>4. LastIsAdded'
  BY DEF LastIsAdded
<1>5. LogBehindQueue'
  BY DEF LogBehindQueue
<1>6. ReportedIsQueued'
  <2>1. CASE watching
    <3>1. \A g \in Files : g # f /\ IsQueued(g) => IsQueued(g)'
      BY DEF IsQueued
    <3>2. /\ reported' = reported \cup {f}
          /\ ~overflow' => ~overflow /\ Contains(events', f)
          /\ ~overflow' => \A g \in Files : Contains(events, g) => Contains(events', g)
      BY <2>1, ReportKeeps
    <3> QED
      BY <3>1, <3>2 DEF ReportedIsQueued
  <2>2. CASE ~watching
    BY <2>2 DEF ReportedIsQueued, WatchedFromSet
  <2> QED
    BY <2>1, <2>2
<1>7. NewOnItsWay'
  <2> SUFFICES ASSUME ~garbage, pc # "DOWN", NEW g \in Files, dir'[g] > 0, g \notin reported'
               PROVE  \/ IsQueued(g)' \/ (pc = "ADD" /\ file = g)'
                      \/ WillBeFound(g)' \/ NoNewer(g)'
    BY DEF NewOnItsWay
  <2>1. CASE g = f
    <3>1. pc = "WATCH"
      BY <2>1 DEF WatchedFromSet, Report
    <3> QED
      BY <3>1 DEF WillBeFound
  <2>2. CASE g # f
    <3>1. dir'[g] = dir[g] /\ version'[g] = version[g] /\ g \notin reported
      BY <2>2 DEF Report
    <3> QED
      BY <3>1 DEF NewOnItsWay, WillBeFound, NoNewer, IsQueued
  <2> QED
    BY <2>1, <2>2
<1> QED
  BY <1>1, <1>2, <1>3, <1>4, <1>5, <1>6, <1>7

-----------------------------------------------------------------------------

LEMMA InvInit == Init => MonitorInv
<1> SUFFICES ASSUME Init PROVE MonitorInv
  OBVIOUS
<1>1. TypeOK
  BY TypeInit
<1>2. WatchedFromSet /\ WalkFirst /\ CopiesFile /\ LastIsAdded /\ LogBehindQueue
  BY DEF Init, WatchedFromSet, WalkFirst, CopiesFile, LastIsAdded, LogBehindQueue
<1>3. ReportedIsQueued /\ NewOnItsWay
  BY DEF Init, ReportedIsQueued, NewOnItsWay
<1> QED
  BY <1>1, <1>2, <1>3 DEF MonitorInv

LEMMA InvNext == MonitorInv /\ [Next]_vars => MonitorInv'
<1> SUFFICES ASSUME MonitorInv, [Next]_vars PROVE MonitorInv'
  OBVIOUS
<1>1. ASSUME Daemon PROVE MonitorInv'
  <2>1. TypeOK'
    BY <1>1, DaemonType DEF MonitorInv
  <2> QED
    BY <1>1, <2>1, StartInv, SetWatchInv, OpenDirInv, EndWalkInv, CheckInv, AddFileTaskInv,
       OpenLogInv, WriteLogInv, StopInv, ConfirmInv
    DEF Daemon
<1>2. ASSUME NEW f \in Files, Write(f) PROVE MonitorInv'
  BY <1>2, WriteType, WriteInv DEF MonitorInv
<1>3. CASE UNCHANGED vars
  <2> USE <1>3 DEF MonitorInv, vars, world, kernel, disk
  <2>1. TypeOK'
    BY DEF TypeOK
  <2>2. WatchedFromSet' /\ WalkFirst' /\ CopiesFile'
    BY DEF WatchedFromSet, WalkFirst, CopiesFile
  <2>3. LastIsAdded' /\ LogBehindQueue'
    BY DEF LastIsAdded, LogBehindQueue
  <2>4. ReportedIsQueued' /\ NewOnItsWay'
    BY DEF ReportedIsQueued, NewOnItsWay, IsQueued, WillBeFound, NoNewer
  <2> QED
    BY <2>1, <2>2, <2>3, <2>4
<1> QED
  BY <1>1, <1>2, <1>3 DEF Next

LEMMA InvAlways == Spec => []MonitorInv
BY InvInit, InvNext, PTL DEF Spec

\* Every variable of Monitor has its type: what add_file copies is always a
\* file of the directory (monitorop.cpp).
THEOREM MonitorTypeOK == Spec => []TypeOK
<1>1. MonitorInv => TypeOK
  BY DEF MonitorInv
<1> QED
  BY <1>1, InvAlways, PTL

\* Unless inotify's queue overflows, a reported file is in the send queue in
\* its last version, or its event waits, or it is just being added
\* (Monitor::check, add_file), for any number of files, writes and restarts.
THEOREM ReportedFilesQueued == Spec => []ReportedIsQueued
<1>1. MonitorInv => ReportedIsQueued
  BY DEF MonitorInv
<1> QED
  BY <1>1, InvAlways, PTL

\* .last_added always gives the time noted for a file that is in the queue, through
\* any stop or crash between the copy, the open and the write (add_file).
THEOREM LogNeverAhead == Spec => []LogBehindQueue
<1>1. MonitorInv => LogBehindQueue
  BY DEF MonitorInv
<1> QED
  BY <1>1, InvAlways, PTL

\* Once the daemon is idle, a file of the directory that is not queued as it is
\* by now is no newer than a file that was added: in the walk only the strict
\* comparison with the time added last leaves a file out (confirm_file_new),
\* for any times, so also for equal ones and for files moved in.
THEOREM OnlyOldSkipped == Spec => []SkippedIsNoNewer
<1>1. MonitorInv => SkippedIsNoNewer
  <2> SUFFICES ASSUME MonitorInv, Idle, ~overflow, ~garbage,
                      NEW f \in Files, dir[f] > 0
               PROVE  IsQueued(f) \/ \E added \in queued : added[3] >= dir[f]
    BY DEF SkippedIsNoNewer
  <2>1. CASE f \in reported
    BY <2>1 DEF MonitorInv, ReportedIsQueued, Idle, Contains
  <2>2. CASE f \notin reported
    BY <2>2 DEF MonitorInv, NewOnItsWay, WillBeFound, NoNewer, WalkFirst, Idle
  <2> QED
    BY <2>1, <2>2
<1> QED
  BY <1>1, InvAlways, PTL
=============================================================================
