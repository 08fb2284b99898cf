------------------------------- MODULE Monitor -------------------------------
(***************************************************************************)
(* A directory monitor (monitor.cpp, monitorop.cpp): every file that is    *)
(* written to the directory becomes a file task.  While the daemon runs it *)
(* learns of new files from inotify; what came while it was down it finds  *)
(* by a walk, in the order of readdir, for files newer than the time that  *)
(* it has noted in .last_added.                                            *)
(*                                                                         *)
(* Times of files tell them apart only as far as the clock ticks, and a    *)
(* file that is moved in brings its time along: a new version of a file    *)
(* may have any time.  Files are not removed.                              *)
(***************************************************************************)
EXTENDS Integers, Sequences, SequencesExt

CONSTANTS
    Files,        \* names that fit the pattern
    QueueLimit,   \* fs.inotify.max_queued_events
    MaxTime,      \* bound: times a file may have
    MaxWrites,    \* bound: files written or moved in
    MaxStarts     \* bound: starts of the daemon

ASSUME MonitorAssumption ==
    /\ QueueLimit \in Nat \ {0}
    /\ {MaxTime, MaxWrites, MaxStarts} \subseteq Nat

VARIABLES
    dir,       \* per file, its modification time; 0 if it does not exist
    version,   \* per file, which of all writes made it what it is
    writes,    \* files written or moved in so far
    watching,  \* the inotify watch exists
    events,    \* files reported by inotify and not yet handled
    log,       \* .last_added: a time, 0 if there is no such file, or Empty
    queued,    \* files added to the send queue, persistently: each with the
               \* version that was copied and the time that was noted before
    pc,        \* where the main thread is
    loop,      \* what add_file was called from, the walk or check
    last,      \* last_sec and last_nsec of the AddFileArg
    walk,      \* files that readdir has yet to return
    file,      \* the file of the current add_file
    starts,
    \* History: files whose present version was reported to this process;
    \* an event did not fit; last was read from an empty log.
    reported, overflow, garbage

world == <<dir, version, writes>>
kernel == <<watching, events, reported, overflow>>
disk == <<log, queued>>
vars == <<world, kernel, disk, pc, loop, last, walk, file, starts, garbage>>

Times == 0..MaxTime
Empty == -1
None == "none"
Points == {"DOWN", "WATCH", "OPENDIR", "WALK", "RUN", "ADD", "OPENLOG", "WRITELOG"}

Init ==
    /\ dir = [f \in Files |-> 0] /\ version = dir /\ writes = 0
    /\ watching = FALSE /\ events = <<>>
    /\ log = 0 /\ queued = {}
    /\ pc = "DOWN" /\ loop = "WALK" /\ last = 0 /\ walk = {} /\ file = None
    /\ starts = 0
    /\ reported = {} /\ overflow = FALSE /\ garbage = FALSE

Goto(from, to) == pc = from /\ pc' = to

-----------------------------------------------------------------------------
(* The kernel's side *)

\* inotify merges an event with an equal one at the end of its queue, and
\* reports an overflow by an event without a name, which check skips.
Report(f) ==
    /\ reported' = reported \cup {f}
    /\ IF events # <<>> /\ Last(events) = f THEN UNCHANGED <<events, overflow>>
       ELSE IF Len(events) < QueueLimit
       THEN events' = Append(events, f) /\ UNCHANGED overflow
       ELSE overflow' = TRUE /\ UNCHANGED events

Write(f) ==
    /\ writes < MaxWrites
    /\ writes' = writes + 1
    /\ version' = [version EXCEPT ![f] = writes']
    /\ \E time \in 1..MaxTime : dir' = [dir EXCEPT ![f] = time]
    /\ IF watching THEN Report(f) ELSE UNCHANGED <<events, reported, overflow>>
    /\ UNCHANGED <<watching, disk, pc, loop, last, file, starts, garbage>>
    \* A file that appears during the walk may or may not be returned by it.
    /\ \/ UNCHANGED walk
       \/ pc # "DOWN" /\ loop = "WALK" /\ walk # {} /\ dir[f] = 0 /\ walk' = walk \cup {f}

-----------------------------------------------------------------------------
(* init_monitors *)

\* Mutant of Start: the state of an empty log is taken for a time.
StartUnchecked ==
    /\ starts < MaxStarts
    /\ starts' = starts + 1
    /\ Goto("DOWN", "WATCH")
    /\ last' = log
    /\ garbage' = FALSE
    /\ loop' = "WALK"
    /\ UNCHANGED <<world, kernel, disk, walk, file>>
\* Without a log everything is new.  An empty one leaves last uninitialised.
Start ==
    /\ starts < MaxStarts
    /\ starts' = starts + 1
    /\ Goto("DOWN", "WATCH")
    /\ IF log = Empty THEN last' \in Times ELSE last' = log
    /\ garbage' = (log = Empty)
    /\ loop' = "WALK"
    /\ UNCHANGED <<world, kernel, disk, walk, file>>

\* Monitor::set
SetWatch ==
    /\ Goto("WATCH", "OPENDIR")
    /\ watching' = TRUE
    /\ UNCHANGED <<world, events, reported, overflow, disk, loop, last, walk, file, starts, garbage>>

OpenDir ==
    /\ Goto("OPENDIR", "WALK")
    /\ walk' = {f \in Files : dir[f] > 0}
    /\ UNCHANGED <<world, kernel, disk, loop, last, file, starts, garbage>>

\* add_file begins: it notes the time of the file.
BeginAdd(f) == file' = f /\ last' = dir[f] /\ pc' = "ADD"

\* Mutant of Confirm: only the seconds are compared, two times to a second.
ConfirmSeconds(f) ==
    /\ pc = "WALK" /\ f \in walk
    /\ walk' = walk \ {f}
    /\ IF last \div 2 < dir[f] \div 2 THEN BeginAdd(f) ELSE UNCHANGED <<pc, last, file>>
    /\ UNCHANGED <<world, kernel, disk, loop, starts, garbage>>
\* The next file of the walk is added if it is newer than the one added last.
Confirm(f) ==
    /\ pc = "WALK" /\ f \in walk
    /\ walk' = walk \ {f}
    /\ IF last < dir[f] THEN BeginAdd(f) ELSE UNCHANGED <<pc, last, file>>
    /\ UNCHANGED <<world, kernel, disk, loop, starts, garbage>>

EndWalk ==
    /\ walk = {}
    /\ Goto("WALK", "RUN")
    /\ loop' = "RUN"
    /\ UNCHANGED <<world, kernel, disk, last, walk, file, starts, garbage>>

-----------------------------------------------------------------------------
(* Monitor::check, and add_file *)

\* Mutant of Check: an event is compared with the last time, as in the walk.
CheckConfirmed ==
    /\ pc = "RUN" /\ events # <<>>
    /\ events' = Tail(events)
    /\ IF last + 1 < dir[Head(events)] THEN BeginAdd(Head(events)) ELSE UNCHANGED <<pc, last, file>>
    /\ UNCHANGED <<world, watching, reported, overflow, disk, loop, walk, starts, garbage>>
Check ==
    /\ pc = "RUN" /\ events # <<>>
    /\ events' = Tail(events)
    /\ BeginAdd(Head(events))
    /\ UNCHANGED <<world, watching, reported, overflow, disk, loop, walk, starts, garbage>>

\* Mutant of AddFileTask: the new task is kept in memory only.
AddFileTaskInMemory ==
    /\ Goto("ADD", "OPENLOG")
    /\ UNCHANGED <<world, kernel, disk, loop, last, walk, file, starts, garbage>>
\* add_file_task copies the file as it is by now.
AddFileTask ==
    /\ Goto("ADD", "OPENLOG")
    /\ queued' = queued \cup {<<file, version[file], last>>}
    /\ UNCHANGED <<world, kernel, log, loop, last, walk, file, starts, garbage>>

OpenLog ==
    /\ Goto("OPENLOG", "WRITELOG")
    /\ log' = Empty
    /\ UNCHANGED <<world, kernel, queued, loop, last, walk, file, starts, garbage>>

WriteLog ==
    /\ Goto("WRITELOG", loop)
    /\ log' = last
    /\ file' = None
    /\ UNCHANGED <<world, kernel, queued, loop, last, walk, starts, garbage>>

\* The daemon stops or crashes, at any point; inotify's queue goes with it.
Stop ==
    /\ pc # "DOWN" /\ pc' = "DOWN"
    /\ watching' = FALSE /\ events' = <<>> /\ reported' = {} /\ overflow' = FALSE
    /\ walk' = {} /\ file' = None
    /\ UNCHANGED <<world, disk, loop, last, starts, garbage>>

-----------------------------------------------------------------------------

Daemon ==
    \/ Start \/ SetWatch \/ OpenDir \/ EndWalk \/ Check
    \/ AddFileTask \/ OpenLog \/ WriteLog \/ Stop
    \/ \E f \in Files : Confirm(f)

Next == Daemon \/ \E f \in Files : Write(f)

Spec == Init /\ [][Next]_vars

-----------------------------------------------------------------------------
(* Properties *)

TypeOK ==
    /\ dir \in [Files -> Times] /\ version \in [Files -> 0..MaxWrites] /\ writes \in 0..MaxWrites
    /\ watching \in BOOLEAN /\ events \in Seq(Files)
    /\ log \in Times \cup {Empty}
    /\ queued \subseteq Files \X (0..MaxWrites) \X Times
    /\ pc \in Points /\ loop \in {"WALK", "RUN"}
    /\ last \in Times
    /\ walk \subseteq Files /\ file \in Files \cup {None}
    /\ starts \in 0..MaxStarts
    /\ reported \subseteq Files /\ {overflow, garbage} \subseteq BOOLEAN

IsQueued(f) == \E noted \in Times : <<f, version[f], noted>> \in queued
\* The daemon has done its walk and handled all events.
Idle == pc = "RUN" /\ events = <<>>

\* Whatever is reported while the daemon runs is queued in its last version,
\* however writes interleave with stat, copy and log, unless inotify's queue
\* overflows.
ReportedIsQueued ==
    ~overflow => \A f \in reported :
        IsQueued(f) \/ Contains(events, f) \/ (pc = "ADD" /\ file = f)

\* Across stops and crashes at any point, and whatever the times of files are,
\* a file is left out only if it is no newer than one that was added: what is
\* newer was reported, or the walk finds it newer than .last_added.
SkippedIsNoNewer ==
    Idle /\ ~overflow /\ ~garbage =>
        \A f \in Files : dir[f] > 0 =>
            IsQueued(f) \/ \E added \in queued : added[3] >= dir[f]

\* .last_added never runs ahead of the queue: the file whose time it gives is a
\* task on disk.
LogBehindQueue == log > 0 => \E added \in queued : added[3] = log

\* monitorop.cpp:108: of the files that are there, those not yet recorded are
\* added; once the daemon is idle, no file is left out.
NothingMissed ==
    Idle /\ ~overflow /\ ~garbage => \A f \in Files : dir[f] > 0 => IsQueued(f)
=============================================================================
