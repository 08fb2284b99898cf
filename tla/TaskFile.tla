------------------------------ MODULE TaskFile ------------------------------
(***************************************************************************)
(* A queue of tasks: a linked list in memory and the file it is written    *)
(* to (taskfile.cpp, and the operations of taskqueue.cpp on them).         *)
(*                                                                         *)
(* The list grows at its head.  Every change of a user task writes the     *)
(* whole list anew: open truncates the file, the records collect in the    *)
(* buffer of the FILE, which goes to the file whenever it is full and one  *)
(* more record follows, and when the file is closed.                       *)
(* Nothing locks the list or the file, and a daemon has two threads that   *)
(* use both: the one that transfers and monitors, and the one that serves  *)
(* the control port.  A step here is one access to what they share; a walk *)
(* along the list counts as one access until the buffer is full.  Memory   *)
(* that was freed is taken to hold what it held.                           *)
(***************************************************************************)
EXTENDS Naturals, Sequences

CONSTANTS
    Tasks,        \* task ids, by age; rand() is taken never to repeat one
    UserTasks,    \* those of type <= MESSAGE, the ones that are written
    Infos,        \* what may be in a TaskInfo: opaque to this module
    Threads,
    Deletes,      \* the user deletes tasks through the control port
    Capacity,     \* records the buffer of a FILE takes: 8 (4096 / sizeof(TaskInfo))
    MaxCrashes,   \* bound
    Nil

ASSUME TaskFileAssumption ==
    /\ Tasks \subseteq Nat /\ UserTasks \subseteq Tasks
    /\ Nil \notin Tasks
    /\ Threads # {}
    /\ Deletes \in BOOLEAN
    /\ MaxCrashes \in Nat
    /\ Capacity \in Nat \ {0}

VARIABLES
    head, next, info,  \* _rev_tasks: first node, successor and contents of a node
    disk,              \* the task file: records, as read_tasks would read them
    thread,            \* per thread: where it is, its node, and its FILE: the node
                       \* to go on from, the buffer and where that will be written
    added,             \* ids in use so far
    raced,             \* history: two operations have overlapped
    crashes

vars == <<head, next, info, disk, thread, added, raced, crashes>>

Nodes == Tasks \cup {Nil}
Writing == {"FIRST", "COLLECT", "FLUSH", "CLOSE"}
Points == {"IDLE", "PUBLISH", "STORE", "OPEN"} \cup Writing
Record == [id : UserTasks, info : Infos]
Hole == [id |-> Nil, info |-> Nil]    \* bytes of the file that nobody wrote: zeros
Idle == [pc |-> "IDLE", node |-> Nil, info |-> Nil, walk |-> Nil, buffer |-> <<>>, offset |-> 0]

\* The nodes from a node on, in the order of the list.
From[n \in Nodes] == IF n = Nil THEN <<>> ELSE <<n>> \o From[next[n]]
List == From[head]
OnList == {List[i] : i \in 1..Len(List)}

\* What the loop of write_tasks writes, from a node on.
RecordsFrom[n \in Nodes] ==
    IF n = Nil THEN <<>>
    ELSE (IF n \in UserTasks THEN <<[id |-> n, info |-> info[n]]>> ELSE <<>>) \o RecordsFrom[next[n]]

Records == RecordsFrom[head]

\* A file after a write at an offset.
Overwrite(file, at, records) ==
    [i \in 1..(IF at + Len(records) > Len(file) THEN at + Len(records) ELSE Len(file)) |->
        IF i \in (at + 1)..(at + Len(records)) THEN records[i - at]
        ELSE IF i <= Len(file) THEN file[i] ELSE Hole]

Init ==
    /\ head = Nil
    /\ next = [t \in Tasks |-> Nil]
    /\ info = [t \in Tasks |-> Nil]
    /\ disk = <<>>
    /\ thread = [th \in Threads |-> Idle]
    /\ added = {}
    /\ raced = FALSE
    /\ crashes = 0

\* An operation begins, maybe while another thread is in the middle of one.
Begin(th) ==
    /\ thread[th].pc = "IDLE"
    /\ raced' = (raced \/ \E other \in Threads : thread[other].pc # "IDLE")

\* A change of a user task is followed by write_tasks, one of a control task not.
WriteIf(th, t) ==
    thread' = [thread EXCEPT ![th] =
                IF t \in UserTasks THEN [Idle EXCEPT !.pc = "OPEN", !.node = t] ELSE Idle]

-----------------------------------------------------------------------------
(* write_tasks *)

Open(th) ==
    /\ thread[th].pc = "OPEN"
    /\ disk' = <<>>
    /\ thread' = [thread EXCEPT ![th] = [Idle EXCEPT !.pc = "FIRST"]]
    /\ UNCHANGED <<head, next, info, added, raced, crashes>>

\* The loop, up to the fwrite that finds the buffer full or to the end.
Gather(th, records) ==
    thread' = [thread EXCEPT ![th] = [thread[th] EXCEPT
        !.pc = IF Len(records) > Capacity THEN "FLUSH" ELSE "CLOSE",
        !.walk = IF Len(records) > Capacity THEN records[Capacity + 1].id ELSE Nil,
        !.buffer = IF Len(records) > Capacity THEN SubSeq(records, 1, Capacity) ELSE records]]

\* Mutant of Collect: control tasks are written too.
CollectAll(th) ==
    /\ thread[th].pc \in {"FIRST", "COLLECT"}
    /\ LET nodes == From[IF thread[th].pc = "FIRST" THEN head ELSE thread[th].walk]
       IN  Gather(th, [i \in 1..Len(nodes) |-> [id |-> nodes[i], info |-> info[nodes[i]]]])
    /\ UNCHANGED <<head, next, info, disk, added, raced, crashes>>
Collect(th) ==
    /\ thread[th].pc \in {"FIRST", "COLLECT"}
    /\ Gather(th, RecordsFrom[IF thread[th].pc = "FIRST" THEN head ELSE thread[th].walk])
    /\ UNCHANGED <<head, next, info, disk, added, raced, crashes>>

\* What the other thread has put into the file meanwhile is overwritten, as far
\* as the buffer reaches; where it has truncated it, zeros stay in front.
\* Mutant of Flush: each buffer goes to the start of the file.
FlushToStart(th) ==
    /\ thread[th].pc = "FLUSH"
    /\ disk' = Overwrite(disk, 0, thread[th].buffer)
    /\ thread' = [thread EXCEPT ![th].pc = "COLLECT", ![th].buffer = <<>>]
    /\ UNCHANGED <<head, next, info, added, raced, crashes>>
Flush(th) ==
    /\ thread[th].pc = "FLUSH"
    /\ disk' = Overwrite(disk, thread[th].offset, thread[th].buffer)
    /\ thread' = [thread EXCEPT ![th] = [thread[th] EXCEPT
            !.pc = "COLLECT", !.buffer = <<>>, !.offset = thread[th].offset + Capacity]]
    /\ UNCHANGED <<head, next, info, added, raced, crashes>>

Close(th) ==
    /\ thread[th].pc = "CLOSE"
    /\ disk' = IF thread[th].buffer = <<>> THEN disk
               ELSE Overwrite(disk, thread[th].offset, thread[th].buffer)
    /\ thread' = [thread EXCEPT ![th] = Idle]
    /\ UNCHANGED <<head, next, info, added, raced, crashes>>

-----------------------------------------------------------------------------
(* add_task, update_task, del_task, del_all_tasks *)

\* The new node points to the head, then the head to it.
AddTask(th, t, i) ==
    /\ Begin(th)
    /\ t \notin added /\ \A u \in Tasks : u < t => u \in added
    /\ added' = added \cup {t}
    /\ next' = [next EXCEPT ![t] = head]
    /\ info' = [info EXCEPT ![t] = i]
    /\ thread' = [thread EXCEPT ![th] = [Idle EXCEPT !.pc = "PUBLISH", !.node = t]]
    /\ UNCHANGED <<head, disk, crashes>>

Publish(th) ==
    /\ thread[th].pc = "PUBLISH"
    /\ head' = thread[th].node
    /\ WriteIf(th, thread[th].node)
    /\ UNCHANGED <<next, info, disk, added, raced, crashes>>

\* get_task finds the node; a task that is not on the list is ignored.
UpdateTask(th, t, i) ==
    /\ Begin(th)
    /\ t \in OnList
    /\ thread' = [thread EXCEPT ![th] = [Idle EXCEPT !.pc = "STORE", !.node = t, !.info = i]]
    /\ UNCHANGED <<head, next, info, disk, added, crashes>>

\* Mutant of Store: a change is not written.
StoreInMemory(th) ==
    /\ thread[th].pc = "STORE"
    /\ info' = [info EXCEPT ![thread[th].node] = thread[th].info]
    /\ thread' = [thread EXCEPT ![th] = Idle]
    /\ UNCHANGED <<head, next, disk, added, raced, crashes>>
Store(th) ==
    /\ thread[th].pc = "STORE"
    /\ info' = [info EXCEPT ![thread[th].node] = thread[th].info]
    /\ WriteIf(th, thread[th].node)
    /\ UNCHANGED <<head, next, disk, added, raced, crashes>>

DeleteHead(th) ==
    /\ Deletes /\ Begin(th)
    /\ head \in UserTasks
    /\ head' = next[head]
    /\ WriteIf(th, head)
    /\ UNCHANGED <<next, info, disk, added, crashes>>

\* The search goes on behind the node it has unlinked and ends with NULL: the
\* file is not written, the node not deleted.
DeleteInside(th, t) ==
    /\ Deletes /\ Begin(th)
    /\ t \in UserTasks \cap OnList /\ t # head
    /\ LET parent == CHOOSE n \in OnList : next[n] = t
       IN  next' = [next EXCEPT ![parent] = next[t]]
    /\ UNCHANGED <<head, info, disk, thread, added, crashes>>

DeleteAll(th) ==
    /\ Deletes /\ Begin(th)
    /\ head' = Nil
    /\ thread' = [thread EXCEPT ![th] = [Idle EXCEPT !.pc = "OPEN"]]
    /\ UNCHANGED <<next, info, disk, added, crashes>>

-----------------------------------------------------------------------------
(* A crash, and init with its read_tasks: records are appended in the order *)
(* of the file.                                                             *)

\* Mutant of ReadTasks: every record becomes the head.
ReadTasksReversed ==
    /\ head' = IF disk = <<>> THEN Nil ELSE disk[Len(disk)].id
    /\ next' = [t \in Tasks |->
            IF \E i \in 2..Len(disk) : disk[i].id = t
            THEN disk[(CHOOSE i \in 2..Len(disk) : disk[i].id = t) - 1].id ELSE Nil]
    /\ info' = [t \in Tasks |->
            IF \E i \in 1..Len(disk) : disk[i].id = t
            THEN disk[CHOOSE i \in 1..Len(disk) : disk[i].id = t].info ELSE Nil]
ReadTasks ==
    /\ head' = IF disk = <<>> THEN Nil ELSE disk[1].id
    /\ next' = [t \in Tasks |->
            IF \E i \in 1..Len(disk) - 1 : disk[i].id = t
            THEN disk[(CHOOSE i \in 1..Len(disk) - 1 : disk[i].id = t) + 1].id ELSE Nil]
    /\ info' = [t \in Tasks |->
            IF \E i \in 1..Len(disk) : disk[i].id = t
            THEN disk[CHOOSE i \in 1..Len(disk) : disk[i].id = t].info ELSE Nil]

\* After a race a task may be in the file twice; a list read from such a file
\* has two nodes of one id, and nodes are named by their ids here.
Crash ==
    /\ ~raced
    /\ crashes < MaxCrashes
    /\ crashes' = crashes + 1
    /\ ReadTasks
    /\ thread' = [th \in Threads |-> Idle]
    /\ UNCHANGED <<disk, added, raced>>

-----------------------------------------------------------------------------

Write(th) == Open(th) \/ Collect(th) \/ Flush(th) \/ Close(th)
Add(th) == Publish(th) \/ \E t \in Tasks, i \in Infos : AddTask(th, t, i)
Update(th) == Store(th) \/ \E t \in Tasks, i \in Infos : UpdateTask(th, t, i)
Delete(th) == DeleteHead(th) \/ DeleteAll(th) \/ \E t \in Tasks : DeleteInside(th, t)

Next == Crash \/ \E th \in Threads : Write(th) \/ Add(th) \/ Update(th) \/ Delete(th)

Spec == Init /\ [][Next]_vars

-----------------------------------------------------------------------------
(* Properties *)

\* Every variable has its type: only user tasks are ever written.
TypeOK ==
    /\ head \in Nodes
    /\ next \in [Tasks -> Nodes]
    /\ info \in [Tasks -> Infos \cup {Nil}]
    /\ disk \in Seq(Record \cup {Hole})
    /\ thread \in [Threads -> [pc : Points, node : Nodes, info : Infos \cup {Nil},
                               walk : Nodes, buffer : Seq(Record), offset : Nat]]
    /\ added \subseteq Tasks
    /\ raced \in BOOLEAN
    /\ crashes \in 0..MaxCrashes

Quiet == \A th \in Threads : thread[th].pc = "IDLE"

Before(t, u) == \E i, j \in 1..Len(List) : i < j /\ List[i] = t /\ List[j] = u

\* Between operations, and as long as no two have overlapped, a restart would
\* read every user task of the list, each as it is in memory, and in the order of
\* the list; also after a restart.
ListOnDisk == ~raced /\ Quiet =>
    /\ \A t \in OnList \cap UserTasks : \E i \in 1..Len(disk) : disk[i].id = t
    /\ \A i \in 1..Len(disk) : disk[i].id \in OnList => disk[i].info = info[disk[i].id]
    /\ \A i, j \in 1..Len(disk) :
          i < j /\ disk[i].id \in OnList /\ disk[j].id \in OnList => Before(disk[i].id, disk[j].id)

\* As long as no two operations have overlapped, a crash in the middle of one
\* finds every user task but the one it is about, or, from the truncation to the
\* close, the newest ones: what is lost then is the end of the list.
OnlyTheEndIsLost == ~raced =>
    \A t \in OnList \cap UserTasks :
        \/ \E i \in 1..Len(disk) : disk[i] = [id |-> t, info |-> info[t]]
        \/ \E th \in Threads : thread[th].node = t
        \/ /\ \E th \in Threads : thread[th].pc \in Writing
           /\ \A i \in 1..Len(disk) : Before(disk[i].id, t)

\* The list is ordered by age, newest first, whatever the threads do, and after
\* crashes as long as no two operations have overlapped: among tasks of one
\* priority next_task takes the last it sees, so the oldest goes first.
NewestFirst == \A i \in 1..Len(List) - 1 : List[i] > List[i + 1]

\* taskfile.h:73, taskqueue.h:27: the list and the task file are kept in sync.
Synced == Quiet => disk = Records
=============================================================================
