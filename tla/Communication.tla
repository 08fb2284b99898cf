---------------------------- MODULE Communication ----------------------------
(***************************************************************************)
(* The transfer protocol of nbftp: a server and a client, each with a      *)
(* queue of tasks to send and a queue of tasks received, alternate over    *)
(* one TCP connection (communication.cpp, taskop.cpp, taskqueue.cpp and    *)
(* the session loops of nbftp_server.cpp).                                 *)
(*                                                                         *)
(* A session: the server sends while the client receives, until the server *)
(* has nothing left and sends COMPLETE_SIG; then they swap; then both      *)
(* close.  A user task (file, part of a file, message) is answered by the  *)
(* receiver with ONE task of its own send queue, the best one: usually the *)
(* control task it has just queued for the purpose, but an older control   *)
(* task that an earlier session failed to send comes first.                *)
(*                                                                         *)
(* User tasks and the files they stand for are persistent; control tasks   *)
(* live in memory and are lost with the process.                           *)
(***************************************************************************)
EXTENDS Integers, Sequences, FiniteSets

CONSTANTS
    Server, Client,       \* the two peers
    Tasks,                \* user tasks, numbered in the order they are added
    Owner,                \* the peer that adds and sends the task
    Kind,                 \* SMALL_FILE, LARGE_FILE or MESSAGE
    FileSize,             \* bytes of the file
    Priority,             \* priority the user gave the task
    MaxErrorCount,        \* [TASK] MaxErrorCount
    AutoBlockSize,        \* [TASK] AutoBlockSize = 1
    FixedBlockSize, MinBlockSize, MaxBlockSize,
    BackoffPossible,      \* a task's uninitialised error_time may lie ahead
    UserDeletes,          \* the user deletes tasks through the control port
    MaxPriority,          \* bound: degradation of the priority stops here
    MaxFaults             \* bound: crashes, cuts, timeouts and lost files

Peers == {Server, Client}

UserTypes == {"SMALL_FILE", "LARGE_FILE", "MESSAGE"}
ControlTypes == {"LASTPOS", "COMPLETE_SIG", "CHECK_PASS", "CHECK_FAILED", "REPLY"}
DataTypes == {"SMALL_FILE", "LARGE_FILE_BEGIN", "LARGE_FILE_PART", "MESSAGE"}
\* CHECK_PASS, CHECK_FAILED, REPLY and LASTPOS answer a task and name it.
AnswerTypes == ControlTypes \ {"COMPLETE_SIG"}

ASSUME PeersAssumption == Server # Client
ASSUME TasksAssumption ==
    /\ Tasks \subseteq Nat \ {0}
    /\ Owner \in [Tasks -> Peers]
    /\ Kind \in [Tasks -> UserTypes]
    /\ FileSize \in [Tasks -> Nat]
    /\ \A t \in Tasks : Kind[t] = "LARGE_FILE" => FileSize[t] > 0
    /\ Priority \in [Tasks -> Int]
ASSUME ConfigAssumption ==
    /\ MaxErrorCount \in Nat
    /\ MaxPriority \in Int
    /\ {FixedBlockSize, MinBlockSize, MaxBlockSize} \subseteq Nat \ {0}
    /\ {AutoBlockSize, BackoffPossible, UserDeletes} \subseteq BOOLEAN
    /\ MaxFaults \in Nat

VARIABLES
    send_queue,   \* per user task, its entry in its owner's send queue
    recv_queue,   \* per user task, its entry in the other peer's receive queue
    send_left,    \* per user task gone from its send queue, the status that
                  \* the file of the queue still gives it: NONE if none
    recv_left,    \* the same of the receive queue
    reply_queue,  \* per peer, the control tasks of its send queue, oldest first
    store,        \* per user task, the receiver's copy: good bytes, or Corrupt
    delivered,    \* user tasks whose content was handed to call_extension
    chan,         \* per peer, messages in flight to it
    up,           \* FALSE once the network has cut the current connection
    pc, loop,     \* per peer, the point it is at; the loop it is in
    sending,      \* per peer, the copy of the user task that awaits an answer
    received,     \* per peer, the task unpacked and not yet processed
    faults        \* faults so far

vars == <<send_queue, recv_queue, send_left, recv_left, reply_queue, store,
          delivered, chan, up, pc, loop, sending, received, faults>>
\* What only the network and the process control change is named apart.
queues == <<send_queue, recv_queue, send_left, recv_left, reply_queue>>
files  == <<store, delivered>>

-----------------------------------------------------------------------------
(* Task entries *)

\* NONE: not (or no longer) in a queue; DELETED: was, and the user removed it.
SendStatus == {"NONE", "DELETED", "INITIAL", "PENDING", "STARTED", "TRANSING",
               "ERROR", "FAULT", "CHECKED", "COMPLETED"}
RecvStatus == {"NONE", "PENDING", "STARTED", "TRANSING", "CHECKED",
               "COMPLETED", "INCONSIST"}
Absent == {"NONE", "DELETED"}

Corrupt == -1

\* -1: not begun; task_failure sets block_size to -1, task_success adds it.
Position == Nat \cup {-1}

SendTask == [status : SendStatus, priority : Int,
             error_count : -1..MaxErrorCount + 1,
             current_position : Position, block_size : (Nat \ {0}) \cup {-1}]
RecvTask == [status : RecvStatus, current_position : Position]
\* Every task names a user task, but for COMPLETE_SIG.
NamesTask(x) == x.id = 0 <=> x.type = "COMPLETE_SIG"

Message  == {m \in [type : DataTypes \cup ControlTypes, id : Tasks \cup {0},
                    pos : Position, len : Int] :
             NamesTask(m) /\ m.pos + m.len \in Position}
Control  == {c \in [type : ControlTypes, id : Tasks \cup {0}, pos : Position,
                    error_count : Nat, older : SUBSET Tasks] : NamesTask(c)}
Received == {r \in [type : UserTypes \cup ControlTypes, id : Tasks \cup {0},
                    status : RecvStatus, pos : Position] : NamesTask(r)}

\* The points of the session loops, send_task and receive_task.
Points == {"IDLE", "SEND", "RECV", "AWAIT", "PROCESS", "REPLY", "CLOSE"}

\* Mutant of NewTask: as if a large file needed no LARGE_FILE_BEGIN.
NewTaskBegun(t, status) ==
    [status |-> status, priority |-> Priority[t], error_count |-> 0,
     current_position |-> 0, block_size |-> -1]
NewTask(t, status) ==
    [status |-> status, priority |-> Priority[t], error_count |-> 0,
     current_position |-> -1, block_size |-> -1]
NoTask == [id |-> 0, nested |-> FALSE,
           task |-> [status |-> "NONE", priority |-> 0, error_count |-> 0,
                     current_position |-> -1, block_size |-> -1]]
Nothing == [type |-> "COMPLETE_SIG", id |-> 0, status |-> "NONE", pos |-> 0]

Other(p) == IF p = Server THEN Client ELSE Server
Lesser(a, b) == IF a < b THEN a ELSE b

\* Mutant of UpdateSend: send_task does not store the task it has packed.
UpdateSendLost(t, task) ==
    IF send_queue[t].status \in Absent \/ task.status = "TRANSING" THEN send_queue
    ELSE [send_queue EXCEPT ![t] = task]
\* Mutant of UpdateSend: the copy that is written back revives the task.
UpdateSendRevives(t, task) == [send_queue EXCEPT ![t] = task]
\* TaskQueue::update_task ignores a task that is no longer there.
UpdateSend(t, task) ==
    IF send_queue[t].status \in Absent THEN send_queue
    ELSE [send_queue EXCEPT ![t] = task]
UpdateRecv(t, status, pos) ==
    IF recv_queue[t].status = "NONE" THEN recv_queue
    ELSE [recv_queue EXCEPT ![t] = [status |-> status, current_position |-> pos]]

\* write_tasks: what p's queue has lost, the queue's file has lost too.
WriteSend(p) == send_left' = [t \in Tasks |-> IF Owner[t] = p THEN "NONE" ELSE send_left[t]]
WriteRecv(p) == recv_left' = [t \in Tasks |-> IF Owner[t] # p THEN "NONE" ELSE recv_left[t]]
\* read_tasks: a task that the file still holds is back.
SendRead(p) ==
    [t \in Tasks |-> IF Owner[t] = p /\ send_left[t] # "NONE"
                      THEN [send_queue[t] EXCEPT !.status = send_left[t]]
                      ELSE send_queue[t]]
RecvRead(p) ==
    [t \in Tasks |-> IF Owner[t] # p /\ recv_left[t] # "NONE"
                      THEN [recv_queue[t] EXCEPT !.status = recv_left[t]]
                      ELSE recv_queue[t]]

\* Mutant of Success: the answer to LARGE_FILE_BEGIN is not told apart.
SuccessNotBegun(t, task) ==
    LET pos == IF task.current_position < FileSize[t]
               THEN task.current_position + task.block_size ELSE task.current_position
    IN  [task EXCEPT !.current_position = pos,
                     !.status = IF pos < FileSize[t] THEN "STARTED" ELSE "COMPLETED"]
Success(t, task) ==
    LET pos == IF task.current_position < 0 THEN 0
               ELSE IF task.current_position < FileSize[t]
                    THEN task.current_position + task.block_size
                    ELSE task.current_position
    IN  IF Kind[t] # "LARGE_FILE" THEN [task EXCEPT !.status = "COMPLETED"]
        ELSE [task EXCEPT !.current_position = pos,
                          !.status = IF task.current_position < 0 \/ pos < FileSize[t]
                                     THEN "STARTED" ELSE "COMPLETED"]

\* error_count is only compared with 0 and MaxErrorCount: it stays one above.
Failure(task) ==
    LET errors   == task.error_count + 1
        degraded == errors > MaxErrorCount /\ task.priority > 3
    IN  [task EXCEPT !.status = "ERROR", !.block_size = -1,
             !.error_count = IF degraded THEN 0 ELSE Lesser(errors, MaxErrorCount + 1),
             !.priority = IF degraded THEN Lesser(@ + 1, MaxPriority) ELSE @]

UpdateBlockSize(size) ==
    IF ~AutoBlockSize THEN FixedBlockSize
    ELSE IF size <= 0 THEN MinBlockSize ELSE Lesser(2 * size, MaxBlockSize)

IsPart(t, task) == Kind[t] = "LARGE_FILE" /\ task.current_position >= 0

\* pack_data: what becomes of the task, and what goes on the wire.
Packed(t, task) ==
    [task EXCEPT !.status = "TRANSING",
                 !.block_size = IF IsPart(t, task) THEN UpdateBlockSize(@) ELSE @]
\* Mutant of PackedMessage: the last part is as long as any other.
PackedMessageWhole(t, task) ==
    [type |-> IF IsPart(t, task) THEN "LARGE_FILE_PART"
              ELSE IF Kind[t] = "LARGE_FILE" THEN "LARGE_FILE_BEGIN" ELSE Kind[t],
     id |-> t, pos |-> IF IsPart(t, task) THEN task.current_position ELSE 0,
     len |-> IF IsPart(t, task) THEN task.block_size ELSE 0]
PackedMessage(t, task) ==
    IF IsPart(t, task)
    THEN [type |-> "LARGE_FILE_PART", id |-> t, pos |-> task.current_position,
          len |-> Lesser(task.block_size, FileSize[t] - task.current_position)]
    ELSE [type |-> IF Kind[t] = "LARGE_FILE" THEN "LARGE_FILE_BEGIN" ELSE Kind[t],
          id |-> t, pos |-> 0, len |-> 0]
ReplyMessage(r) == [type |-> r.type, id |-> r.id, pos |-> r.pos, len |-> 0]

\* A control task has priority 1: of the user tasks it can tie with, it
\* remembers which were queued before it.
NewControl(p, type, id, pos) ==
    [type |-> type, id |-> id, pos |-> pos, error_count |-> 0,
     older |-> {t \in Tasks : Owner[t] = p /\ send_queue[t].status \notin Absent}]
\* Mutant of AddReply: every checked file is acknowledged.
AddReplyUnchecked(p, type, id, pos) ==
    reply_queue' = [reply_queue EXCEPT ![p] = Append(@,
        NewControl(p, IF type = "CHECK_FAILED" THEN "CHECK_PASS" ELSE type, id, pos))]
AddReply(p, type, id, pos) ==
    reply_queue' = [reply_queue EXCEPT ![p] = Append(@, NewControl(p, type, id, pos))]

-----------------------------------------------------------------------------
(* TaskQueue::next_task and get_pending_task *)

\* Mutant of Candidates: a task that failed once is not tried again.
CandidatesOnce(p) ==
    {t \in Tasks : /\ Owner[t] = p
                   /\ send_queue[t].status \in {"PENDING", "STARTED", "TRANSING"}}
Candidates(p) ==
    {t \in Tasks : /\ Owner[t] = p
                   /\ send_queue[t].status \in {"PENDING", "STARTED", "TRANSING", "ERROR"}}

\* error_time is never assigned: whether a task that failed is due again
\* depends on what the memory held.
MayBeSkipped(task) == BackoffPossible /\ task.error_count > 0

TaskPrecedes(t, u) ==
    \/ send_queue[t].priority < send_queue[u].priority
    \/ send_queue[t].priority = send_queue[u].priority /\ t < u
\* Mutant of ReplyPrecedes: control tasks come after the user's.
ReplyPrecedesLate(r, t) == send_queue[t].priority > 5
ReplyPrecedes(r, t) ==
    \/ send_queue[t].priority > 1
    \/ send_queue[t].priority = 1 /\ t \notin r.older

PicksTask(p, replies, t) ==
    /\ t \in Candidates(p)
    /\ \A u \in Candidates(p) : TaskPrecedes(u, t) => MayBeSkipped(send_queue[u])
    /\ \A i \in 1..Len(replies) : ReplyPrecedes(replies[i], t) => MayBeSkipped(replies[i])
PicksReply(p, replies, i) ==
    /\ \A j \in 1..i - 1 : MayBeSkipped(replies[j])
    /\ \A u \in Candidates(p) : ~ReplyPrecedes(replies[i], u) => MayBeSkipped(send_queue[u])

\* The control tasks next_task chooses from: with a COMPLETE_SIG at the end
\* if a first look found nothing to send.
PendingReplies(p) ==
    {reply_queue[p]} \cup
    IF /\ \A t \in Candidates(p) : MayBeSkipped(send_queue[t])
       /\ \A i \in 1..Len(reply_queue[p]) : MayBeSkipped(reply_queue[p][i])
    THEN {Append(reply_queue[p], NewControl(p, "COMPLETE_SIG", 0, 0))}
    ELSE {}

\* Mutant of Without: a control task stays in the queue once sent.
WithoutNothing(seq, i) == seq
Without(seq, i) == SubSeq(seq, 1, i - 1) \o SubSeq(seq, i + 1, Len(seq))

-----------------------------------------------------------------------------
(* The connection *)

\* The other end of p's connection still exists and can be reached.
Open(p) == up /\ pc[Other(p)] # "IDLE"

Transmit(p, m) ==
    chan' = IF Open(p) THEN [chan EXCEPT ![Other(p)] = Append(@, m)] ELSE chan

\* What TCP may drop of the messages still in flight: a suffix of them.
CutShort(seq) == {SubSeq(seq, 1, n) : n \in 0..Len(seq)}

Init ==
    /\ send_queue = [t \in Tasks |-> NewTask(t, "NONE")]
    /\ recv_queue = [t \in Tasks |-> [status |-> "NONE", current_position |-> -1]]
    /\ send_left = [t \in Tasks |-> "NONE"]
    /\ recv_left = [t \in Tasks |-> "NONE"]
    /\ reply_queue = [p \in Peers |-> <<>>]
    /\ store = [t \in Tasks |-> 0]
    /\ delivered = {}
    /\ chan = [p \in Peers |-> <<>>]
    /\ up = FALSE
    /\ pc = [p \in Peers |-> "IDLE"]
    /\ loop = [p \in Peers |-> "RECV"]
    /\ sending = [p \in Peers |-> NoTask]
    /\ received = [p \in Peers |-> Nothing]
    /\ faults = 0

\* The client connects and the server accepts: the server sends first.
Connect ==
    /\ \A p \in Peers : pc[p] = "IDLE"
    /\ up' = TRUE
    /\ chan' = [p \in Peers |-> <<>>]
    /\ loop' = [p \in Peers |-> IF p = Server THEN "SEND" ELSE "RECV"]
    /\ pc' = loop'
    /\ UNCHANGED <<queues, files, sending, received, faults>>

\* Closing with unread data resets the connection, which may take away what
\* the other end has not read yet.
Disconnect(p) ==
    \E rest \in IF chan[p] = <<>> THEN {chan[Other(p)]} ELSE CutShort(chan[Other(p)]) :
        chan' = [chan EXCEPT ![p] = <<>>, ![Other(p)] = rest]

CloseConn(p) ==
    /\ pc[p] = "CLOSE"
    /\ Disconnect(p)
    /\ pc' = [pc EXCEPT ![p] = "IDLE"]
    /\ UNCHANGED <<queues, files, up, loop, sending, received, faults>>

-----------------------------------------------------------------------------
(* send_task *)

\* An error ends the session in the outer loop; below it, in receive_task,
\* the result of send_task is ignored.
AfterSendError(p) ==
    /\ pc' = [pc EXCEPT ![p] = IF pc[p] = "SEND" THEN "CLOSE" ELSE loop[p]]
    /\ sending' = [sending EXCEPT ![p] = NoTask]

\* Mutant of AfterReplySent: the server goes on after its COMPLETE_SIG.
AfterReplySentAgain(p, type) ==
    /\ sending' = [sending EXCEPT ![p] = NoTask]
    /\ pc' = [pc EXCEPT ![p] = loop[p]]
    /\ UNCHANGED loop
\* Having sent COMPLETE_SIG the server starts to receive, the client is done.
AfterReplySent(p, type) ==
    /\ sending' = [sending EXCEPT ![p] = NoTask]
    /\ IF pc[p] = "SEND" /\ type = "COMPLETE_SIG"
       THEN IF p = Server
            THEN /\ loop' = [loop EXCEPT ![p] = "RECV"]
                 /\ pc' = [pc EXCEPT ![p] = "RECV"]
            ELSE /\ pc' = [pc EXCEPT ![p] = "CLOSE"]
                 /\ UNCHANGED loop
       ELSE /\ pc' = [pc EXCEPT ![p] = loop[p]]
            /\ UNCHANGED loop

\* A control task needs no reply: once written to the socket it is COMPLETED.
SendReply(p) ==
    /\ pc[p] \in {"SEND", "REPLY"}
    /\ \E replies \in PendingReplies(p) : \E i \in 1..Len(replies) :
        /\ PicksReply(p, replies, i)
        /\ reply_queue' = [reply_queue EXCEPT ![p] = Without(replies, i)]
        /\ Transmit(p, ReplyMessage(replies[i]))
        /\ AfterReplySent(p, replies[i].type)
    /\ UNCHANGED <<send_queue, recv_queue, send_left, recv_left, files, up, received, faults>>

SendReplyFails(p) ==
    /\ pc[p] \in {"SEND", "REPLY"} /\ ~Open(p)
    /\ \E replies \in PendingReplies(p) : \E i \in 1..Len(replies) :
        /\ PicksReply(p, replies, i)
        /\ reply_queue' = [reply_queue EXCEPT ![p] = [replies EXCEPT ![i].error_count =
                                Lesser(@ + 1, MaxErrorCount + 1)]]
    /\ AfterSendError(p)
    /\ UNCHANGED <<send_queue, recv_queue, send_left, recv_left, files, chan, up, loop,
                   received, faults>>

SendUserTask(p, t) ==
    /\ pc[p] \in {"SEND", "REPLY"}
    /\ \E replies \in PendingReplies(p) :
        /\ PicksTask(p, replies, t)
        /\ reply_queue' = [reply_queue EXCEPT ![p] = replies]
    /\ LET task == Packed(t, send_queue[t]) IN
        /\ send_queue' = UpdateSend(t, task)
        /\ WriteSend(p)
        /\ Transmit(p, PackedMessage(t, task))
        /\ sending' = [sending EXCEPT ![p] =
                            [id |-> t, nested |-> pc[p] = "REPLY", task |-> task]]
    /\ pc' = [pc EXCEPT ![p] = "AWAIT"]
    /\ UNCHANGED <<recv_queue, recv_left, files, up, loop, received, faults>>

SendUserTaskFails(p, t) ==
    /\ pc[p] \in {"SEND", "REPLY"} /\ ~Open(p)
    /\ \E replies \in PendingReplies(p) :
        /\ PicksTask(p, replies, t)
        /\ reply_queue' = [reply_queue EXCEPT ![p] = replies]
    /\ send_queue' = UpdateSend(t, Failure(Packed(t, send_queue[t])))
    /\ WriteSend(p)
    /\ AfterSendError(p)
    /\ UNCHANGED <<recv_queue, recv_left, files, chan, up, loop, received, faults>>

\* The cached file is gone: pack_data returns NULL and the task is FAULT.
PackFails(p, t) ==
    /\ pc[p] \in {"SEND", "REPLY"} /\ faults < MaxFaults
    /\ Kind[t] = "SMALL_FILE" \/ IsPart(t, send_queue[t])
    /\ \E replies \in PendingReplies(p) :
        /\ PicksTask(p, replies, t)
        /\ reply_queue' = [reply_queue EXCEPT ![p] = replies]
    /\ send_queue' = UpdateSend(t, [Packed(t, send_queue[t]) EXCEPT
                                        !.status = "FAULT", !.error_count = -1])
    /\ WriteSend(p)
    /\ AfterSendError(p)
    /\ faults' = faults + 1
    /\ UNCHANGED <<recv_queue, recv_left, files, chan, up, loop, received>>

-----------------------------------------------------------------------------
(* receive_task: wait for a message, unpack it *)

Waiting(p) == pc[p] \in {"RECV", "AWAIT"}

\* No answer: the task that waited for it has failed.  The copy made before
\* the wait overwrites the entry of the queue.
NoAnswer(p) ==
    /\ send_queue' = IF sending[p].id # 0
                     THEN UpdateSend(sending[p].id, Failure(sending[p].task))
                     ELSE send_queue
    /\ IF sending[p].id # 0 /\ send_queue[sending[p].id].status \notin Absent
       THEN WriteSend(p) ELSE UNCHANGED send_left
    /\ pc' = [pc EXCEPT ![p] = IF sending[p].nested THEN loop[p] ELSE "CLOSE"]
    /\ sending' = [sending EXCEPT ![p] = NoTask]

\* End of file, or a wait that nobody will end: it times out.
ReceiveFails(p) ==
    /\ Waiting(p) /\ chan[p] = <<>>
    /\ ~Open(p) \/ (Waiting(Other(p)) /\ chan[Other(p)] = <<>>)
    /\ NoAnswer(p)
    /\ UNCHANGED <<recv_queue, recv_left, reply_queue, files, chan, up, loop, received, faults>>

\* The timeout expires although the other peer is about to answer.
ReceiveTimesOut(p) ==
    /\ Waiting(p) /\ faults < MaxFaults
    /\ NoAnswer(p)
    /\ faults' = faults + 1
    /\ UNCHANGED <<recv_queue, recv_left, reply_queue, files, chan, up, loop, received>>

\* What unpack_data makes of a message: the entry of the receive queue, ...
Unpacked(m) ==
    LET entry == recv_queue[m.id] IN
    CASE m.type = "SMALL_FILE" ->
            [status |-> "COMPLETED", current_position |-> FileSize[m.id]]
      [] m.type = "MESSAGE" -> [status |-> "COMPLETED", current_position |-> 0]
      [] m.type = "LARGE_FILE_BEGIN" -> [status |-> "STARTED", current_position |-> 0]
      [] m.type = "LARGE_FILE_PART" ->
            IF m.pos # entry.current_position THEN [entry EXCEPT !.status = "INCONSIST"]
            ELSE [status |-> IF m.pos + m.len >= FileSize[m.id] THEN "COMPLETED" ELSE "TRANSING",
                  current_position |-> m.pos + m.len]

\* ... and the copy of the file with the first len bytes of the message: a
\* part is appended to what the file holds, the part at 0 starts it anew.
Written(m, len) ==
    CASE m.type = "SMALL_FILE" -> FileSize[m.id]
      [] m.type = "LARGE_FILE_PART" /\ m.pos = recv_queue[m.id].current_position ->
            IF m.pos = 0 THEN len
            ELSE IF len = 0 THEN store[m.id]
            ELSE IF store[m.id] = m.pos THEN m.pos + len ELSE Corrupt
      [] OTHER -> store[m.id]

UserType(m) == IF m.type \in {"LARGE_FILE_BEGIN", "LARGE_FILE_PART"}
               THEN "LARGE_FILE" ELSE m.type

\* unpack_large_file_part finds no task: unpack_data dereferences its NULL.
PartNamesNothing(p) ==
    /\ Waiting(p) /\ chan[p] # <<>>
    /\ Head(chan[p]).type = "LARGE_FILE_PART"
    /\ recv_queue[Head(chan[p]).id].status = "NONE"

Receive(p) ==
    /\ Waiting(p) /\ chan[p] # <<>> /\ ~PartNamesNothing(p)
    /\ LET m == Head(chan[p]) IN
        IF m.type \in ControlTypes
        THEN /\ received' = [received EXCEPT ![p] =
                    [type |-> m.type, id |-> m.id, status |-> "COMPLETED", pos |-> m.pos]]
             /\ UNCHANGED <<recv_queue, recv_left, store>>
        ELSE /\ received' = [received EXCEPT ![p] =
                    [type |-> UserType(m), id |-> m.id, status |-> Unpacked(m).status,
                     pos |-> Unpacked(m).current_position]]
             /\ recv_queue' = [recv_queue EXCEPT ![m.id] = Unpacked(m)]
             /\ WriteRecv(p)
             /\ store' = [store EXCEPT ![m.id] = Written(m, m.len)]
    /\ chan' = [chan EXCEPT ![p] = Tail(@)]
    /\ pc' = [pc EXCEPT ![p] = "PROCESS"]
    /\ UNCHANGED <<send_queue, send_left, reply_queue, delivered, up, loop, sending, faults>>

-----------------------------------------------------------------------------
(* process_task: user tasks *)

\* receive_task answers a user task with a send_task of its own.
ThenReply(p) ==
    /\ pc' = [pc EXCEPT ![p] = "REPLY"]
    /\ received' = [received EXCEPT ![p] = Nothing]
    /\ UNCHANGED <<send_queue, send_left, chan, up, loop, sending>>

Processing(p, types) == pc[p] = "PROCESS" /\ received[p].type \in types
FileTypes == {"SMALL_FILE", "LARGE_FILE"}

\* Mutant of CheckPassed: the md5 is not compared.
CheckPassedAlways(p) ==
    Processing(p, FileTypes) /\ received[p].status = "COMPLETED"
\* The whole file has arrived: check its md5.
CheckPassed(p) ==
    /\ Processing(p, FileTypes) /\ received[p].status = "COMPLETED"
    /\ store[received[p].id] = FileSize[received[p].id]
CheckFile(p) ==
    /\ Processing(p, FileTypes) /\ received[p].status = "COMPLETED"
    /\ LET id == received[p].id IN
        IF CheckPassed(p)
        THEN /\ AddReply(p, "CHECK_PASS", id, 0)
             /\ recv_queue' = UpdateRecv(id, "CHECKED", received[p].pos)
             /\ delivered' = delivered \cup {id}
        ELSE /\ AddReply(p, "CHECK_FAILED", id, 0)
             /\ recv_queue' = UpdateRecv(id, "INCONSIST", 0)
             /\ UNCHANGED delivered
    /\ IF recv_queue[received[p].id].status = "NONE" THEN UNCHANGED recv_left ELSE WriteRecv(p)
    /\ ThenReply(p)
    /\ UNCHANGED <<store, faults>>

\* A part out of order: say how far the file has got.
ReportPosition(p) ==
    /\ Processing(p, FileTypes) /\ received[p].status = "INCONSIST"
    /\ AddReply(p, "LASTPOS", received[p].id, received[p].pos)
    /\ ThenReply(p)
    /\ UNCHANGED <<recv_queue, recv_left, files, faults>>

AckPart(p) ==
    /\ Processing(p, FileTypes) /\ received[p].status \notin {"COMPLETED", "INCONSIST"}
    /\ AddReply(p, "REPLY", received[p].id, 0)
    /\ ThenReply(p)
    /\ UNCHANGED <<recv_queue, recv_left, files, faults>>

ProcessMessage(p) ==
    /\ Processing(p, {"MESSAGE"})
    /\ AddReply(p, "REPLY", received[p].id, 0)
    /\ delivered' = delivered \cup {received[p].id}
    /\ ThenReply(p)
    /\ UNCHANGED <<recv_queue, recv_left, store, faults>>

-----------------------------------------------------------------------------
(* process_task: control tasks *)

\* An answer's find_task returns NULL, and is dereferenced.
AnswerNamesNothing(p) ==
    /\ Processing(p, AnswerTypes)
    /\ send_queue[received[p].id].status \in Absent

\* The wait for an answer, if there was one, has succeeded: whichever task
\* the answer names, the send_task that waited returns 0.
ProcessAnswer(p) ==
    /\ Processing(p, AnswerTypes) /\ ~AnswerNamesNothing(p)
    /\ LET id == received[p].id
           task == send_queue[id]
       IN send_queue' = UpdateSend(id,
            CASE received[p].type = "LASTPOS" ->
                    [task EXCEPT !.current_position = received[p].pos,
                                 !.error_count = Lesser(@ + 1, MaxErrorCount + 1),
                                 !.status = "PENDING"]
              [] received[p].type = "CHECK_PASS" -> [task EXCEPT !.status = "CHECKED"]
              [] received[p].type = "CHECK_FAILED" ->
                    [task EXCEPT !.current_position = 0, !.status = "PENDING"]
              [] received[p].type = "REPLY" -> Success(id, task))
    /\ WriteSend(p)
    /\ pc' = [pc EXCEPT ![p] = loop[p]]
    /\ sending' = [sending EXCEPT ![p] = NoTask]
    /\ received' = [received EXCEPT ![p] = Nothing]
    /\ UNCHANGED <<recv_queue, recv_left, reply_queue, files, chan, up, loop, faults>>

\* receive_task returns 1: the end of the loop that receives, but an error
\* for a send_task that waits for its answer.
ProcessComplete(p) ==
    /\ Processing(p, {"COMPLETE_SIG"})
    /\ received' = [received EXCEPT ![p] = Nothing]
    /\ IF sending[p].id # 0
       THEN NoAnswer(p) /\ UNCHANGED loop
       ELSE /\ loop' = [loop EXCEPT ![p] = IF p = Client THEN "SEND" ELSE @]
            /\ pc' = [pc EXCEPT ![p] = IF p = Client THEN "SEND" ELSE "CLOSE"]
            /\ UNCHANGED <<send_queue, send_left, sending>>
    /\ UNCHANGED <<recv_queue, recv_left, reply_queue, files, chan, up, faults>>

-----------------------------------------------------------------------------
(* Crashes and restarts.  The queues are written to disk at every update,  *)
(* except for the control tasks and some deletions; the kernel closes the  *)
(* connection, and the process that is started next reads its queues.      *)

Die(p) ==
    /\ WriteSend(p) /\ WriteRecv(p)
    /\ pc' = [pc EXCEPT ![p] = "IDLE"]
    /\ sending' = [sending EXCEPT ![p] = NoTask]
    /\ received' = [received EXCEPT ![p] = Nothing]
    /\ reply_queue' = [reply_queue EXCEPT ![p] = <<>>]
    /\ IF pc[p] = "IDLE" THEN UNCHANGED chan ELSE Disconnect(p)
    /\ UNCHANGED <<up, loop>>

NullDereference(p) ==
    /\ PartNamesNothing(p) \/ AnswerNamesNothing(p)
    /\ Die(p)
    /\ send_queue' = SendRead(p) /\ recv_queue' = RecvRead(p)
    /\ UNCHANGED <<files, faults>>

Crash(p) ==
    /\ faults < MaxFaults
    /\ faults' = faults + 1
    /\ Die(p)
    /\ send_queue' = SendRead(p) /\ recv_queue' = RecvRead(p)
    /\ UNCHANGED files

\* new_task has written the task as INITIAL, add_*_task has not yet made it
\* PENDING.
CrashWhileAdding(p, t) ==
    /\ Owner[t] = p /\ send_queue[t].status = "NONE"
    /\ \A u \in Tasks : Owner[u] = p /\ u < t => send_queue[u].status # "NONE"
    /\ faults < MaxFaults
    /\ faults' = faults + 1
    /\ send_queue' = [send_queue EXCEPT ![t] = NewTask(t, "INITIAL")]
    /\ Die(p)
    /\ recv_queue' = RecvRead(p)
    /\ UNCHANGED files

\* unpack_data has written some of the message's bytes to the file, but the
\* entry only as far as new_task does.
CrashWhileUnpacking(p) ==
    /\ Waiting(p) /\ chan[p] # <<>> /\ ~PartNamesNothing(p)
    /\ faults < MaxFaults
    /\ faults' = faults + 1
    /\ LET m == Head(chan[p]) IN
        /\ m.type \in DataTypes
        /\ recv_queue' = IF recv_queue[m.id].status # "NONE" THEN RecvRead(p)
                         ELSE [recv_queue EXCEPT ![m.id].status = "PENDING",
                                                 ![m.id].current_position = -1]
        /\ \E len \in 0..Lesser(1, m.len) \cup {m.len} :
              store' = [store EXCEPT ![m.id] =
                            IF m.type = "SMALL_FILE" THEN Corrupt ELSE Written(m, len)]
    /\ Die(p)
    /\ send_queue' = SendRead(p)
    /\ UNCHANGED delivered

\* process_task has made the file CHECKED, but not called the extension.
CrashBeforeExtension(p) ==
    /\ CheckPassed(p) /\ faults < MaxFaults
    /\ recv_queue[received[p].id].status # "NONE"
    /\ faults' = faults + 1
    /\ recv_queue' = UpdateRecv(received[p].id, "CHECKED", received[p].pos)
    /\ Die(p)
    /\ send_queue' = SendRead(p)
    /\ UNCHANGED files

\* The network cuts the connection and loses what was in flight.
Cut ==
    /\ up /\ faults < MaxFaults
    /\ \E p \in Peers : pc[p] # "IDLE"
    /\ up' = FALSE
    /\ \E s \in CutShort(chan[Server]), c \in CutShort(chan[Client]) :
          chan' = [chan EXCEPT ![Server] = s, ![Client] = c]
    /\ faults' = faults + 1
    /\ UNCHANGED <<queues, files, pc, loop, sending, received>>

-----------------------------------------------------------------------------
(* The user, through monitors and the control port *)

AddTask(t) ==
    /\ send_queue[t].status = "NONE"
    /\ \A u \in Tasks : Owner[u] = Owner[t] /\ u < t => send_queue[u].status # "NONE"
    /\ send_queue' = [send_queue EXCEPT ![t] = NewTask(t, "PENDING")]
    /\ WriteSend(Owner[t])
    /\ UNCHANGED <<recv_queue, recv_left, reply_queue, files, chan, up, pc, loop, sending,
                   received, faults>>

\* Deleting the first task of a list writes the file.  From behind it a task
\* goes unnoticed by the file, which is next written when the next task is
\* added or updated.  Control tasks may be in front of a user task or not.
DeleteSend(t) ==
    /\ UserDeletes /\ send_queue[t].status \notin Absent
    /\ send_queue' = [send_queue EXCEPT ![t].status = "DELETED"]
    /\ IF \/ \E u \in Tasks : Owner[u] = Owner[t] /\ u > t /\ send_queue[u].status \notin Absent
          \/ \E i \in 1..Len(reply_queue[Owner[t]]) : t \in reply_queue[Owner[t]][i].older
       THEN send_left' = [send_left EXCEPT ![t] = send_queue[t].status]
       ELSE WriteSend(Owner[t])
    /\ UNCHANGED <<recv_queue, recv_left, reply_queue, files, chan, up, pc, loop, sending,
                   received, faults>>

\* Deleting all tasks of a send queue takes its control tasks along.
DeleteAllSend(p) ==
    /\ UserDeletes
    /\ send_queue' = [t \in Tasks |->
            IF Owner[t] = p /\ send_queue[t].status \notin Absent
            THEN [send_queue[t] EXCEPT !.status = "DELETED"] ELSE send_queue[t]]
    /\ WriteSend(p)
    /\ reply_queue' = [reply_queue EXCEPT ![p] = <<>>]
    /\ UNCHANGED <<recv_queue, recv_left, files, chan, up, pc, loop, sending, received, faults>>

\* In which order the tasks came is not recorded: any of several may be the
\* first, but a control task that is being processed comes before them.
DeleteReceive(t) ==
    /\ UserDeletes /\ recv_queue[t].status # "NONE"
    /\ recv_queue' = [recv_queue EXCEPT ![t].status = "NONE"]
    /\ LET p == Other(Owner[t])
           others == {u \in Tasks \ {t} : Owner[u] = Owner[t] /\ recv_queue[u].status # "NONE"}
       IN  \/ ~Processing(p, ControlTypes) /\ WriteRecv(p)
           \/ /\ others # {} \/ Processing(p, ControlTypes)
              /\ recv_left' = [recv_left EXCEPT ![t] = recv_queue[t].status]
    /\ UNCHANGED <<send_queue, send_left, reply_queue, files, chan, up, pc, loop, sending,
                   received, faults>>

-----------------------------------------------------------------------------

PeerStep(p) ==
    \/ CloseConn(p)
    \/ SendReply(p) \/ SendReplyFails(p)
    \/ \E t \in Tasks : SendUserTask(p, t) \/ SendUserTaskFails(p, t)
    \/ Receive(p) \/ ReceiveFails(p)
    \/ CheckFile(p) \/ ReportPosition(p) \/ AckPart(p) \/ ProcessMessage(p)
    \/ ProcessAnswer(p) \/ ProcessComplete(p)
    \/ NullDereference(p)

Fault ==
    \/ Cut
    \/ \E p \in Peers :
        \/ ReceiveTimesOut(p) \/ Crash(p)
        \/ CrashWhileUnpacking(p) \/ CrashBeforeExtension(p)
        \/ \E t \in Tasks : PackFails(p, t) \/ CrashWhileAdding(p, t)

User ==
    \/ \E t \in Tasks : AddTask(t) \/ DeleteSend(t) \/ DeleteReceive(t)
    \/ \E p \in Peers : DeleteAllSend(p)

Next == Connect \/ (\E p \in Peers : PeerStep(p)) \/ Fault \/ User

Spec == Init /\ [][Next]_vars

\* Each peer's main loop runs on, and the client keeps reconnecting every
\* [MAIN] Interval seconds; nothing obliges the user, and faults just happen.
FairSpec == Spec /\ WF_vars(Connect) /\ \A p \in Peers : WF_vars(PeerStep(p))

-----------------------------------------------------------------------------
(* Properties *)

\* Every variable has its type: a position is never below the -1 that means
\* "not begun", although task_success adds a block_size that may be -1 to it.
TypeOK ==
    /\ send_queue \in [Tasks -> SendTask]
    /\ recv_queue \in [Tasks -> RecvTask]
    /\ send_left \in [Tasks -> SendStatus \ {"DELETED"}]
    /\ recv_left \in [Tasks -> RecvStatus]
    /\ reply_queue \in [Peers -> Seq(Control)]
    /\ store \in [Tasks -> Int]
    /\ delivered \subseteq Tasks
    /\ chan \in [Peers -> Seq(Message)]
    /\ up \in BOOLEAN
    /\ pc \in [Peers -> Points]
    /\ loop \in [Peers -> {"SEND", "RECV"}]
    /\ sending \in [Peers -> [id : Tasks \cup {0}, nested : BOOLEAN, task : SendTask]]
    /\ received \in [Peers -> Received]
    /\ faults \in 0..MaxFaults

\* What the sender takes for acknowledged really arrived: a CHECKED file was
\* verified by the receiver and handed to the extension, and so was a message
\* that is COMPLETED, through any crash, cut, late answer or fresh start.
AcknowledgedImpliesDelivered ==
    \A t \in Tasks :
        \/ send_queue[t].status = "CHECKED"
        \/ send_queue[t].status = "COMPLETED" /\ Kind[t] # "LARGE_FILE"
        => t \in delivered

\* communication.cpp:35: only what was received and passed its check is
\* acknowledged.  COMPLETED, "Completed." in the user's list, is what
\* task_success makes of a large file when an answer takes it to its end.
CompletedFileDelivered ==
    \A t \in Tasks : send_queue[t].status = "COMPLETED" => t \in delivered

\* process_task and unpack_data never dereference the NULL of a find_task
\* that found nothing: an answer names a task of this peer's send queue, a
\* part a task of its receive queue.
NoNullDereference ==
    \A p \in Peers : ~PartNamesNothing(p) /\ ~AnswerNamesNothing(p)

\* One speaker at a time: never are messages in flight both ways.
HalfDuplex == chan[Server] = <<>> \/ chan[Client] = <<>>

\* The copy that send_task keeps while it waits is still what the queue
\* holds, so that task_failure, which writes it back, undoes nothing.
CopyFresh ==
    \A p \in Peers : sending[p].id # 0 =>
        \/ send_queue[sending[p].id] = sending[p].task
        \/ send_queue[sending[p].id].status \in Absent

\* A part lies within its file: pack_large_file_part never asks pack_file for
\* a negative length, whatever positions stale answers set.
PartWithinFile ==
    \A p \in Peers : \A i \in 1..Len(chan[p]) : chan[p][i].type = "LARGE_FILE_PART" =>
        /\ chan[p][i].pos >= 0 /\ chan[p][i].len >= 0
        /\ chan[p][i].pos + chan[p][i].len <= FileSize[chan[p][i].id]

\* A large file the receiver calls CHECKED is intact on its disk, also after
\* parts of it were sent again.
CheckedFileIntact ==
    \A t \in Tasks : recv_queue[t].status = "CHECKED" /\ Kind[t] = "LARGE_FILE"
                        => store[t] = FileSize[t]

\* Answers that an exchange failed to send wait in memory for the next
\* session: never more of them than faults, beside the one just queued.
BacklogBounded == \A p \in Peers : Len(reply_queue[p]) <= faults + 1

\* Without faults the two loops fit together: no wait for an answer fails, no
\* answer goes to the wrong task, no part arrives out of order.
CleanWithoutFaults ==
    faults = 0 => \A t \in Tasks :
        /\ send_queue[t].error_count = 0
        /\ recv_queue[t].status # "INCONSIST"
        /\ send_queue[t].status = "COMPLETED" => Kind[t] = "MESSAGE"

-----------------------------------------------------------------------------
(* What all this is for *)

\* What the owner's queue says of a task.  A large file is done when it is
\* CHECKED: COMPLETED comes of an answer to one of its parts.
Phase(t) ==
    LET status == send_queue[t].status IN
    CASE status = "NONE" -> "none"
      [] status = "DELETED" -> IF send_left[t] = "NONE" THEN "deleted" ELSE "dropped"
      [] status \in {"INITIAL", "FAULT"} -> "failed"
      [] status = "CHECKED" \/ (status = "COMPLETED" /\ Kind[t] # "LARGE_FILE") -> "done"
      [] OTHER -> "waiting"

Promise == INSTANCE Delivery WITH phase <- [t \in Tasks |-> Phase(t)]

\* The whole protocol, with its lost, late and misdirected answers, crashes
\* and deletions, does nothing that Delivery does not allow.
ImplementsDelivery == Promise!Spec

Rests(t) == send_queue[t].status \notin {"PENDING", "STARTED", "TRANSING", "ERROR"}

\* Once the faults have ceased, no task is tried for ever: each is in the end
\* done, or FAULT, or a large file that is called COMPLETED, however often it
\* failed before and was degraded.  It takes that a task which failed is due
\* again, and that no part of a deleted task kills the receiver every time.
Settles ==
    ~BackoffPossible /\ ~UserDeletes => \A t \in Tasks : <>[]Rests(t)

\* The same without the first of these: next_task means a task that failed to
\* rest for ResumeInterval seconds, and then to be sent again.
AlwaysDue == ~UserDeletes => \A t \in Tasks : <>[]Rests(t)
=============================================================================
