------------------------- MODULE CommunicationProofs -------------------------
(***************************************************************************)
(* Proofs about Communication, for every set of tasks, every configuration *)
(* and any number of faults: types, what an answer is worth, the entries   *)
(* of the queues, the refinement of Delivery; then whose turn it is to     *)
(* speak, how many answers a send queue keeps, and what is true of a task  *)
(* that is being sent until a first fault.                                 *)
(***************************************************************************)
EXTENDS Communication, TLAPS, SequenceTheorems

-----------------------------------------------------------------------------
(* Sequences over a set: what the queues and channels are made of.         *)

LEMMA SeqMonotone ==
    ASSUME NEW S, NEW T, S \subseteq T, NEW seq \in Seq(S)
    PROVE  seq \in Seq(T)
OBVIOUS

LEMMA SubSeqInSeq ==
    ASSUME NEW S, NEW seq \in Seq(S), NEW m \in Nat \ {0}, NEW n \in 0..Len(seq)
    PROVE  SubSeq(seq, m, n) \in Seq(S)
<1>1. \A i \in m..n : seq[i] \in S
    BY ElementOfSeq
<1>2. m \in Int /\ n \in Int
    OBVIOUS
<1> QED BY <1>1, <1>2, SubSeqProperties

LEMMA CutShortInSeq ==
    ASSUME NEW S, NEW seq \in Seq(S)
    PROVE  /\ CutShort(seq) \subseteq Seq(S)
           /\ seq # <<>> => Head(seq) \in S /\ Tail(seq) \in Seq(S)
BY SubSeqInSeq, HeadTailProperties DEF CutShort

LEMMA WithoutInSeq ==
    ASSUME NEW S, NEW seq \in Seq(S), NEW i \in 1..Len(seq)
    PROVE  Without(seq, i) \in Seq(S)
<1>1. SubSeq(seq, 1, i - 1) \in Seq(S)
    BY SubSeqInSeq
<1>2. SubSeq(seq, i + 1, Len(seq)) \in Seq(S)
    BY SubSeqInSeq
<1> QED BY <1>1, <1>2, ConcatProperties DEF Without

-----------------------------------------------------------------------------
(* What the operators on tasks return.                                     *)

Block == (Nat \ {0}) \cup {-1}

LEMMA NewTaskType ==
    ASSUME NEW t \in Tasks, NEW status \in SendStatus
    PROVE  NewTask(t, status) \in SendTask
BY TasksAssumption, ConfigAssumption DEF NewTask, SendTask, Position

LEMMA UpdateBlockSizeType ==
    ASSUME NEW size \in Block
    PROVE  UpdateBlockSize(size) \in Nat \ {0}
BY ConfigAssumption DEF UpdateBlockSize, Lesser, Block

LEMMA PackedType ==
    ASSUME NEW t \in Tasks, NEW task \in SendTask
    PROVE  /\ Packed(t, task) \in SendTask
           /\ Packed(t, task).status = "TRANSING"
           /\ Packed(t, task).current_position = task.current_position
           /\ IsPart(t, task) => Packed(t, task).block_size > 0
<1>1. UpdateBlockSize(task.block_size) \in Nat \ {0}
    BY UpdateBlockSizeType DEF SendTask, Block
<1> DEFINE size == IF IsPart(t, task) THEN UpdateBlockSize(task.block_size) ELSE task.block_size
<1>2. size \in Block /\ (IsPart(t, task) => size > 0)
    BY <1>1 DEF SendTask, Block
<1>3. Packed(t, task) = [task EXCEPT !.status = "TRANSING", !.block_size = size]
    BY DEF Packed
<1> HIDE DEF size
<1> QED BY <1>2, <1>3 DEF SendTask, SendStatus, Block

\* A part ends inside the file, or before it begins: at a position anyway.
LEMMA PackedMessageType ==
    ASSUME NEW t \in Tasks, NEW task \in SendTask,
           IsPart(t, task) => task.block_size > 0
    PROVE  PackedMessage(t, task) \in Message
<1>1. CASE IsPart(t, task)
    <2>1. /\ task.current_position \in Nat
          /\ task.block_size \in Nat \ {0}
          /\ FileSize[t] \in Nat
        BY <1>1, TasksAssumption DEF IsPart, SendTask, Position
    <2> DEFINE len == Lesser(task.block_size, FileSize[t] - task.current_position)
    <2>2. len \in Int /\ task.current_position + len \in Nat
        BY <2>1 DEF Lesser
    <2>3. PackedMessage(t, task) =
            [type |-> "LARGE_FILE_PART", id |-> t, pos |-> task.current_position, len |-> len]
        BY <1>1 DEF PackedMessage
    <2> HIDE DEF len
    <2> QED BY <2>1, <2>2, <2>3, TasksAssumption DEF Message, NamesTask, DataTypes, Position
<1>2. CASE ~IsPart(t, task)
    BY <1>2, TasksAssumption DEF PackedMessage, Message, NamesTask, DataTypes, UserTypes, Position
<1> QED BY <1>1, <1>2

LEMMA SuccessType ==
    ASSUME NEW t \in Tasks, NEW task \in SendTask
    PROVE  /\ Success(t, task) \in SendTask
           /\ Success(t, task).status \in {"STARTED", "COMPLETED"}
           /\ Success(t, task).status = "STARTED" => Kind[t] = "LARGE_FILE"
<1> DEFINE pos == IF task.current_position < 0 THEN 0
                  ELSE IF task.current_position < FileSize[t]
                       THEN task.current_position + task.block_size
                       ELSE task.current_position
<1>1. pos \in Position
    BY DEF SendTask, Position
<1> HIDE DEF pos
<1>2. Success(t, task) =
        IF Kind[t] # "LARGE_FILE" THEN [task EXCEPT !.status = "COMPLETED"]
        ELSE [task EXCEPT !.current_position = pos,
                          !.status = IF task.current_position < 0 \/ pos < FileSize[t]
                                     THEN "STARTED" ELSE "COMPLETED"]
    BY DEF Success, pos
<1> QED BY <1>1, <1>2 DEF SendTask, SendStatus

LEMMA FailureType ==
    ASSUME NEW task \in SendTask
    PROVE  /\ Failure(task) \in SendTask
           /\ Failure(task).status = "ERROR"
           /\ Failure(task).current_position = task.current_position
<1> DEFINE errors == task.error_count + 1
           degraded == errors > MaxErrorCount /\ task.priority > 3
<1>1. /\ Lesser(errors, MaxErrorCount + 1) \in -1..MaxErrorCount + 1
      /\ 0 \in -1..MaxErrorCount + 1
      /\ Lesser(task.priority + 1, MaxPriority) \in Int
    BY ConfigAssumption DEF SendTask, Lesser
<1>2. Failure(task) =
        [task EXCEPT !.status = "ERROR", !.block_size = -1,
             !.error_count = IF degraded THEN 0 ELSE Lesser(errors, MaxErrorCount + 1),
             !.priority = IF degraded THEN Lesser(@ + 1, MaxPriority) ELSE @]
    BY DEF Failure
<1> HIDE DEF errors, degraded
<1> QED BY <1>1, <1>2 DEF SendTask, SendStatus

LEMMA UpdateSendType ==
    ASSUME send_queue \in [Tasks -> SendTask], NEW t \in Tasks, NEW task \in SendTask
    PROVE  UpdateSend(t, task) \in [Tasks -> SendTask]
BY DEF UpdateSend

LEMMA UpdateRecvType ==
    ASSUME recv_queue \in [Tasks -> RecvTask], NEW t \in Tasks,
           NEW status \in RecvStatus, NEW pos \in Position
    PROVE  UpdateRecv(t, status, pos) \in [Tasks -> RecvTask]
BY DEF UpdateRecv, RecvTask

LEMMA NewControlType ==
    ASSUME NEW p, NEW type \in ControlTypes, NEW id \in Tasks \cup {0}, NEW pos \in Position,
           id = 0 <=> type = "COMPLETE_SIG"
    PROVE  NewControl(p, type, id, pos) \in Control
BY DEF NewControl, Control, NamesTask

LEMMA NoTaskType ==
    /\ NoTask \in [id : Tasks \cup {0}, nested : BOOLEAN, task : SendTask]
    /\ NoTask.id = 0
BY ConfigAssumption DEF NoTask, SendTask, SendStatus, Position

LEMMA NothingType == Nothing \in Received /\ Nothing.type = "COMPLETE_SIG"
BY DEF Nothing, Received, NamesTask, ControlTypes, RecvStatus, Position

LEMMA OtherPeer == \A p \in Peers : Other(p) \in Peers /\ Other(p) # p
BY PeersAssumption DEF Other, Peers

-----------------------------------------------------------------------------
(* What the parts of actions do to queues and channels over any set S.     *)

LEMMA TransmitSeq ==
    ASSUME NEW S, chan \in [Peers -> Seq(S)], NEW p \in Peers, NEW m \in S,
           Transmit(p, m)
    PROVE  chan' \in [Peers -> Seq(S)]
<1>1. Other(p) \in Peers
    BY OtherPeer
<1>2. Append(chan[Other(p)], m) \in Seq(S)
    BY <1>1, AppendProperties
<1> QED BY <1>1, <1>2 DEF Transmit

LEMMA DisconnectSeq ==
    ASSUME NEW S, chan \in [Peers -> Seq(S)], NEW p \in Peers, Disconnect(p)
    PROVE  chan' \in [Peers -> Seq(S)]
<1>1. Other(p) \in Peers
    BY OtherPeer
<1>2. PICK rest \in (IF chan[p] = <<>> THEN {chan[Other(p)]} ELSE CutShort(chan[Other(p)])) :
        chan' = [chan EXCEPT ![p] = <<>>, ![Other(p)] = rest]
    BY DEF Disconnect
<1>3. rest \in Seq(S)
    BY <1>1, <1>2, CutShortInSeq
<1>4. <<>> \in Seq(S)
    OBVIOUS
<1> QED BY <1>2, <1>3, <1>4

LEMMA AddReplySeq ==
    ASSUME NEW S, reply_queue \in [Peers -> Seq(S)], NEW p \in Peers,
           NEW type, NEW id, NEW pos, NewControl(p, type, id, pos) \in S,
           AddReply(p, type, id, pos)
    PROVE  reply_queue' \in [Peers -> Seq(S)]
<1>1. Append(reply_queue[p], NewControl(p, type, id, pos)) \in Seq(S)
    BY AppendProperties
<1> QED BY <1>1 DEF AddReply

LEMMA PendingRepliesSeq ==
    ASSUME NEW S, reply_queue \in [Peers -> Seq(S)], NEW p \in Peers,
           NewControl(p, "COMPLETE_SIG", 0, 0) \in S, NEW replies \in PendingReplies(p)
    PROVE  replies \in Seq(S)
<1>1. Append(reply_queue[p], NewControl(p, "COMPLETE_SIG", 0, 0)) \in Seq(S)
    BY AppendProperties
<1> QED BY <1>1 DEF PendingReplies

\* A task that could not be sent stays where it is, with one more error.
LEMMA FailedReply ==
    ASSUME NEW S, NEW replies \in Seq(S), NEW i \in 1..Len(replies), NEW e,
           [replies[i] EXCEPT !.error_count = e] \in S
    PROVE  [replies EXCEPT ![i].error_count = e] \in Seq(S)
OBVIOUS

LEMMA DieSeq ==
    ASSUME NEW S, NEW T, chan \in [Peers -> Seq(S)], reply_queue \in [Peers -> Seq(T)],
           NEW p \in Peers, Die(p)
    PROVE  /\ chan' \in [Peers -> Seq(S)]
           /\ reply_queue' \in [Peers -> Seq(T)]
<1>1. chan' \in [Peers -> Seq(S)]
    BY DisconnectSeq DEF Die
<1>2. <<>> \in Seq(T)
    OBVIOUS
<1> QED BY <1>1, <1>2 DEF Die

-----------------------------------------------------------------------------
(* The type invariant *)

LEMMA MessageTypes ==
    /\ \A r \in Control : ReplyMessage(r) \in Message
    /\ \A r \in Control : \A e \in Nat : [r EXCEPT !.error_count = e] \in Control
    /\ NewControl(Server, "COMPLETE_SIG", 0, 0) \in Control
    /\ NewControl(Client, "COMPLETE_SIG", 0, 0) \in Control
<1>1. \A r \in Control : ReplyMessage(r) \in Message
    BY DEF ReplyMessage, Control, Message, NamesTask, Position
<1>2. \A r \in Control : \A e \in Nat : [r EXCEPT !.error_count = e] \in Control
    BY DEF Control, NamesTask
<1> QED BY <1>1, <1>2, NewControlType DEF ControlTypes, Position

\* The receive side: what unpack_data makes of a message has its type.
LEMMA UnpackedType ==
    ASSUME recv_queue \in [Tasks -> RecvTask], store \in [Tasks -> Int],
           NEW m \in Message, m.type \in DataTypes, m.id \in Tasks, NEW len \in Int
    PROVE  /\ Unpacked(m) \in RecvTask
           /\ Written(m, len) \in Int
           /\ UserType(m) \in UserTypes
<1>1. /\ m.type \in {"SMALL_FILE", "LARGE_FILE_BEGIN", "LARGE_FILE_PART", "MESSAGE"}
      /\ recv_queue[m.id] \in RecvTask
      /\ FileSize[m.id] \in Nat /\ store[m.id] \in Int
      /\ m.pos \in Int /\ m.pos + m.len \in Position
    <2>1. m.pos \in Int /\ m.pos + m.len \in Position
        BY DEF Message, Position
    <2> QED BY <2>1, TasksAssumption DEF DataTypes
<1>2. Unpacked(m) \in RecvTask
    BY <1>1 DEF Unpacked, RecvTask, RecvStatus, Position
<1>3. Written(m, len) \in Int
    BY <1>1 DEF Written, Corrupt
<1>4. UserType(m) \in UserTypes
    BY <1>1 DEF UserType, UserTypes
<1> QED BY <1>2, <1>3, <1>4

LEMMA NoAnswerType ==
    ASSUME TypeOK, NEW p \in Peers, NoAnswer(p)
    PROVE  /\ send_queue' \in [Tasks -> SendTask]
           /\ pc' \in [Peers -> Points]
           /\ sending' \in [Peers -> [id : Tasks \cup {0}, nested : BOOLEAN, task : SendTask]]
<1>1. sending[p].id # 0 => UpdateSend(sending[p].id, Failure(sending[p].task)) \in [Tasks -> SendTask]
    BY FailureType, UpdateSendType DEF TypeOK
<1> QED BY <1>1, NoTaskType DEF TypeOK, NoAnswer, Points

\* When what a file still holds of the deleted tasks changes.
LEMMA LeftSteps ==
    ASSUME [Next]_vars
    PROVE  /\ \/ UNCHANGED send_left
              \/ \E p \in Peers : WriteSend(p)
              \/ \E t \in Tasks :
                    /\ DeleteSend(t)
                    /\ send_left' = [send_left EXCEPT ![t] = send_queue[t].status]
           /\ \/ UNCHANGED recv_left
              \/ \E p \in Peers : WriteRecv(p)
              \/ \E t \in Tasks :
                    /\ DeleteReceive(t)
                    /\ recv_left' = [recv_left EXCEPT ![t] = recv_queue[t].status]
<1> DEFINE Send == \/ UNCHANGED send_left
                   \/ \E p \in Peers : WriteSend(p)
                   \/ \E t \in Tasks :
                        /\ DeleteSend(t)
                        /\ send_left' = [send_left EXCEPT ![t] = send_queue[t].status]
           Recv == \/ UNCHANGED recv_left
                   \/ \E p \in Peers : WriteRecv(p)
                   \/ \E t \in Tasks :
                        /\ DeleteReceive(t)
                        /\ recv_left' = [recv_left EXCEPT ![t] = recv_queue[t].status]
<1> USE DEF queues, files
<1>1. ASSUME NEW p \in Peers,
             \/ CloseConn(p) \/ SendReply(p) \/ SendReplyFails(p) \/ ReportPosition(p)
             \/ AckPart(p) \/ ProcessMessage(p)
      PROVE  Send /\ Recv
    BY <1>1 DEF CloseConn, SendReply, SendReplyFails, ReportPosition, AckPart, ProcessMessage,
        ThenReply
<1>2. ASSUME NEW p \in Peers, NEW t \in Tasks,
             SendUserTask(p, t) \/ SendUserTaskFails(p, t) \/ PackFails(p, t)
      PROVE  Send /\ Recv
    BY <1>2 DEF SendUserTask, SendUserTaskFails, PackFails
<1>3. ASSUME NEW p \in Peers, ReceiveFails(p) \/ ReceiveTimesOut(p) \/ ProcessComplete(p)
      PROVE  Send /\ Recv
    BY <1>3 DEF ReceiveFails, ReceiveTimesOut, ProcessComplete, NoAnswer
<1>4. ASSUME NEW p \in Peers, Receive(p) \/ CheckFile(p) \/ ProcessAnswer(p)
      PROVE  Send /\ Recv
    BY <1>4 DEF Receive, CheckFile, ThenReply, ProcessAnswer
<1>5. ASSUME NEW p \in Peers,
             \/ NullDereference(p) \/ Crash(p) \/ CrashWhileUnpacking(p)
             \/ CrashBeforeExtension(p) \/ \E t \in Tasks : CrashWhileAdding(p, t)
      PROVE  Send /\ Recv
    BY <1>5 DEF NullDereference, Crash, CrashWhileUnpacking, CrashBeforeExtension,
        CrashWhileAdding, Die
<1>6. ASSUME NEW t \in Tasks, AddTask(t) PROVE Send /\ Recv
    BY <1>6, TasksAssumption DEF AddTask
<1>7. ASSUME NEW t \in Tasks, DeleteSend(t) PROVE Send /\ Recv
    <2>1. \/ WriteSend(Owner[t])
          \/ send_left' = [send_left EXCEPT ![t] = send_queue[t].status]
        BY <1>7 DEF DeleteSend
    <2>2. UNCHANGED recv_left /\ Owner[t] \in Peers
        BY <1>7, TasksAssumption DEF DeleteSend
    <2> QED BY <1>7, <2>1, <2>2
<1>8. ASSUME NEW t \in Tasks, DeleteReceive(t) PROVE Send /\ Recv
    <2>1. \/ WriteRecv(Other(Owner[t]))
          \/ recv_left' = [recv_left EXCEPT ![t] = recv_queue[t].status]
        BY <1>8 DEF DeleteReceive
    <2>2. UNCHANGED send_left /\ Other(Owner[t]) \in Peers
        BY <1>8, TasksAssumption, OtherPeer DEF DeleteReceive
    <2> QED BY <1>8, <2>1, <2>2
<1>9. ASSUME NEW p \in Peers, DeleteAllSend(p) PROVE Send /\ Recv
    BY <1>9 DEF DeleteAllSend
<1>10. ASSUME Connect \/ Cut \/ UNCHANGED vars PROVE Send /\ Recv
    BY <1>10 DEF Connect, Cut, vars
<1> HIDE DEF Send, Recv
<1>11. ASSUME NEW p \in Peers, PeerStep(p) PROVE Send /\ Recv
    BY <1>1, <1>2, <1>3, <1>4, <1>5, <1>11 DEF PeerStep
<1>12. ASSUME Fault PROVE Send /\ Recv
    BY <1>2, <1>3, <1>5, <1>10, <1>12 DEF Fault
<1>13. ASSUME User PROVE Send /\ Recv
    BY <1>6, <1>7, <1>8, <1>9, <1>13 DEF User
<1>14. Send /\ Recv
    BY <1>10, <1>11, <1>12, <1>13 DEF Next
<1> QED BY <1>14 DEF Send, Recv

LEMMA LeftType ==
    ASSUME TypeOK, [Next]_vars
    PROVE  /\ send_left' \in [Tasks -> SendStatus \ {"DELETED"}]
           /\ recv_left' \in [Tasks -> RecvStatus]
<1>1. ASSUME NEW p \in Peers, WriteSend(p)
      PROVE  send_left' \in [Tasks -> SendStatus \ {"DELETED"}]
    BY <1>1 DEF WriteSend, TypeOK, SendStatus
<1>2. ASSUME NEW p \in Peers, WriteRecv(p)
      PROVE  recv_left' \in [Tasks -> RecvStatus]
    BY <1>2 DEF WriteRecv, TypeOK, RecvStatus
<1>3. ASSUME NEW t \in Tasks, DeleteSend(t),
             send_left' = [send_left EXCEPT ![t] = send_queue[t].status]
      PROVE  send_left' \in [Tasks -> SendStatus \ {"DELETED"}]
    <2>1. send_queue[t].status \in SendStatus \ {"DELETED"}
        BY <1>3 DEF DeleteSend, TypeOK, SendTask, Absent
    <2> QED BY <1>3, <2>1 DEF TypeOK
<1>4. ASSUME NEW t \in Tasks, recv_left' = [recv_left EXCEPT ![t] = recv_queue[t].status]
      PROVE  recv_left' \in [Tasks -> RecvStatus]
    <2>1. recv_queue[t].status \in RecvStatus
        BY DEF TypeOK, RecvTask
    <2> QED BY <1>4, <2>1 DEF TypeOK
<1>5. UNCHANGED send_left => send_left' \in [Tasks -> SendStatus \ {"DELETED"}]
    BY DEF TypeOK
<1>6. UNCHANGED recv_left => recv_left' \in [Tasks -> RecvStatus]
    BY DEF TypeOK
<1> QED BY <1>1, <1>2, <1>3, <1>4, <1>5, <1>6, LeftSteps

\* A restart brings a deleted task back as it was: nothing else changes.
LEMMA ReadTasks ==
    ASSUME TypeOK, NEW p \in Peers
    PROVE  /\ SendRead(p) \in [Tasks -> SendTask]
           /\ RecvRead(p) \in [Tasks -> RecvTask]
           /\ \A t \in Tasks :
                /\ \/ SendRead(p)[t] = send_queue[t]
                   \/ /\ Owner[t] = p /\ send_left[t] # "NONE"
                      /\ SendRead(p)[t] = [send_queue[t] EXCEPT !.status = send_left[t]]
                      /\ SendRead(p)[t].status = send_left[t]
                /\ SendRead(p)[t].current_position = send_queue[t].current_position
                /\ send_queue[t].status \notin Absent => SendRead(p)[t].status \notin Absent
                /\ \/ RecvRead(p)[t] = recv_queue[t]
                   \/ /\ Owner[t] # p /\ recv_left[t] # "NONE"
                      /\ RecvRead(p)[t] = [recv_queue[t] EXCEPT !.status = recv_left[t]]
                      /\ RecvRead(p)[t].status = recv_left[t]
                /\ RecvRead(p)[t].current_position = recv_queue[t].current_position
                /\ recv_queue[t].status # "NONE" => RecvRead(p)[t].status # "NONE"
<1>1. ASSUME NEW t \in Tasks
      PROVE  /\ [send_queue[t] EXCEPT !.status = send_left[t]] \in SendTask
             /\ [send_queue[t] EXCEPT !.status = send_left[t]].status = send_left[t]
             /\ [send_queue[t] EXCEPT !.status = send_left[t]].current_position
                    = send_queue[t].current_position
    <2>1. send_queue[t] \in SendTask /\ send_left[t] \in SendStatus
        BY DEF TypeOK
    <2> QED BY <2>1 DEF SendTask
<1>2. ASSUME NEW t \in Tasks
      PROVE  /\ [recv_queue[t] EXCEPT !.status = recv_left[t]] \in RecvTask
             /\ [recv_queue[t] EXCEPT !.status = recv_left[t]].status = recv_left[t]
             /\ [recv_queue[t] EXCEPT !.status = recv_left[t]].current_position
                    = recv_queue[t].current_position
    <2>1. recv_queue[t] \in RecvTask /\ recv_left[t] \in RecvStatus
        BY DEF TypeOK
    <2> QED BY <2>1 DEF RecvTask
<1>3. \A t \in Tasks : send_left[t] # "DELETED"
    BY DEF TypeOK
<1>4. /\ SendRead(p) \in [Tasks -> SendTask]
      /\ RecvRead(p) \in [Tasks -> RecvTask]
    BY <1>1, <1>2 DEF SendRead, RecvRead, TypeOK
<1>5. ASSUME NEW t \in Tasks
      PROVE  /\ SendRead(p)[t] = IF Owner[t] = p /\ send_left[t] # "NONE"
                                 THEN [send_queue[t] EXCEPT !.status = send_left[t]]
                                 ELSE send_queue[t]
             /\ RecvRead(p)[t] = IF Owner[t] # p /\ recv_left[t] # "NONE"
                                 THEN [recv_queue[t] EXCEPT !.status = recv_left[t]]
                                 ELSE recv_queue[t]
    BY DEF SendRead, RecvRead
<1> SUFFICES ASSUME NEW t \in Tasks
             PROVE  /\ \/ SendRead(p)[t] = send_queue[t]
                       \/ /\ Owner[t] = p /\ send_left[t] # "NONE"
                          /\ SendRead(p)[t] = [send_queue[t] EXCEPT !.status = send_left[t]]
                          /\ SendRead(p)[t].status = send_left[t]
                    /\ SendRead(p)[t].current_position = send_queue[t].current_position
                    /\ send_queue[t].status \notin Absent => SendRead(p)[t].status \notin Absent
                    /\ \/ RecvRead(p)[t] = recv_queue[t]
                       \/ /\ Owner[t] # p /\ recv_left[t] # "NONE"
                          /\ RecvRead(p)[t] = [recv_queue[t] EXCEPT !.status = recv_left[t]]
                          /\ RecvRead(p)[t].status = recv_left[t]
                    /\ RecvRead(p)[t].current_position = recv_queue[t].current_position
                    /\ recv_queue[t].status # "NONE" => RecvRead(p)[t].status # "NONE"
    BY <1>4
<1>6. CASE Owner[t] = p /\ send_left[t] # "NONE"
    <2>1. SendRead(p)[t] = [send_queue[t] EXCEPT !.status = send_left[t]] /\ RecvRead(p)[t] = recv_queue[t]
        BY <1>5, <1>6
    <2> QED BY <1>1, <1>3, <1>6, <2>1 DEF Absent
<1>7. CASE Owner[t] # p /\ recv_left[t] # "NONE"
    <2>1. SendRead(p)[t] = send_queue[t] /\ RecvRead(p)[t] = [recv_queue[t] EXCEPT !.status = recv_left[t]]
        BY <1>5, <1>7
    <2> QED BY <1>2, <1>7, <2>1
<1>8. CASE ~(Owner[t] = p /\ send_left[t] # "NONE") /\ ~(Owner[t] # p /\ recv_left[t] # "NONE")
    <2>1. SendRead(p)[t] = send_queue[t] /\ RecvRead(p)[t] = recv_queue[t]
        BY <1>5, <1>8
    <2> QED BY <2>1
<1> QED BY <1>6, <1>7, <1>8

LEMMA TypeInit == Init => TypeOK
<1> SUFFICES ASSUME Init PROVE TypeOK
    OBVIOUS
<1>1. send_queue \in [Tasks -> SendTask]
    BY NewTaskType DEF Init, SendStatus
<1>2. recv_queue \in [Tasks -> RecvTask]
    BY DEF Init, RecvTask, RecvStatus, Position
<1>3. <<>> \in Seq(Control) /\ <<>> \in Seq(Message)
    OBVIOUS
<1>4. pc \in [Peers -> Points] /\ loop \in [Peers -> {"SEND", "RECV"}]
    BY DEF Init, Points
<1>5. store \in [Tasks -> Int] /\ delivered \subseteq Tasks
    BY DEF Init
<1>7. up \in BOOLEAN
    BY Zenon DEF Init
<1>8. /\ send_left \in [Tasks -> SendStatus \ {"DELETED"}]
      /\ recv_left \in [Tasks -> RecvStatus]
    BY DEF Init, SendStatus, RecvStatus
<1>6. faults \in 0..MaxFaults
    BY ConfigAssumption DEF Init
<1> QED BY <1>1, <1>2, <1>3, <1>4, <1>5, <1>6, <1>7, <1>8, NoTaskType, NothingType DEF Init, TypeOK

LEMMA TypeNext == TypeOK /\ [Next]_vars => TypeOK'
<1> SUFFICES ASSUME TypeOK, [Next]_vars PROVE TypeOK'
    OBVIOUS
<1>0. /\ send_left' \in [Tasks -> SendStatus \ {"DELETED"}]
      /\ recv_left' \in [Tasks -> RecvStatus]
    BY LeftType
<1> USE <1>0 DEF queues, files, Points
<1>1. CASE Connect
    <2>1. <<>> \in Seq(Message)
        OBVIOUS
    <2> QED BY <1>1, <2>1 DEF Connect, TypeOK
<1>2. ASSUME NEW p \in Peers, CloseConn(p) PROVE TypeOK'
    BY <1>2, DisconnectSeq DEF CloseConn, TypeOK
<1>3. ASSUME NEW p \in Peers, SendReply(p) PROVE TypeOK'
    <2>1. PICK replies \in PendingReplies(p) : \E i \in 1..Len(replies) :
            /\ reply_queue' = [reply_queue EXCEPT ![p] = Without(replies, i)]
            /\ Transmit(p, ReplyMessage(replies[i]))
            /\ AfterReplySent(p, replies[i].type)
        BY <1>3 DEF SendReply
    <2>2. PICK i \in 1..Len(replies) :
            /\ reply_queue' = [reply_queue EXCEPT ![p] = Without(replies, i)]
            /\ Transmit(p, ReplyMessage(replies[i]))
            /\ AfterReplySent(p, replies[i].type)
        BY <2>1
    <2>3. replies \in Seq(Control)
        BY PendingRepliesSeq, MessageTypes DEF TypeOK, Peers
    <2>4. Without(replies, i) \in Seq(Control) /\ replies[i] \in Control
        BY <2>3, WithoutInSeq, ElementOfSeq
    <2>5. chan' \in [Peers -> Seq(Message)]
        BY <2>2, <2>4, TransmitSeq, MessageTypes DEF TypeOK
    <2>6. pc' \in [Peers -> Points] /\ loop' \in [Peers -> {"SEND", "RECV"}]
        BY <2>2 DEF AfterReplySent, TypeOK, Points
    <2>7. sending' = [sending EXCEPT ![p] = NoTask]
        BY <2>2 DEF AfterReplySent
    <2> QED BY <1>3, <2>2, <2>4, <2>5, <2>6, <2>7, NoTaskType DEF SendReply, TypeOK
<1>4. ASSUME NEW p \in Peers, SendReplyFails(p) PROVE TypeOK'
    <2>1. PICK replies \in PendingReplies(p) : \E i \in 1..Len(replies) :
            reply_queue' = [reply_queue EXCEPT ![p] = [replies EXCEPT ![i].error_count =
                                Lesser(@ + 1, MaxErrorCount + 1)]]
        BY <1>4 DEF SendReplyFails
    <2>2. PICK i \in 1..Len(replies) :
            reply_queue' = [reply_queue EXCEPT ![p] = [replies EXCEPT ![i].error_count =
                                Lesser(@ + 1, MaxErrorCount + 1)]]
        BY <2>1
    <2>3. replies \in Seq(Control)
        BY PendingRepliesSeq, MessageTypes DEF TypeOK, Peers
    <2>4. replies[i] \in Control
        BY <2>3, ElementOfSeq
    <2>5. Lesser(replies[i].error_count + 1, MaxErrorCount + 1) \in Nat
        BY <2>4, ConfigAssumption DEF Control, Lesser
    <2>6. [replies EXCEPT ![i].error_count = Lesser(@ + 1, MaxErrorCount + 1)] \in Seq(Control)
        BY <2>3, <2>4, <2>5, FailedReply, MessageTypes
    <2> QED BY <1>4, <2>2, <2>6, NoTaskType DEF SendReplyFails, AfterSendError, TypeOK
<1>5. ASSUME NEW p \in Peers, NEW t \in Tasks, SendUserTask(p, t) PROVE TypeOK'
    <2> DEFINE task == Packed(t, send_queue[t])
    <2>1. PICK replies \in PendingReplies(p) :
            reply_queue' = [reply_queue EXCEPT ![p] = replies]
        BY <1>5 DEF SendUserTask
    <2>2. replies \in Seq(Control)
        BY PendingRepliesSeq, MessageTypes DEF TypeOK, Peers
    <2>3. task \in SendTask /\ (IsPart(t, task) => task.block_size > 0)
        BY PackedType DEF TypeOK, IsPart
    <2>4. PackedMessage(t, task) \in Message
        BY <2>3, PackedMessageType
    <2>5. chan' \in [Peers -> Seq(Message)]
        BY <1>5, <2>4, TransmitSeq DEF SendUserTask, TypeOK
    <2>6. send_queue' \in [Tasks -> SendTask]
        BY <1>5, <2>3, UpdateSendType DEF SendUserTask, TypeOK
    <2>7. sending' = [sending EXCEPT ![p] =
                            [id |-> t, nested |-> pc[p] = "REPLY", task |-> task]]
        BY <1>5 DEF SendUserTask
    <2>8. pc' = [pc EXCEPT ![p] = "AWAIT"]
          /\ UNCHANGED <<recv_queue, files, up, loop, received, faults>>
        BY <1>5 DEF SendUserTask
    <2> HIDE DEF task
    <2>9. [id |-> t, nested |-> pc[p] = "REPLY", task |-> task]
            \in [id : Tasks \cup {0}, nested : BOOLEAN, task : SendTask]
        BY <2>3, Zenon
    <2>10. pc' \in [Peers -> Points]
        BY <2>8 DEF TypeOK, Points
    <2> QED BY <2>1, <2>2, <2>5, <2>6, <2>7, <2>8, <2>9, <2>10 DEF TypeOK
<1>6. ASSUME NEW p \in Peers, NEW t \in Tasks, SendUserTaskFails(p, t) PROVE TypeOK'
    <2>1. PICK replies \in PendingReplies(p) :
            reply_queue' = [reply_queue EXCEPT ![p] = replies]
        BY <1>6 DEF SendUserTaskFails
    <2>2. replies \in Seq(Control)
        BY PendingRepliesSeq, MessageTypes DEF TypeOK, Peers
    <2>3. send_queue' \in [Tasks -> SendTask]
        BY <1>6, PackedType, FailureType, UpdateSendType DEF SendUserTaskFails, TypeOK
    <2> QED BY <1>6, <2>1, <2>2, <2>3, NoTaskType DEF SendUserTaskFails, AfterSendError, TypeOK
<1>7. ASSUME NEW p \in Peers, NEW t \in Tasks, PackFails(p, t) PROVE TypeOK'
    <2>1. PICK replies \in PendingReplies(p) :
            reply_queue' = [reply_queue EXCEPT ![p] = replies]
        BY <1>7 DEF PackFails
    <2>2. replies \in Seq(Control)
        BY PendingRepliesSeq, MessageTypes DEF TypeOK, Peers
    <2>3. Packed(t, send_queue[t]) \in SendTask
        BY PackedType DEF TypeOK
    <2>4. [Packed(t, send_queue[t]) EXCEPT !.status = "FAULT", !.error_count = -1] \in SendTask
        <3>1. -1 \in -1..MaxErrorCount + 1 /\ "FAULT" \in SendStatus
            BY ConfigAssumption DEF SendStatus
        <3> QED BY <2>3, <3>1 DEF SendTask
    <2>5. send_queue' \in [Tasks -> SendTask]
        BY <1>7, <2>4, UpdateSendType DEF PackFails, TypeOK
    <2>6. faults' \in 0..MaxFaults
        BY <1>7, ConfigAssumption DEF PackFails, TypeOK
    <2> QED BY <1>7, <2>1, <2>2, <2>5, <2>6, NoTaskType DEF PackFails, AfterSendError, TypeOK
<1>8. ASSUME NEW p \in Peers, Receive(p) PROVE TypeOK'
    <2> DEFINE m == Head(chan[p])
    <2>1. m \in Message /\ Tail(chan[p]) \in Seq(Message)
        BY <1>8, CutShortInSeq DEF Receive, TypeOK
    <2>2. chan' \in [Peers -> Seq(Message)]
        BY <1>8, <2>1 DEF Receive, TypeOK
    <2>3. received' \in [Peers -> Received] /\ recv_queue' \in [Tasks -> RecvTask]
            /\ store' \in [Tasks -> Int]
        <3>1. CASE m.type \in ControlTypes
            <4>1. [type |-> m.type, id |-> m.id, status |-> "COMPLETED", pos |-> m.pos] \in Received
                BY <2>1, <3>1 DEF Message, NamesTask, Received, RecvStatus
            <4> QED BY <1>8, <3>1, <4>1 DEF Receive, TypeOK
        <3>2. CASE m.type \notin ControlTypes
            <4>1. m.type \in DataTypes
                BY <2>1, <3>2 DEF Message
            <4>2. m.id \in Tasks
                BY <2>1, <3>2 DEF Message, NamesTask, ControlTypes
            <4>3. m.len \in Int
                BY <2>1 DEF Message
            <4>4. /\ Unpacked(m) \in RecvTask
                  /\ Written(m, m.len) \in Int
                  /\ UserType(m) \in UserTypes
                BY <2>1, <4>1, <4>2, <4>3, UnpackedType DEF TypeOK
            <4>5. [type |-> UserType(m), id |-> m.id, status |-> Unpacked(m).status,
                   pos |-> Unpacked(m).current_position] \in Received
                <5>1. \A type \in UserTypes : \A id \in Tasks : \A task \in RecvTask :
                        [type |-> type, id |-> id, status |-> task.status,
                         pos |-> task.current_position] \in Received
                    BY TasksAssumption DEF Received, NamesTask, RecvTask, UserTypes
                <5> QED BY <4>2, <4>4, <5>1, Zenon
            <4>6. /\ received' = [received EXCEPT ![p] =
                        [type |-> UserType(m), id |-> m.id, status |-> Unpacked(m).status,
                         pos |-> Unpacked(m).current_position]]
                  /\ recv_queue' = [recv_queue EXCEPT ![m.id] = Unpacked(m)]
                  /\ store' = [store EXCEPT ![m.id] = Written(m, m.len)]
                BY <1>8, <3>2 DEF Receive
            <4>7. received' \in [Peers -> Received]
                BY <4>5, <4>6, Zenon DEF TypeOK
            <4>8. recv_queue' \in [Tasks -> RecvTask] /\ store' \in [Tasks -> Int]
                BY <4>2, <4>4, <4>6 DEF TypeOK
            <4> QED BY <4>7, <4>8
        <3> QED BY <3>1, <3>2
    <2> QED BY <1>8, <2>2, <2>3 DEF Receive, TypeOK
<1>9. ASSUME NEW p \in Peers, ReceiveFails(p) PROVE TypeOK'
    BY <1>9, NoAnswerType DEF ReceiveFails, TypeOK
<1>10. ASSUME NEW p \in Peers, ReceiveTimesOut(p) PROVE TypeOK'
    <2>1. faults' \in 0..MaxFaults
        BY <1>10, ConfigAssumption DEF ReceiveTimesOut, TypeOK
    <2> QED BY <1>10, <2>1, NoAnswerType DEF ReceiveTimesOut, TypeOK
<1>11. ASSUME NEW p \in Peers,
              CheckFile(p) \/ ReportPosition(p) \/ AckPart(p) \/ ProcessMessage(p)
       PROVE  TypeOK'
    <2>1. /\ received[p] \in Received
          /\ received[p].id \in Tasks
          /\ received[p].pos \in Position
        BY <1>11 DEF CheckFile, ReportPosition, AckPart, ProcessMessage, Processing,
            FileTypes, TypeOK, Received, NamesTask
    <2>2. \A type \in AnswerTypes : \A pos \in Position :
            NewControl(p, type, received[p].id, pos) \in Control
        BY <2>1, NewControlType, TasksAssumption DEF AnswerTypes
    <2>3. 0 \in Position /\ {"CHECK_PASS", "CHECK_FAILED", "LASTPOS", "REPLY"} \subseteq AnswerTypes
        BY DEF Position, AnswerTypes, ControlTypes
    <2>4. reply_queue' \in [Peers -> Seq(Control)]
        BY <1>11, <2>1, <2>2, <2>3, AddReplySeq
            DEF CheckFile, ReportPosition, AckPart, ProcessMessage, TypeOK
    <2>5. recv_queue' \in [Tasks -> RecvTask]
        BY <1>11, <2>1, <2>3, UpdateRecvType
            DEF CheckFile, ReportPosition, AckPart, ProcessMessage, TypeOK, RecvStatus
    <2>6. delivered' \subseteq Tasks
        BY <1>11, <2>1 DEF CheckFile, ReportPosition, AckPart, ProcessMessage, TypeOK
    <2>7. /\ pc' = [pc EXCEPT ![p] = "REPLY"]
          /\ received' = [received EXCEPT ![p] = Nothing]
          /\ UNCHANGED <<send_queue, chan, up, loop, sending, store, faults>>
        BY <1>11 DEF CheckFile, ReportPosition, AckPart, ProcessMessage, ThenReply
    <2> QED BY <2>4, <2>5, <2>6, <2>7, NothingType DEF TypeOK
<1>12. ASSUME NEW p \in Peers, ProcessAnswer(p) PROVE TypeOK'
    <2> DEFINE id == received[p].id
               task == send_queue[id]
               answered ==
                CASE received[p].type = "LASTPOS" ->
                        [task EXCEPT !.current_position = received[p].pos,
                                     !.error_count = Lesser(@ + 1, MaxErrorCount + 1),
                                     !.status = "PENDING"]
                  [] received[p].type = "CHECK_PASS" -> [task EXCEPT !.status = "CHECKED"]
                  [] received[p].type = "CHECK_FAILED" ->
                        [task EXCEPT !.current_position = 0, !.status = "PENDING"]
                  [] received[p].type = "REPLY" -> Success(id, task)
    <2>1. /\ id \in Tasks
          /\ received[p].pos \in Position
          /\ received[p].type \in {"LASTPOS", "CHECK_PASS", "CHECK_FAILED", "REPLY"}
        BY <1>12 DEF ProcessAnswer, Processing, TypeOK, Received, NamesTask, AnswerTypes, ControlTypes
    <2>2. task \in SendTask
        BY <2>1 DEF TypeOK
    <2>3. Lesser(task.error_count + 1, MaxErrorCount + 1) \in -1..MaxErrorCount + 1
        BY <2>2, ConfigAssumption DEF SendTask, Lesser
    <2>4. Success(id, task) \in SendTask
        BY <2>1, <2>2, SuccessType
    <2>5. answered \in SendTask
        BY <2>1, <2>2, <2>3, <2>4 DEF SendTask, SendStatus, Position
    <2>6. send_queue' = UpdateSend(id, answered)
        BY <1>12 DEF ProcessAnswer
    <2>7. send_queue' \in [Tasks -> SendTask]
        BY <2>1, <2>5, <2>6, UpdateSendType DEF TypeOK
    <2> HIDE DEF answered
    <2> QED BY <1>12, <2>7, NoTaskType, NothingType DEF ProcessAnswer, TypeOK
<1>13. ASSUME NEW p \in Peers, ProcessComplete(p) PROVE TypeOK'
    <2>1. /\ send_queue' \in [Tasks -> SendTask]
          /\ sending' \in [Peers -> [id : Tasks \cup {0}, nested : BOOLEAN, task : SendTask]]
        BY <1>13, NoAnswerType DEF ProcessComplete, TypeOK
    <2>2. pc' \in [Peers -> Points] /\ loop' \in [Peers -> {"SEND", "RECV"}]
        BY <1>13, NoAnswerType DEF ProcessComplete, TypeOK, Points
    <2> QED BY <1>13, <2>1, <2>2, NothingType DEF ProcessComplete, TypeOK
<1>14. ASSUME NEW p \in Peers, NullDereference(p) \/ Crash(p) PROVE TypeOK'
    <2>1. faults' \in 0..MaxFaults
        BY <1>14, ConfigAssumption DEF NullDereference, Crash, TypeOK
    <2>2. /\ Die(p) /\ UNCHANGED <<store, delivered>>
          /\ send_queue' = SendRead(p) /\ recv_queue' = RecvRead(p)
        BY <1>14 DEF NullDereference, Crash
    <2> QED BY <2>1, <2>2, ReadTasks, DieSeq, NoTaskType, NothingType DEF Die, TypeOK
<1>15. ASSUME NEW p \in Peers, NEW t \in Tasks, CrashWhileAdding(p, t) PROVE TypeOK'
    <2>1. faults' \in 0..MaxFaults
        BY <1>15, ConfigAssumption DEF CrashWhileAdding, TypeOK
    <2>2. NewTask(t, "INITIAL") \in SendTask
        BY NewTaskType DEF SendStatus
    <2> QED BY <1>15, <2>1, <2>2, ReadTasks, DieSeq, NoTaskType, NothingType DEF CrashWhileAdding, Die, TypeOK
<1>16. ASSUME NEW p \in Peers, CrashWhileUnpacking(p) PROVE TypeOK'
    <2> DEFINE m == Head(chan[p])
    <2>1. m \in Message
        BY <1>16, CutShortInSeq DEF CrashWhileUnpacking, TypeOK
    <2>2. m.type \in DataTypes /\ m.id \in Tasks /\ m.len \in Int
        BY <1>16, <2>1 DEF CrashWhileUnpacking, Message, NamesTask, DataTypes
    <2>3. \A len \in Int : Written(m, len) \in Int
        BY <2>1, <2>2, UnpackedType DEF TypeOK
    <2>4. store' \in [Tasks -> Int]
        <3>1. PICK len \in 0..Lesser(1, m.len) \cup {m.len} :
                store' = [store EXCEPT ![m.id] =
                            IF m.type = "SMALL_FILE" THEN Corrupt ELSE Written(m, len)]
            BY <1>16 DEF CrashWhileUnpacking
        <3>2. len \in Int
            BY <2>2, <3>1 DEF Lesser
        <3>3. (IF m.type = "SMALL_FILE" THEN Corrupt ELSE Written(m, len)) \in Int
            BY <2>3, <3>2 DEF Corrupt
        <3> QED BY <3>1, <3>3 DEF TypeOK
    <2>5. recv_queue' \in [Tasks -> RecvTask]
        BY <1>16, <2>2, ReadTasks DEF CrashWhileUnpacking, TypeOK, RecvTask, RecvStatus, Position
    <2>6. faults' \in 0..MaxFaults
        BY <1>16, ConfigAssumption DEF CrashWhileUnpacking, TypeOK
    <2>7. Die(p) /\ send_queue' = SendRead(p) /\ UNCHANGED delivered
        BY <1>16 DEF CrashWhileUnpacking
    <2> QED BY <2>4, <2>5, <2>6, <2>7, ReadTasks, DieSeq, NoTaskType, NothingType DEF Die, TypeOK
<1>17. ASSUME NEW p \in Peers, CrashBeforeExtension(p) PROVE TypeOK'
    <2>1. received[p].id \in Tasks /\ received[p].pos \in Position
        BY <1>17 DEF CrashBeforeExtension, CheckPassed, Processing, FileTypes, TypeOK,
            Received, NamesTask
    <2>2. recv_queue' \in [Tasks -> RecvTask]
        BY <1>17, <2>1, UpdateRecvType DEF CrashBeforeExtension, TypeOK, RecvStatus
    <2>3. faults' \in 0..MaxFaults
        BY <1>17, ConfigAssumption DEF CrashBeforeExtension, TypeOK
    <2>4. Die(p) /\ send_queue' = SendRead(p) /\ UNCHANGED <<store, delivered>>
        BY <1>17 DEF CrashBeforeExtension
    <2> QED BY <2>2, <2>3, <2>4, ReadTasks, DieSeq, NoTaskType, NothingType DEF Die, TypeOK
<1>18. CASE Cut
    <2>1. faults' \in 0..MaxFaults
        BY <1>18, ConfigAssumption DEF Cut, TypeOK
    <2>2. chan' \in [Peers -> Seq(Message)]
        BY <1>18, CutShortInSeq DEF Cut, TypeOK, Peers
    <2> QED BY <1>18, <2>1, <2>2 DEF Cut, TypeOK
<1>19. ASSUME NEW t \in Tasks, AddTask(t) \/ DeleteSend(t) \/ DeleteReceive(t)
       PROVE  TypeOK'
    <2>1. NewTask(t, "PENDING") \in SendTask
        BY NewTaskType DEF SendStatus
    <2>2. /\ [send_queue[t] EXCEPT !.status = "DELETED"] \in SendTask
          /\ [recv_queue[t] EXCEPT !.status = "NONE"] \in RecvTask
        <3>1. send_queue[t] \in SendTask /\ recv_queue[t] \in RecvTask
            BY DEF TypeOK
        <3>2. [send_queue[t] EXCEPT !.status = "DELETED"] \in SendTask
            BY <3>1 DEF SendTask, SendStatus
        <3>3. [recv_queue[t] EXCEPT !.status = "NONE"] \in RecvTask
            BY <3>1 DEF RecvTask, RecvStatus
        <3> QED BY <3>2, <3>3
    <2>3. CASE AddTask(t)
        BY <2>1, <2>3 DEF AddTask, TypeOK
    <2>4. CASE DeleteSend(t)
        BY <2>2, <2>4 DEF DeleteSend, TypeOK
    <2>5. CASE DeleteReceive(t)
        BY <2>2, <2>5 DEF DeleteReceive, TypeOK
    <2> QED BY <1>19, <2>3, <2>4, <2>5
<1>20. ASSUME NEW p \in Peers, DeleteAllSend(p) PROVE TypeOK'
    <2>1. send_queue' \in [Tasks -> SendTask]
        <3>1. \A task \in SendTask : [task EXCEPT !.status = "DELETED"] \in SendTask
            BY DEF SendTask, SendStatus
        <3> QED BY <1>20, <3>1 DEF DeleteAllSend, TypeOK
    <2>2. <<>> \in Seq(Control)
        OBVIOUS
    <2> QED BY <1>20, <2>1, <2>2 DEF DeleteAllSend, TypeOK
<1>21. CASE UNCHANGED vars
    BY <1>21 DEF vars, TypeOK
<1> QED
    BY <1>1, <1>2, <1>3, <1>4, <1>5, <1>6, <1>7, <1>8, <1>9, <1>10, <1>11, <1>12,
       <1>13, <1>14, <1>15, <1>16, <1>17, <1>18, <1>19, <1>20, <1>21
       DEF Next, PeerStep, Fault, User

\* Every variable keeps its type; in particular no position, block size or
\* error count ever leaves the range that the comparisons of task_success,
\* task_failure and pack_data assume, whatever answers arrive.
THEOREM TypeCorrect == Spec => []TypeOK
BY TypeInit, TypeNext, PTL DEF Spec

-----------------------------------------------------------------------------
(***************************************************************************)
(* Answers                                                                 *)
(*                                                                         *)
(* What an answer is worth, for every set of tasks, every configuration    *)
(* and any number of faults: a task is CHECKED, or a message COMPLETED,    *)
(* only when its content has been handed over; and as long as the user     *)
(* deletes nothing, no answer and no part names a task that is gone.       *)
(*                                                                         *)
(* Neither fact is inductive alone: an answer may wait in a send queue     *)
(* through several sessions, travel, and be unpacked before it has its     *)
(* effect.  AnswersInv says of all these places what an answer has to be.  *)
(***************************************************************************)
-----------------------------------------------------------------------------
(* The inductive invariant *)

\* Both peers have an entry for the task; its owner has, or had, one.
Known(t) == send_queue[t].status \notin Absent /\ recv_queue[t].status # "NONE"

Submitted(t) == send_queue[t].status # "NONE"

\* An answer is justified by what it says and by whom it names.
Justified(x) ==
    /\ x.type = "CHECK_PASS" => x.id \in delivered
    /\ x.type = "REPLY" /\ Kind[x.id] # "LARGE_FILE" => x.id \in delivered
    /\ x.type \in AnswerTypes /\ ~UserDeletes => Known(x.id)

GoodControl == {c \in Control : Justified(c)}

GoodMessage ==
    {m \in Message :
        /\ Justified(m)
        /\ m.type \in DataTypes =>
            /\ UserType(m) = Kind[m.id]
            /\ Submitted(m.id)
            /\ ~UserDeletes => send_queue[m.id].status \notin Absent
            /\ ~UserDeletes /\ m.type = "LARGE_FILE_PART" => recv_queue[m.id].status # "NONE"}

GoodReceived ==
    {r \in Received :
        /\ Justified(r)
        /\ r.type \in UserTypes =>
            /\ r.type = Kind[r.id]
            /\ r.type = "SMALL_FILE" => r.status = "COMPLETED"
            /\ Submitted(r.id)
            /\ ~UserDeletes => Known(r.id)}

Begun(t, task) == ~UserDeletes /\ task.current_position >= 0 => recv_queue[t].status # "NONE"

\* What a restart may bring back: deleted tasks, as they were.
Acknowledged(t, status) ==
    status = "CHECKED" \/ (status = "COMPLETED" /\ Kind[t] # "LARGE_FILE") => t \in delivered
LeftInv ==
    /\ \A t \in Tasks : send_left[t] # "NONE" =>
            send_queue[t].status = "DELETED" /\ Acknowledged(t, send_left[t])
    /\ ~UserDeletes => \A t \in Tasks : send_left[t] = "NONE" /\ recv_left[t] = "NONE"

AnswersInv ==
    /\ TypeOK
    /\ LeftInv
    /\ reply_queue \in [Peers -> Seq(GoodControl)]
    /\ chan \in [Peers -> Seq(GoodMessage)]
    /\ received \in [Peers -> GoodReceived]
    /\ \A t \in Tasks : Begun(t, send_queue[t])
    /\ \A p \in Peers : sending[p].id # 0 => Begun(sending[p].id, sending[p].task)
    /\ AcknowledgedImpliesDelivered

-----------------------------------------------------------------------------
(* What a good item relies on is never taken back.                         *)

Grows ==
    /\ delivered \subseteq delivered'
    /\ \A t \in Tasks : Submitted(t) => Submitted(t)'
    /\ ~UserDeletes => \A t \in Tasks :
        /\ send_queue[t].status \notin Absent => send_queue'[t].status \notin Absent
        /\ recv_queue[t].status # "NONE" => recv_queue'[t].status # "NONE"

LEMMA UpdateSendKeeps ==
    ASSUME TypeOK, NEW t \in Tasks, NEW task \in SendTask, task.status \notin Absent,
           send_queue' = UpdateSend(t, task)
    PROVE  /\ \A u \in Tasks : send_queue[u].status \notin Absent
                                => send_queue'[u].status \notin Absent
           /\ \A u \in Tasks : Submitted(u) => Submitted(u)'
           /\ \A u \in Tasks :
                send_queue'[u] = IF u = t /\ send_queue[u].status \notin Absent
                                 THEN task ELSE send_queue[u]
<1>1. CASE send_queue[t].status \in Absent
    BY <1>1 DEF UpdateSend, Submitted
<1>2. CASE send_queue[t].status \notin Absent
    <2>1. send_queue' = [send_queue EXCEPT ![t] = task]
        BY <1>2 DEF UpdateSend
    <2>2. \A u \in Tasks : send_queue'[u] = IF u = t THEN task ELSE send_queue[u]
        BY <2>1 DEF TypeOK
    <2> QED BY <1>2, <2>2 DEF Submitted, Absent
<1> QED BY <1>1, <1>2

LEMMA UpdateRecvKeeps ==
    ASSUME TypeOK, NEW t \in Tasks, NEW status \in RecvStatus, status # "NONE", NEW pos,
           recv_queue' = UpdateRecv(t, status, pos)
    PROVE  \A u \in Tasks : recv_queue[u].status # "NONE" => recv_queue'[u].status # "NONE"
BY DEF UpdateRecv, TypeOK

LEMMA NoAnswerKeeps ==
    ASSUME TypeOK, NEW p \in Peers, NoAnswer(p)
    PROVE  /\ \A u \in Tasks : send_queue[u].status \notin Absent
                                => send_queue'[u].status \notin Absent
           /\ \A u \in Tasks : Submitted(u) => Submitted(u)'
           /\ \A u \in Tasks :
                \/ send_queue'[u] = send_queue[u]
                \/ /\ sending[p].id = u
                   /\ send_queue'[u].status = "ERROR"
                   /\ send_queue'[u].current_position = sending[p].task.current_position
<1>1. CASE sending[p].id = 0
    BY <1>1 DEF NoAnswer, Submitted
<1>2. CASE sending[p].id # 0
    <2>1. sending[p].id \in Tasks /\ sending[p].task \in SendTask
        BY <1>2 DEF TypeOK
    <2>2. /\ Failure(sending[p].task) \in SendTask
          /\ Failure(sending[p].task).status = "ERROR"
          /\ Failure(sending[p].task).current_position = sending[p].task.current_position
        BY <2>1, FailureType
    <2>3. send_queue' = UpdateSend(sending[p].id, Failure(sending[p].task))
        BY <1>2 DEF NoAnswer
    <2> QED BY <2>1, <2>2, <2>3, UpdateSendKeeps DEF Absent
<1> QED BY <1>1, <1>2

\* What unpack_data and new_task make of an entry is an entry.
LEMMA UnpackedPresent ==
    ASSUME TypeOK, NEW m \in Message, m.type \in DataTypes
    PROVE  /\ Unpacked(m).status # "NONE"
           /\ m.type = "SMALL_FILE" => Unpacked(m).status = "COMPLETED"
<1>1. CASE m.type = "LARGE_FILE_PART"
    <2>1. m.id \in Tasks /\ recv_queue[m.id] \in RecvTask
        BY <1>1 DEF Message, NamesTask, TypeOK
    <2>2. CASE m.pos # recv_queue[m.id].current_position
        BY <1>1, <2>1, <2>2 DEF Unpacked, RecvTask
    <2>3. CASE m.pos = recv_queue[m.id].current_position
        BY <1>1, <2>3 DEF Unpacked
    <2> QED BY <1>1, <2>2, <2>3
<1>2. CASE m.type # "LARGE_FILE_PART"
    BY <1>2 DEF Unpacked, DataTypes
<1> QED BY <1>1, <1>2

\* What each answer makes of the entry it names.
LEMMA Answered ==
    ASSUME TypeOK, NEW p \in Peers, ProcessAnswer(p)
    PROVE  /\ received[p].id \in Tasks
           /\ send_queue[received[p].id].status \notin Absent
           /\ \A u \in Tasks \ {received[p].id} : send_queue'[u] = send_queue[u]
           /\ send_queue'[received[p].id].status \notin Absent
           /\ send_queue'[received[p].id].status = "CHECKED" => received[p].type = "CHECK_PASS"
           /\ send_queue'[received[p].id].status = "COMPLETED" => received[p].type = "REPLY"
<1> DEFINE id == received[p].id
           task == send_queue[id]
<1>1. /\ id \in Tasks
      /\ received[p].type \in {"LASTPOS", "CHECK_PASS", "CHECK_FAILED", "REPLY"}
    BY DEF ProcessAnswer, Processing, TypeOK, Received, NamesTask, AnswerTypes, ControlTypes
<1>2. task \in SendTask /\ task.status \notin Absent
    BY <1>1 DEF ProcessAnswer, AnswerNamesNothing, Processing, TypeOK
<1>3. PICK answered :
        /\ send_queue' = [send_queue EXCEPT ![id] = answered]
        /\ \/ /\ received[p].type = "LASTPOS"
              /\ answered = [task EXCEPT !.current_position = received[p].pos,
                                         !.error_count = Lesser(@ + 1, MaxErrorCount + 1),
                                         !.status = "PENDING"]
           \/ /\ received[p].type = "CHECK_PASS"
              /\ answered = [task EXCEPT !.status = "CHECKED"]
           \/ /\ received[p].type = "CHECK_FAILED"
              /\ answered = [task EXCEPT !.current_position = 0, !.status = "PENDING"]
           \/ /\ received[p].type = "REPLY"
              /\ answered = Success(id, task)
    BY <1>1, <1>2 DEF ProcessAnswer, UpdateSend
<1>4. /\ received[p].type = "LASTPOS" => answered.status = "PENDING"
      /\ received[p].type = "CHECK_PASS" => answered.status = "CHECKED"
      /\ received[p].type = "CHECK_FAILED" => answered.status = "PENDING"
    BY <1>2, <1>3 DEF SendTask
<1>5. received[p].type = "REPLY" => answered.status \in {"STARTED", "COMPLETED"}
    BY <1>1, <1>2, <1>3, SuccessType
<1>6. send_queue'[id] = answered /\ \A u \in Tasks \ {id} : send_queue'[u] = send_queue[u]
    BY <1>1, <1>3 DEF TypeOK
<1> QED BY <1>1, <1>2, <1>4, <1>5, <1>6 DEF Absent

LEMMA SendReadKeeps ==
    ASSUME TypeOK, NEW p \in Peers, send_queue' = SendRead(p)
    PROVE  /\ \A u \in Tasks : send_queue[u].status \notin Absent
                                => send_queue'[u].status \notin Absent
           /\ \A u \in Tasks : Submitted(u) => Submitted(u)'
BY ReadTasks DEF Submitted

LEMMA GrowsNext == TypeOK /\ [Next]_vars => Grows
<1> SUFFICES ASSUME TypeOK, [Next]_vars PROVE Grows
    OBVIOUS
<1> USE DEF queues, files
<1>1. ASSUME UNCHANGED <<send_queue, recv_queue, delivered>> PROVE Grows
    BY <1>1 DEF Grows, Submitted
<1>2. ASSUME NEW p \in Peers,
             \/ CloseConn(p) \/ SendReply(p) \/ SendReplyFails(p)
             \/ ReportPosition(p) \/ AckPart(p)
      PROVE  Grows
    BY <1>1, <1>2 DEF CloseConn, SendReply, SendReplyFails, ReportPosition, AckPart, ThenReply
<1>3. ASSUME NEW p \in Peers, NEW t \in Tasks,
             SendUserTask(p, t) \/ SendUserTaskFails(p, t) \/ PackFails(p, t)
      PROVE  Grows
    <2>1. Packed(t, send_queue[t]) \in SendTask /\ Packed(t, send_queue[t]).status = "TRANSING"
        BY PackedType DEF TypeOK
    <2>2. /\ Failure(Packed(t, send_queue[t])) \in SendTask
          /\ Failure(Packed(t, send_queue[t])).status = "ERROR"
        BY <2>1, FailureType
    <2>3. [Packed(t, send_queue[t]) EXCEPT !.status = "FAULT", !.error_count = -1] \in SendTask
        <3>1. -1 \in -1..MaxErrorCount + 1 /\ "FAULT" \in SendStatus
            BY ConfigAssumption DEF SendStatus
        <3> QED BY <2>1, <3>1 DEF SendTask
    <2>4. [Packed(t, send_queue[t]) EXCEPT !.status = "FAULT", !.error_count = -1].status = "FAULT"
        BY <2>1 DEF SendTask
    <2>5. PICK task \in SendTask : task.status \notin Absent /\ send_queue' = UpdateSend(t, task)
        BY <1>3, <2>1, <2>2, <2>3, <2>4
            DEF SendUserTask, SendUserTaskFails, PackFails, Absent
    <2>6. UNCHANGED <<recv_queue, delivered>>
        BY <1>3 DEF SendUserTask, SendUserTaskFails, PackFails
    <2> QED BY <2>5, <2>6, UpdateSendKeeps DEF Grows
<1>4. ASSUME NEW p \in Peers, Receive(p) PROVE Grows
    <2> DEFINE m == Head(chan[p])
    <2>1. m \in Message
        BY <1>4, CutShortInSeq DEF Receive, TypeOK
    <2>2. CASE m.type \in ControlTypes
        BY <1>1, <1>4, <2>2 DEF Receive
    <2>3. CASE m.type \notin ControlTypes
        <3>1. m.type \in DataTypes
            BY <2>1, <2>3 DEF Message
        <3>2. recv_queue' = [recv_queue EXCEPT ![m.id] = Unpacked(m)]
            BY <1>4, <2>3 DEF Receive
        <3>3. UNCHANGED <<send_queue, delivered>>
            BY <1>4 DEF Receive
        <3>4. Unpacked(m).status # "NONE"
            BY <2>1, <3>1, UnpackedPresent
        <3>5. \A u \in Tasks : recv_queue[u].status # "NONE" => recv_queue'[u].status # "NONE"
            BY <3>2, <3>4 DEF TypeOK
        <3> QED BY <3>3, <3>5 DEF Grows, Submitted
    <2> QED BY <2>2, <2>3
<1>5. ASSUME NEW p \in Peers, ReceiveFails(p) \/ ReceiveTimesOut(p) \/ ProcessComplete(p)
      PROVE  Grows
    <2>1. UNCHANGED <<recv_queue, delivered>>
        BY <1>5 DEF ReceiveFails, ReceiveTimesOut, ProcessComplete
    <2>2. NoAnswer(p) \/ UNCHANGED send_queue
        BY <1>5 DEF ReceiveFails, ReceiveTimesOut, ProcessComplete
    <2> QED BY <2>1, <2>2, NoAnswerKeeps DEF Grows, Submitted
<1>6. ASSUME NEW p \in Peers, CheckFile(p) \/ ProcessMessage(p) \/ CrashBeforeExtension(p)
      PROVE  Grows
    <2>1. received[p].id \in Tasks
        BY <1>6 DEF CheckFile, ProcessMessage, CrashBeforeExtension, CheckPassed, Processing,
            FileTypes, TypeOK, Received, NamesTask
    <2>2. /\ UNCHANGED send_queue \/ send_queue' = SendRead(p)
          /\ delivered \subseteq delivered'
        BY <1>6 DEF CheckFile, ProcessMessage, CrashBeforeExtension, ThenReply
    <2>3. \/ recv_queue' = UpdateRecv(received[p].id, "CHECKED", received[p].pos)
          \/ recv_queue' = UpdateRecv(received[p].id, "INCONSIST", 0)
          \/ UNCHANGED recv_queue
        BY <1>6 DEF CheckFile, ProcessMessage, CrashBeforeExtension
    <2>4. \A u \in Tasks : recv_queue[u].status # "NONE" => recv_queue'[u].status # "NONE"
        BY <2>1, <2>3, UpdateRecvKeeps DEF RecvStatus
    <2> QED BY <2>2, <2>4, SendReadKeeps DEF Grows, Submitted
<1>7. ASSUME NEW p \in Peers, ProcessAnswer(p) PROVE Grows
    <2>1. UNCHANGED <<recv_queue, delivered>>
        BY <1>7 DEF ProcessAnswer
    <2>2. received[p].id \in Tasks /\ send_queue[received[p].id] \in SendTask
        BY <1>7 DEF ProcessAnswer, Processing, TypeOK, Received, NamesTask, AnswerTypes
    <2>3. \A u \in Tasks : send_queue[u].status \notin Absent
                            => send_queue'[u].status \notin Absent
        BY <1>7, <2>2, Answered DEF Absent, TypeOK
    <2>4. \A u \in Tasks : Submitted(u) => Submitted(u)'
        BY <1>7, Answered DEF Absent, Submitted
    <2> QED BY <2>1, <2>3, <2>4 DEF Grows
<1>8. ASSUME NEW p \in Peers, CrashWhileUnpacking(p) PROVE Grows
    <2>1. send_queue' = SendRead(p) /\ UNCHANGED delivered
        BY <1>8 DEF CrashWhileUnpacking
    <2>2. \/ recv_queue' = RecvRead(p)
          \/ recv_queue' = [recv_queue EXCEPT ![Head(chan[p]).id].status = "PENDING",
                                              ![Head(chan[p]).id].current_position = -1]
        BY <1>8 DEF CrashWhileUnpacking
    <2>3. \A u \in Tasks : recv_queue[u].status # "NONE" => recv_queue'[u].status # "NONE"
        <3>1. CASE recv_queue' = RecvRead(p)
            BY <3>1, ReadTasks
        <3>2. CASE recv_queue' = [recv_queue EXCEPT ![Head(chan[p]).id].status = "PENDING",
                                                    ![Head(chan[p]).id].current_position = -1]
            BY <3>2 DEF TypeOK, RecvTask
        <3> QED BY <2>2, <3>1, <3>2
    <2> QED BY <2>1, <2>3, SendReadKeeps DEF Grows
<1>9. ASSUME NEW t \in Tasks, AddTask(t) \/ \E p \in Peers : CrashWhileAdding(p, t)
      PROVE  Grows
    <2>1. \/ send_queue' = [send_queue EXCEPT ![t] = NewTask(t, "PENDING")]
          \/ send_queue' = [send_queue EXCEPT ![t] = NewTask(t, "INITIAL")]
        BY <1>9 DEF AddTask, CrashWhileAdding
    <2>2. /\ UNCHANGED recv_queue \/ \E p \in Peers : recv_queue' = RecvRead(p)
          /\ UNCHANGED delivered
        BY <1>9 DEF AddTask, CrashWhileAdding
    <2>3. NewTask(t, "PENDING").status \notin Absent /\ NewTask(t, "INITIAL").status \notin Absent
        BY DEF NewTask, Absent
    <2>4. \A u \in Tasks : recv_queue[u].status # "NONE" => recv_queue'[u].status # "NONE"
        <3>1. CASE UNCHANGED recv_queue
            BY <3>1
        <3>2. ASSUME NEW p \in Peers, recv_queue' = RecvRead(p)
              PROVE  \A u \in Tasks : recv_queue[u].status # "NONE" => recv_queue'[u].status # "NONE"
            BY <3>2, ReadTasks
        <3> QED BY <2>2, <3>1, <3>2
    <2> QED BY <2>1, <2>2, <2>3, <2>4 DEF Grows, Submitted, Absent, TypeOK
<1>10. ASSUME \/ \E t \in Tasks : DeleteSend(t) \/ DeleteReceive(t)
              \/ \E p \in Peers : DeleteAllSend(p)
       PROVE  Grows
    <2>1. \A t \in Tasks : send_queue[t] \in SendTask
        BY DEF TypeOK
    <2>2. \A t \in Tasks : \/ send_queue'[t] = send_queue[t]
                          \/ send_queue'[t] = [send_queue[t] EXCEPT !.status = "DELETED"]
        <3>1. CASE \E t \in Tasks : DeleteSend(t)
            BY <3>1 DEF DeleteSend, TypeOK
        <3>2. CASE UNCHANGED send_queue
            BY <3>2
        <3>3. CASE \E p \in Peers : DeleteAllSend(p)
            BY <3>3 DEF DeleteAllSend
        <3> QED BY <1>10, <3>1, <3>2, <3>3 DEF DeleteReceive
    <2>3. \A t \in Tasks : Submitted(t) => Submitted(t)'
        BY <2>1, <2>2 DEF Submitted, SendTask
    <2>4. (UserDeletes /\ UNCHANGED delivered) \/ UNCHANGED <<send_queue, delivered>>
        BY <1>10 DEF DeleteSend, DeleteReceive, DeleteAllSend
    <2>5. UserDeletes
        BY <1>10 DEF DeleteSend, DeleteReceive, DeleteAllSend
    <2> QED BY <2>3, <2>4, <2>5 DEF Grows
<1>11. CASE Connect \/ Cut \/ UNCHANGED vars
    BY <1>1, <1>11 DEF Connect, Cut, vars
<1>12. ASSUME NEW p \in Peers, NullDereference(p) \/ Crash(p) PROVE Grows
    <2>1. /\ send_queue' = SendRead(p) /\ recv_queue' = RecvRead(p)
          /\ UNCHANGED delivered
        BY <1>12 DEF NullDereference, Crash
    <2> QED BY <2>1, SendReadKeeps, ReadTasks DEF Grows
<1> QED BY <1>2, <1>3, <1>4, <1>5, <1>6, <1>7, <1>8, <1>9, <1>10, <1>11, <1>12
        DEF Next, PeerStep, Fault, User

LEMMA Lifted ==
    ASSUME AnswersInv, Grows
    PROVE  /\ \A t \in Tasks : Known(t) /\ ~UserDeletes => Known(t)'
           /\ GoodControl \subseteq GoodControl'
           /\ GoodReceived \subseteq GoodReceived'
           /\ reply_queue \in [Peers -> Seq(GoodControl')]
           /\ chan \in [Peers -> Seq(GoodMessage')]
           /\ received \in [Peers -> GoodReceived']
<1>1. \A t \in Tasks : Known(t) /\ ~UserDeletes => Known(t)'
    BY DEF Grows, Known
<1>2. ASSUME NEW x, x.type \in AnswerTypes => x.id \in Tasks, Justified(x)
      PROVE  Justified(x)'
    BY <1>1, <1>2 DEF Justified, Grows
<1>3. GoodControl \subseteq GoodControl'
    BY <1>2 DEF GoodControl, Control, NamesTask, AnswerTypes
<1>4. GoodMessage \subseteq GoodMessage'
    <2>1. \A m \in Message : m.type \in AnswerTypes \cup DataTypes => m.id \in Tasks
        BY DEF Message, NamesTask, AnswerTypes, DataTypes
    <2> QED BY <1>2, <2>1 DEF GoodMessage, Grows
<1>5. GoodReceived \subseteq GoodReceived'
    <2>1. \A r \in Received : r.type \in AnswerTypes \cup UserTypes => r.id \in Tasks
        BY DEF Received, NamesTask, AnswerTypes, UserTypes
    <2> QED BY <1>1, <1>2, <2>1 DEF GoodReceived, Grows
<1>6. ASSUME NEW p \in Peers
      PROVE  reply_queue[p] \in Seq(GoodControl') /\ chan[p] \in Seq(GoodMessage')
    BY <1>3, <1>4, SeqMonotone DEF AnswersInv
<1> QED BY <1>1, <1>3, <1>5, <1>6 DEF AnswersInv

-----------------------------------------------------------------------------
(* The answers that wait to be sent *)

LEMMA NothingIsGood ==
    /\ \A p : NewControl(p, "COMPLETE_SIG", 0, 0) \in GoodControl
    /\ Nothing \in GoodReceived
<1>1. \A p : NewControl(p, "COMPLETE_SIG", 0, 0) \in Control
    BY NewControlType DEF ControlTypes, Position
<1>2. \A p : NewControl(p, "COMPLETE_SIG", 0, 0).type = "COMPLETE_SIG"
    BY DEF NewControl
<1> QED BY <1>1, <1>2, NothingType
        DEF GoodControl, GoodReceived, Justified, AnswerTypes, UserTypes

\* What next_task chooses from is as good as the queue.
LEMMA PendingRepliesGood ==
    ASSUME AnswersInv, Grows, NEW p \in Peers, NEW replies \in PendingReplies(p)
    PROVE  /\ replies \in Seq(GoodControl)
           /\ replies \in Seq(GoodControl')
<1>1. replies \in Seq(GoodControl)
    BY PendingRepliesSeq, NothingIsGood DEF AnswersInv
<1>2. NewControl(p, "COMPLETE_SIG", 0, 0) \in GoodControl'
    <2>1. GoodControl \subseteq GoodControl'
        BY Lifted
    <2> QED BY <2>1, NothingIsGood
<1>3. reply_queue \in [Peers -> Seq(GoodControl')]
    BY Lifted
<1> QED BY <1>1, <1>2, <1>3, PendingRepliesSeq

\* The user task in hand was unpacked a moment ago.
LEMMA ProcessingGood ==
    ASSUME AnswersInv, NEW p \in Peers, Processing(p, UserTypes)
    PROVE  /\ received[p].id \in Tasks
           /\ received[p].pos \in Position
           /\ received[p].type = Kind[received[p].id]
           /\ received[p].type = "SMALL_FILE" => received[p].status = "COMPLETED"
           /\ ~UserDeletes => Known(received[p].id)
BY DEF AnswersInv, GoodReceived, Processing, Received, NamesTask, UserTypes

LEMMA AnswerQueued ==
    ASSUME AnswersInv, Grows, NEW p \in Peers, NEW type \in AnswerTypes,
           NEW id \in Tasks, NEW pos \in Position,
           AddReply(p, type, id, pos),
           type = "CHECK_PASS" => id \in delivered',
           type = "REPLY" /\ Kind[id] # "LARGE_FILE" => id \in delivered',
           ~UserDeletes => Known(id)
    PROVE  reply_queue' \in [Peers -> Seq(GoodControl')]
<1>1. NewControl(p, type, id, pos) \in Control
    BY NewControlType, TasksAssumption DEF AnswerTypes
<1>2. NewControl(p, type, id, pos).type = type /\ NewControl(p, type, id, pos).id = id
    BY DEF NewControl
<1>3. ~UserDeletes => Known(id)'
    BY Lifted
<1>4. ASSUME NEW c \in Control, c.type = type, c.id = id PROVE c \in GoodControl'
    BY <1>3, <1>4 DEF GoodControl, Justified
<1>5. NewControl(p, type, id, pos) \in GoodControl'
    BY <1>1, <1>2, <1>4
<1> QED BY <1>5, Lifted, AddReplySeq

LEMMA DeadQueue ==
    ASSUME AnswersInv, Grows, NEW p \in Peers, Die(p)
    PROVE  /\ reply_queue' \in [Peers -> Seq(GoodControl')]
           /\ chan' \in [Peers -> Seq(GoodMessage')]
           /\ received' \in [Peers -> GoodReceived']
<1>1. /\ reply_queue' \in [Peers -> Seq(GoodControl')]
      /\ chan' \in [Peers -> Seq(GoodMessage')]
    BY Lifted, DieSeq
<1>2. received' = [received EXCEPT ![p] = Nothing]
    BY DEF Die
<1> QED BY <1>1, <1>2, Lifted, NothingIsGood

LEMMA QueueNext ==
    AnswersInv /\ Grows /\ Next => reply_queue' \in [Peers -> Seq(GoodControl')]
<1> SUFFICES ASSUME AnswersInv, Grows, Next
             PROVE  reply_queue' \in [Peers -> Seq(GoodControl')]
    OBVIOUS
<1> USE DEF queues
<1> DEFINE Goal == reply_queue' \in [Peers -> Seq(GoodControl')]
<1>1. ASSUME UNCHANGED reply_queue PROVE Goal
    BY <1>1, Lifted
<1>2. ASSUME NEW p \in Peers, SendReply(p) PROVE Goal
    <2>1. PICK replies \in PendingReplies(p) : \E i \in 1..Len(replies) :
            reply_queue' = [reply_queue EXCEPT ![p] = Without(replies, i)]
        BY <1>2 DEF SendReply
    <2>2. \A i \in 1..Len(replies) : Without(replies, i) \in Seq(GoodControl')
        BY PendingRepliesGood, WithoutInSeq
    <2> QED BY <2>1, <2>2, Lifted
<1>3. ASSUME NEW p \in Peers, SendReplyFails(p) PROVE Goal
    <2>1. PICK replies \in PendingReplies(p) : \E i \in 1..Len(replies) :
            reply_queue' = [reply_queue EXCEPT ![p] = [replies EXCEPT ![i].error_count =
                                Lesser(@ + 1, MaxErrorCount + 1)]]
        BY <1>3 DEF SendReplyFails
    <2>2. PICK i \in 1..Len(replies) :
            reply_queue' = [reply_queue EXCEPT ![p] = [replies EXCEPT ![i].error_count =
                                Lesser(@ + 1, MaxErrorCount + 1)]]
        BY <2>1
    <2>3. replies \in Seq(GoodControl')
        BY PendingRepliesGood
    <2>4. replies[i] \in GoodControl'
        BY <2>3, ElementOfSeq
    <2>5. Lesser(replies[i].error_count + 1, MaxErrorCount + 1) \in Nat
        BY <2>4, ConfigAssumption DEF GoodControl, Control, Lesser
    <2>6. \A r \in GoodControl' : \A e \in Nat : [r EXCEPT !.error_count = e] \in GoodControl'
        BY MessageTypes DEF GoodControl, Justified, Control
    <2>7. [replies EXCEPT ![i].error_count = Lesser(@ + 1, MaxErrorCount + 1)] \in Seq(GoodControl')
        BY <2>3, <2>4, <2>5, <2>6, FailedReply
    <2> QED BY <2>2, <2>7, Lifted
<1>4. ASSUME NEW p \in Peers, NEW t \in Tasks,
             SendUserTask(p, t) \/ SendUserTaskFails(p, t) \/ PackFails(p, t)
      PROVE  Goal
    <2>1. PICK replies \in PendingReplies(p) :
            reply_queue' = [reply_queue EXCEPT ![p] = replies]
        BY <1>4 DEF SendUserTask, SendUserTaskFails, PackFails
    <2> QED BY <2>1, PendingRepliesGood, Lifted
<1>5. ASSUME NEW p \in Peers, CheckFile(p) PROVE Goal
    <2>1. CASE CheckPassed(p)
        <3>1. Processing(p, UserTypes)
            BY <1>5 DEF CheckFile, Processing, FileTypes, UserTypes
        <3>2. AddReply(p, "CHECK_PASS", received[p].id, 0) /\ received[p].id \in delivered'
            BY <1>5, <2>1 DEF CheckFile
        <3> QED BY <3>1, <3>2, ProcessingGood, AnswerQueued DEF AnswerTypes, ControlTypes, Position
    <2>2. CASE ~CheckPassed(p)
        <3>1. Processing(p, UserTypes)
            BY <1>5 DEF CheckFile, Processing, FileTypes, UserTypes
        <3>2. AddReply(p, "CHECK_FAILED", received[p].id, 0)
            BY <1>5, <2>2 DEF CheckFile
        <3> QED BY <3>1, <3>2, ProcessingGood, AnswerQueued DEF AnswerTypes, ControlTypes, Position
    <2> QED BY <2>1, <2>2
<1>6. ASSUME NEW p \in Peers, ReportPosition(p) PROVE Goal
    <2>1. Processing(p, UserTypes) /\ AddReply(p, "LASTPOS", received[p].id, received[p].pos)
        BY <1>6 DEF ReportPosition, Processing, FileTypes, UserTypes
    <2> QED BY <2>1, ProcessingGood, AnswerQueued DEF AnswerTypes, ControlTypes, Position
<1>7. ASSUME NEW p \in Peers, AckPart(p) PROVE Goal
    <2>1. Processing(p, UserTypes) /\ AddReply(p, "REPLY", received[p].id, 0)
        BY <1>7 DEF AckPart, Processing, FileTypes, UserTypes
    <2>2. Kind[received[p].id] = "LARGE_FILE"
        BY <1>7, <2>1, ProcessingGood DEF AckPart, Processing, FileTypes
    <2> QED BY <2>1, <2>2, ProcessingGood, AnswerQueued DEF AnswerTypes, ControlTypes, Position
<1>8. ASSUME NEW p \in Peers, ProcessMessage(p) PROVE Goal
    <2>1. Processing(p, UserTypes) /\ AddReply(p, "REPLY", received[p].id, 0)
        BY <1>8 DEF ProcessMessage, Processing, UserTypes
    <2>2. received[p].id \in delivered'
        BY <1>8 DEF ProcessMessage
    <2> QED BY <2>1, <2>2, ProcessingGood, AnswerQueued DEF AnswerTypes, ControlTypes, Position
<1>9. ASSUME NEW p \in Peers,
             \/ NullDereference(p) \/ Crash(p) \/ CrashWhileUnpacking(p)
             \/ CrashBeforeExtension(p) \/ \E t \in Tasks : CrashWhileAdding(p, t)
      PROVE  Goal
    BY <1>9, DeadQueue DEF NullDereference, Crash, CrashWhileUnpacking,
        CrashBeforeExtension, CrashWhileAdding
<1>10. ASSUME NEW p \in Peers, DeleteAllSend(p) PROVE Goal
    <2>1. <<>> \in Seq(GoodControl')
        OBVIOUS
    <2> QED BY <1>10, <2>1, Lifted DEF DeleteAllSend
<1>11. ASSUME NEW p \in Peers,
              \/ CloseConn(p) \/ Receive(p) \/ ReceiveFails(p) \/ ReceiveTimesOut(p)
              \/ ProcessAnswer(p) \/ ProcessComplete(p)
       PROVE  Goal
    BY <1>1, <1>11 DEF CloseConn, Receive, ReceiveFails, ReceiveTimesOut,
        ProcessAnswer, ProcessComplete
<1>12. CASE Connect \/ Cut \/ \E t \in Tasks : AddTask(t) \/ DeleteSend(t) \/ DeleteReceive(t)
    BY <1>1, <1>12 DEF Connect, Cut, AddTask, DeleteSend, DeleteReceive
<1> QED BY <1>2, <1>3, <1>4, <1>5, <1>6, <1>7, <1>8, <1>9, <1>10, <1>11, <1>12
        DEF Next, PeerStep, Fault, User

-----------------------------------------------------------------------------
(* The messages in flight *)

\* A user task goes out as a message of its kind, and its parts only once
\* the receiver has an entry to add them to.
LEMMA DataGood ==
    ASSUME AnswersInv, Grows, NEW p \in Peers, NEW t \in Tasks, SendUserTask(p, t)
    PROVE  PackedMessage(t, Packed(t, send_queue[t])) \in GoodMessage'
<1> DEFINE task == Packed(t, send_queue[t])
           m == PackedMessage(t, task)
<1>1. /\ task \in SendTask /\ task.current_position = send_queue[t].current_position
      /\ IsPart(t, task) => task.block_size > 0
    BY PackedType DEF AnswersInv, TypeOK, IsPart
<1> HIDE DEF task
<1>2. m \in Message
    BY <1>1, PackedMessageType
<1>3. /\ m.id = t
      /\ UserType(m) = Kind[t] /\ m.type \notin AnswerTypes
      /\ m.type = "LARGE_FILE_PART" => IsPart(t, task)
    <2>1. CASE IsPart(t, task)
        BY <2>1 DEF PackedMessage, UserType, AnswerTypes, ControlTypes, IsPart
    <2>2. CASE ~IsPart(t, task)
        BY <2>2, TasksAssumption
            DEF PackedMessage, UserType, AnswerTypes, ControlTypes, UserTypes
    <2> QED BY <2>1, <2>2
<1> HIDE DEF m
<1>4. send_queue[t].status \notin Absent
    BY <1>1 DEF SendUserTask, PicksTask, Candidates, Absent
<1>5. ~UserDeletes => send_queue'[t].status \notin Absent
    BY <1>4 DEF Grows
<1>6. Submitted(t)'
    BY <1>4 DEF Grows, Submitted, Absent
<1>7. ~UserDeletes /\ IsPart(t, task) => recv_queue'[t].status # "NONE"
    BY <1>1 DEF IsPart, AnswersInv, Begun, Grows
<1>8. ASSUME NEW x \in Message, x = m PROVE x \in GoodMessage'
    BY <1>3, <1>5, <1>6, <1>7, <1>8 DEF GoodMessage, Justified, AnswerTypes, ControlTypes
<1> QED BY <1>2, <1>8 DEF m, task

LEMMA ReplyGood ==
    ASSUME AnswersInv, Grows, NEW r \in GoodControl'
    PROVE  ReplyMessage(r) \in GoodMessage'
<1>1. r \in Control /\ Justified(r)'
    BY DEF GoodControl
<1>2. ReplyMessage(r) \in Message
    BY <1>1, MessageTypes
<1>3. ReplyMessage(r).type = r.type /\ ReplyMessage(r).id = r.id
    BY DEF ReplyMessage
<1>4. r.type \notin DataTypes
    BY <1>1 DEF Control, ControlTypes, DataTypes
<1>5. ASSUME NEW m \in Message, m.type = r.type, m.id = r.id PROVE m \in GoodMessage'
    BY <1>1, <1>4, <1>5 DEF GoodMessage, Justified
<1> QED BY <1>2, <1>3, <1>5

LEMMA ChannelNext ==
    AnswersInv /\ Grows /\ Next => chan' \in [Peers -> Seq(GoodMessage')]
<1> SUFFICES ASSUME AnswersInv, Grows, Next
             PROVE  chan' \in [Peers -> Seq(GoodMessage')]
    OBVIOUS
<1> DEFINE Goal == chan' \in [Peers -> Seq(GoodMessage')]
<1>1. ASSUME UNCHANGED chan PROVE Goal
    BY <1>1, Lifted
<1>2. CASE Connect
    <2>1. <<>> \in Seq(GoodMessage')
        OBVIOUS
    <2> QED BY <1>2, <2>1 DEF Connect
<1>3. ASSUME NEW p \in Peers, CloseConn(p) PROVE Goal
    BY <1>3, Lifted, DisconnectSeq DEF CloseConn
<1>4. ASSUME NEW p \in Peers, SendReply(p) PROVE Goal
    <2>1. PICK replies \in PendingReplies(p) : \E i \in 1..Len(replies) :
            Transmit(p, ReplyMessage(replies[i]))
        BY <1>4 DEF SendReply
    <2>2. \A i \in 1..Len(replies) : replies[i] \in GoodControl'
        BY PendingRepliesGood, ElementOfSeq
    <2> QED BY <2>1, <2>2, ReplyGood, Lifted, TransmitSeq
<1>5. ASSUME NEW p \in Peers, NEW t \in Tasks, SendUserTask(p, t) PROVE Goal
    <2>1. Transmit(p, PackedMessage(t, Packed(t, send_queue[t])))
        BY <1>5 DEF SendUserTask
    <2> QED BY <1>5, <2>1, DataGood, Lifted, TransmitSeq
<1>6. ASSUME NEW p \in Peers, Receive(p) PROVE Goal
    <2>1. Tail(chan[p]) \in Seq(GoodMessage')
        BY <1>6, Lifted, CutShortInSeq DEF Receive
    <2> QED BY <1>6, <2>1, Lifted DEF Receive
<1>7. ASSUME NEW p \in Peers,
             \/ NullDereference(p) \/ Crash(p) \/ CrashWhileUnpacking(p)
             \/ CrashBeforeExtension(p) \/ \E t \in Tasks : CrashWhileAdding(p, t)
      PROVE  Goal
    BY <1>7, DeadQueue DEF NullDereference, Crash, CrashWhileUnpacking,
        CrashBeforeExtension, CrashWhileAdding
<1>8. CASE Cut
    BY <1>8, Lifted, CutShortInSeq DEF Cut, Peers
<1>9. ASSUME NEW p \in Peers,
             \/ SendReplyFails(p)
             \/ \E t \in Tasks : SendUserTaskFails(p, t) \/ PackFails(p, t)
             \/ ReceiveFails(p) \/ ReceiveTimesOut(p)
             \/ CheckFile(p) \/ ReportPosition(p) \/ AckPart(p) \/ ProcessMessage(p)
             \/ ProcessAnswer(p) \/ ProcessComplete(p) \/ DeleteAllSend(p)
      PROVE  Goal
    BY <1>1, <1>9 DEF SendReplyFails, SendUserTaskFails, PackFails, ReceiveFails,
        ReceiveTimesOut, CheckFile, ReportPosition, AckPart, ProcessMessage, ThenReply,
        ProcessAnswer, ProcessComplete, DeleteAllSend
<1>10. ASSUME NEW t \in Tasks, AddTask(t) \/ DeleteSend(t) \/ DeleteReceive(t) PROVE Goal
    BY <1>1, <1>10 DEF AddTask, DeleteSend, DeleteReceive
<1> QED BY <1>2, <1>3, <1>4, <1>5, <1>6, <1>7, <1>8, <1>9, <1>10
        DEF Next, PeerStep, Fault, User

-----------------------------------------------------------------------------
(* The task that is being processed *)

LEMMA ReceivedNext ==
    AnswersInv /\ Grows /\ Next => received' \in [Peers -> GoodReceived']
<1> SUFFICES ASSUME AnswersInv, Grows, Next
             PROVE  received' \in [Peers -> GoodReceived']
    OBVIOUS
<1> DEFINE Goal == received' \in [Peers -> GoodReceived']
<1>1. ASSUME UNCHANGED received PROVE Goal
    BY <1>1, Lifted
<1>2. ASSUME NEW p \in Peers, received' = [received EXCEPT ![p] = Nothing] PROVE Goal
    BY <1>2, Lifted, NothingIsGood
<1>3. ASSUME NEW p \in Peers, Receive(p) PROVE Goal
    <2>1. PICK m \in GoodMessage : m = Head(chan[p])
        BY <1>3, CutShortInSeq DEF Receive, AnswersInv
    <2>2. m \in Message /\ Justified(m)
        BY <2>1 DEF GoodMessage
    <2>3. PICK r : received' = [received EXCEPT ![p] = r]
                   /\ IF m.type \in ControlTypes
                      THEN r = [type |-> m.type, id |-> m.id, status |-> "COMPLETED",
                                pos |-> m.pos]
                      ELSE /\ r = [type |-> UserType(m), id |-> m.id,
                                   status |-> Unpacked(m).status,
                                   pos |-> Unpacked(m).current_position]
                           /\ recv_queue' = [recv_queue EXCEPT ![m.id] = Unpacked(m)]
                           /\ send_queue' = send_queue
        BY <1>3, <2>1 DEF Receive
    <2>4. received' \in [Peers -> Received]
        BY <1>3, TypeNext DEF AnswersInv, TypeOK
    <2>5. r \in Received
        BY <2>3, <2>4, Lifted
    <2>6. CASE m.type \in ControlTypes
        <3>1. r.type = m.type /\ r.id = m.id /\ r.type \notin UserTypes
            BY <2>3, <2>6 DEF ControlTypes, UserTypes
        <3>2. Justified(r)
            BY <2>2, <3>1 DEF Justified
        <3>3. r \in GoodReceived
            BY <2>5, <3>1, <3>2 DEF GoodReceived
        <3> QED BY <2>3, <3>3, Lifted
    <2>7. CASE m.type \notin ControlTypes
        <3>1. m.type \in DataTypes
            BY <2>2, <2>7 DEF Message
        <3>2. m.id \in Tasks
            BY <2>2, <2>7 DEF Message, NamesTask, ControlTypes
        <3>3. Unpacked(m).status # "NONE"
              /\ (m.type = "SMALL_FILE" => Unpacked(m).status = "COMPLETED")
            BY <2>2, <3>1, UnpackedPresent DEF AnswersInv
        <3>4. ~UserDeletes => Known(m.id)'
            <4>1. recv_queue'[m.id].status # "NONE"
                BY <2>3, <2>7, <3>2, <3>3 DEF AnswersInv, TypeOK
            <4>2. ~UserDeletes => send_queue'[m.id].status \notin Absent
                BY <2>1, <2>3, <2>7, <3>1 DEF GoodMessage
            <4> QED BY <4>1, <4>2 DEF Known
        <3>5. Submitted(m.id)'
            BY <2>1, <3>1, <3>2 DEF GoodMessage, Grows
        <3>6. /\ r.id = m.id
              /\ r.type = UserType(m) /\ r.type = Kind[r.id]
              /\ r.type = "SMALL_FILE" => r.status = "COMPLETED"
              /\ r.type \notin AnswerTypes
            BY <2>1, <2>3, <2>7, <3>1, <3>3
                DEF GoodMessage, UserType, DataTypes, AnswerTypes, ControlTypes
        <3>7. Justified(r)'
            BY <3>6 DEF Justified, AnswerTypes, ControlTypes
        <3>8. r \in GoodReceived'
            BY <2>5, <3>4, <3>6, <3>7, <3>5 DEF GoodReceived
        <3> QED BY <2>3, <3>8, Lifted
    <2> QED BY <2>6, <2>7
<1>4. ASSUME NEW p \in Peers,
             \/ CheckFile(p) \/ ReportPosition(p) \/ AckPart(p) \/ ProcessMessage(p)
             \/ ProcessAnswer(p) \/ ProcessComplete(p)
      PROVE  Goal
    BY <1>2, <1>4 DEF CheckFile, ReportPosition, AckPart, ProcessMessage, ThenReply,
        ProcessAnswer, ProcessComplete
<1>5. ASSUME NEW p \in Peers,
             \/ NullDereference(p) \/ Crash(p) \/ CrashWhileUnpacking(p)
             \/ CrashBeforeExtension(p) \/ \E t \in Tasks : CrashWhileAdding(p, t)
      PROVE  Goal
    BY <1>5, DeadQueue DEF NullDereference, Crash, CrashWhileUnpacking,
        CrashBeforeExtension, CrashWhileAdding
<1>6. ASSUME NEW p \in Peers,
             \/ CloseConn(p) \/ SendReply(p) \/ SendReplyFails(p) \/ DeleteAllSend(p)
             \/ \E t \in Tasks : \/ SendUserTask(p, t) \/ SendUserTaskFails(p, t)
                                 \/ PackFails(p, t)
             \/ ReceiveFails(p) \/ ReceiveTimesOut(p)
      PROVE  Goal
    BY <1>1, <1>6 DEF CloseConn, SendReply, SendReplyFails, DeleteAllSend, SendUserTask,
        SendUserTaskFails, PackFails, ReceiveFails, ReceiveTimesOut
<1>7. CASE Connect \/ Cut \/ \E t \in Tasks : AddTask(t) \/ DeleteSend(t) \/ DeleteReceive(t)
    BY <1>1, <1>7 DEF Connect, Cut, AddTask, DeleteSend, DeleteReceive
<1> QED BY <1>3, <1>4, <1>5, <1>6, <1>7 DEF Next, PeerStep, Fault, User

-----------------------------------------------------------------------------
(* The entries of the send queues, and the copies of them *)

\* An entry is finished by an answer that names it and by nothing else; any
\* other step leaves its position, or that of the copy it writes back.
Carried(t) ==
    \/ send_queue'[t].current_position = send_queue[t].current_position
    \/ send_queue'[t].current_position = -1
    \/ \E p \in Peers : /\ sending[p].id = t
                        /\ send_queue'[t].current_position = sending[p].task.current_position

\* A restart has brought the task back.
ReadAgain(t) ==
    /\ send_left[t] # "NONE"
    /\ send_queue'[t] = [send_queue[t] EXCEPT !.status = send_left[t]]
    /\ send_queue'[t].status = send_left[t]
    /\ send_queue'[t].current_position = send_queue[t].current_position
    /\ sending'[Owner[t]].id = 0

\* What the ends of a process have in common.
LEMMA CrashReads ==
    ASSUME TypeOK, NEW p \in Peers,
           NullDereference(p) \/ Crash(p) \/ CrashWhileUnpacking(p) \/ CrashBeforeExtension(p),
           NEW t \in Tasks
    PROVE  /\ send_queue' = SendRead(p)
           /\ send_queue'[t] = send_queue[t] \/ ReadAgain(t)
<1>1. send_queue' = SendRead(p) /\ Die(p)
    BY DEF NullDereference, Crash, CrashWhileUnpacking, CrashBeforeExtension
<1>2. sending'[p].id = 0
    BY <1>1, NoTaskType DEF Die, TypeOK
<1>3. \/ send_queue'[t] = send_queue[t]
      \/ /\ Owner[t] = p /\ send_left[t] # "NONE"
         /\ send_queue'[t] = [send_queue[t] EXCEPT !.status = send_left[t]]
         /\ send_queue'[t].status = send_left[t]
         /\ send_queue'[t].current_position = send_queue[t].current_position
    BY <1>1, ReadTasks
<1> QED BY <1>1, <1>2, <1>3 DEF ReadAgain

LEMMA EntryStep ==
    ASSUME TypeOK, [Next]_vars, NEW t \in Tasks
    PROVE  \/ send_queue'[t] = send_queue[t]
           \/ send_queue'[t].status \notin {"CHECKED", "COMPLETED"} /\ Carried(t)
           \/ \E p \in Peers : ProcessAnswer(p) /\ received[p].id = t
           \/ ReadAgain(t)
<1> DEFINE Goal == \/ send_queue'[t] = send_queue[t]
                   \/ send_queue'[t].status \notin {"CHECKED", "COMPLETED"} /\ Carried(t)
                   \/ \E p \in Peers : ProcessAnswer(p) /\ received[p].id = t
                   \/ ReadAgain(t)
<1> USE DEF queues
<1>1. ASSUME NEW p \in Peers, NEW u \in Tasks,
             SendUserTask(p, u) \/ SendUserTaskFails(p, u) \/ PackFails(p, u)
      PROVE  Goal
    <2> DEFINE task == Packed(u, send_queue[u])
    <2>1. /\ task \in SendTask /\ task.status = "TRANSING"
          /\ task.current_position = send_queue[u].current_position
        BY PackedType DEF TypeOK
    <2> HIDE DEF task
    <2>2. /\ Failure(task) \in SendTask /\ Failure(task).status = "ERROR"
          /\ Failure(task).current_position = send_queue[u].current_position
        BY <2>1, FailureType
    <2> DEFINE fault == [task EXCEPT !.status = "FAULT", !.error_count = -1]
    <2>3. /\ fault \in SendTask /\ fault.status = "FAULT"
          /\ fault.current_position = send_queue[u].current_position
        <3>1. -1 \in -1..MaxErrorCount + 1 /\ "FAULT" \in SendStatus
            BY ConfigAssumption DEF SendStatus
        <3> QED BY <2>1, <3>1 DEF SendTask
    <2> HIDE DEF fault
    <2>4. \/ send_queue' = UpdateSend(u, task)
          \/ send_queue' = UpdateSend(u, Failure(task))
          \/ send_queue' = UpdateSend(u, fault)
        BY <1>1 DEF SendUserTask, SendUserTaskFails, PackFails, task, fault
    <2> QED BY <2>1, <2>2, <2>3, <2>4, UpdateSendKeeps DEF Absent, Carried
<1>2. ASSUME NEW p \in Peers, ReceiveFails(p) \/ ReceiveTimesOut(p) \/ ProcessComplete(p)
      PROVE  Goal
    <2>1. NoAnswer(p) \/ UNCHANGED send_queue
        BY <1>2 DEF ReceiveFails, ReceiveTimesOut, ProcessComplete
    <2> QED BY <2>1, NoAnswerKeeps DEF Carried
<1>3. ASSUME NEW p \in Peers, ProcessAnswer(p) PROVE Goal
    BY <1>3, Answered
<1>4. ASSUME NEW u \in Tasks, AddTask(u) \/ \E p \in Peers : CrashWhileAdding(p, u)
      PROVE  Goal
    <2>1. PICK new : /\ send_queue' = [send_queue EXCEPT ![u] = new]
                     /\ new = NewTask(u, "PENDING") \/ new = NewTask(u, "INITIAL")
        BY <1>4 DEF AddTask, CrashWhileAdding
    <2>2. new.status \notin {"CHECKED", "COMPLETED"} /\ new.current_position = -1
        BY <2>1 DEF NewTask
    <2> QED BY <2>1, <2>2 DEF Carried, TypeOK
<1>5. ASSUME \/ \E u \in Tasks : DeleteSend(u)
             \/ \E p \in Peers : DeleteAllSend(p)
      PROVE  Goal
    <2>1. send_queue[t] \in SendTask
        BY DEF TypeOK
    <2>2. \/ send_queue'[t] = send_queue[t]
          \/ send_queue'[t] = [send_queue[t] EXCEPT !.status = "DELETED"]
        BY <1>5 DEF DeleteSend, DeleteAllSend, TypeOK
    <2> QED BY <2>1, <2>2 DEF Carried, SendTask
<1>6. ASSUME UNCHANGED send_queue PROVE Goal
    BY <1>6
<1>7. ASSUME NEW p \in Peers,
             \/ CloseConn(p) \/ SendReply(p) \/ SendReplyFails(p) \/ Receive(p)
             \/ CheckFile(p) \/ ReportPosition(p) \/ AckPart(p) \/ ProcessMessage(p)
      PROVE  Goal
    BY <1>6, <1>7 DEF CloseConn, SendReply, SendReplyFails, Receive, CheckFile,
        ReportPosition, AckPart, ProcessMessage, ThenReply
<1>8. CASE Connect \/ Cut \/ UNCHANGED vars \/ \E u \in Tasks : DeleteReceive(u)
    BY <1>6, <1>8 DEF Connect, Cut, vars, DeleteReceive
<1>9. ASSUME NEW p \in Peers,
             NullDereference(p) \/ Crash(p) \/ CrashWhileUnpacking(p) \/ CrashBeforeExtension(p)
      PROVE  Goal
    BY <1>9, CrashReads
<1> QED BY <1>1, <1>2, <1>3, <1>4, <1>5, <1>7, <1>8, <1>9 DEF Next, PeerStep, Fault, User

\* The copy that send_task waits with is of the entry as it was.
LEMMA CopyStep ==
    ASSUME TypeOK, Next, NEW p \in Peers
    PROVE  \/ sending'[p] = sending[p]
           \/ sending'[p].id = 0
           \/ \E t \in Tasks :
                /\ SendUserTask(p, t)
                /\ sending'[p].id = t
                /\ sending'[p].task.current_position = send_queue[t].current_position
<1> DEFINE Goal == \/ sending'[p] = sending[p]
                   \/ sending'[p].id = 0
                   \/ \E t \in Tasks :
                        /\ SendUserTask(p, t)
                        /\ sending'[p].id = t
                        /\ sending'[p].task.current_position = send_queue[t].current_position
<1>1. ASSUME NEW q \in Peers, NEW t \in Tasks, SendUserTask(q, t) PROVE Goal
    <2>1. sending' = [sending EXCEPT ![q] =
                        [id |-> t, nested |-> pc[q] = "REPLY", task |-> Packed(t, send_queue[t])]]
        BY <1>1 DEF SendUserTask
    <2>2. Packed(t, send_queue[t]).current_position = send_queue[t].current_position
        BY PackedType DEF TypeOK
    <2>3. CASE p = q
        <3>1. /\ sending'[p].id = t
              /\ sending'[p].task = Packed(t, send_queue[t])
            BY <2>1, <2>3 DEF TypeOK
        <3> QED BY <1>1, <2>2, <2>3, <3>1
    <2>4. CASE p # q
        BY <2>1, <2>4 DEF TypeOK
    <2> QED BY <2>3, <2>4
<1>2. ASSUME NEW q \in Peers,
             sending' = [sending EXCEPT ![q] = NoTask] \/ UNCHANGED sending
      PROVE  Goal
    BY <1>2, NoTaskType DEF TypeOK
<1>3. ASSUME NEW q \in Peers,
             \/ SendReply(q) \/ SendReplyFails(q)
             \/ \E t \in Tasks : SendUserTaskFails(q, t) \/ PackFails(q, t)
      PROVE  Goal
    BY <1>2, <1>3 DEF SendReply, AfterReplySent, SendReplyFails, SendUserTaskFails,
        PackFails, AfterSendError
<1>4. ASSUME NEW q \in Peers,
             ReceiveFails(q) \/ ReceiveTimesOut(q) \/ ProcessAnswer(q) \/ ProcessComplete(q)
      PROVE  Goal
    BY <1>2, <1>4 DEF ReceiveFails, ReceiveTimesOut, NoAnswer, ProcessAnswer, ProcessComplete
<1>5. ASSUME NEW q \in Peers,
             \/ NullDereference(q) \/ Crash(q) \/ CrashWhileUnpacking(q)
             \/ CrashBeforeExtension(q) \/ \E t \in Tasks : CrashWhileAdding(q, t)
      PROVE  Goal
    BY <1>2, <1>5 DEF NullDereference, Crash, CrashWhileUnpacking, CrashBeforeExtension,
        CrashWhileAdding, Die
<1>6. ASSUME NEW q \in Peers,
             \/ CloseConn(q) \/ Receive(q) \/ CheckFile(q) \/ ReportPosition(q)
             \/ AckPart(q) \/ ProcessMessage(q) \/ DeleteAllSend(q)
      PROVE  Goal
    BY <1>2, <1>6 DEF CloseConn, Receive, CheckFile, ReportPosition, AckPart,
        ProcessMessage, ThenReply, DeleteAllSend
<1>7. CASE Connect \/ Cut \/ \E t \in Tasks : AddTask(t) \/ DeleteSend(t) \/ DeleteReceive(t)
    BY <1>2, <1>7 DEF Connect, Cut, AddTask, DeleteSend, DeleteReceive
<1> QED BY <1>1, <1>3, <1>4, <1>5, <1>6, <1>7 DEF Next, PeerStep, Fault, User

\* The answer in hand names an entry, and what it says is so.
LEMMA AnswerGood ==
    ASSUME AnswersInv, NEW p \in Peers, ProcessAnswer(p)
    PROVE  /\ received[p].type \in AnswerTypes
           /\ Justified(received[p])
BY DEF AnswersInv, GoodReceived, ProcessAnswer, Processing

-----------------------------------------------------------------------------
(* The theorems *)

\* What the file still holds of a task is what the queue held of it, and the
\* entry stays as it is until the file is written or read.
LEMMA SendLeftStep ==
    ASSUME AnswersInv, [Next]_vars, NEW t \in Tasks, send_left'[t] # "NONE"
    PROVE  \/ send_left'[t] = send_left[t] /\ send_queue'[t] = send_queue[t]
           \/ /\ UserDeletes
              /\ send_left'[t] = send_queue[t].status
              /\ send_queue[t].status \notin Absent
              /\ send_queue'[t] = [send_queue[t] EXCEPT !.status = "DELETED"]
<1> DEFINE Goal == \/ send_left'[t] = send_left[t] /\ send_queue'[t] = send_queue[t]
                   \/ /\ UserDeletes
                      /\ send_left'[t] = send_queue[t].status
                      /\ send_queue[t].status \notin Absent
                      /\ send_queue'[t] = [send_queue[t] EXCEPT !.status = "DELETED"]
<1>1. TypeOK /\ LeftInv
    BY DEF AnswersInv
<1> USE DEF queues
<1>2. ASSUME UNCHANGED <<send_queue, send_left>> PROVE Goal
    BY <1>2
<1>3. ASSUME NEW p \in Peers, WriteSend(p) PROVE Owner[t] # p /\ send_left'[t] = send_left[t]
    BY <1>3 DEF WriteSend
<1>4. ASSUME NEW p \in Peers, WriteSend(p), send_left[t] # "NONE" => send_queue'[t] = send_queue[t]
      PROVE  Goal
    BY <1>3, <1>4
<1>5. ASSUME NEW u \in Tasks, NEW new, send_queue' = UpdateSend(u, new), send_left[t] # "NONE"
      PROVE  send_queue'[t] = send_queue[t]
    BY <1>1, <1>5 DEF UpdateSend, LeftInv, Absent, TypeOK
<1>6. ASSUME NEW p \in Peers, NEW u \in Tasks,
             SendUserTask(p, u) \/ SendUserTaskFails(p, u) \/ PackFails(p, u)
      PROVE  Goal
    <2>1. WriteSend(p) /\ \E new : send_queue' = UpdateSend(u, new)
        BY <1>6 DEF SendUserTask, SendUserTaskFails, PackFails
    <2> QED BY <1>4, <1>5, <2>1
<1>7. ASSUME NEW p \in Peers, ReceiveFails(p) \/ ReceiveTimesOut(p) \/ ProcessComplete(p)
      PROVE  Goal
    <2>1. CASE NoAnswer(p) /\ sending[p].id # 0
        <3>1. sending[p].id \in Tasks
            BY <1>1, <2>1 DEF TypeOK
        <3>2. send_left[t] # "NONE" => send_queue'[t] = send_queue[t]
            BY <1>5, <2>1, <3>1 DEF NoAnswer
        <3>3. WriteSend(p) \/ (UNCHANGED send_left /\ send_queue[sending[p].id].status \in Absent)
            BY <2>1 DEF NoAnswer
        <3>4. CASE UNCHANGED send_left /\ send_queue[sending[p].id].status \in Absent
            <4>1. UNCHANGED send_queue
                BY <2>1, <3>4 DEF NoAnswer, UpdateSend
            <4> QED BY <1>2, <3>4, <4>1
        <3> QED BY <1>4, <3>2, <3>3, <3>4
    <2>2. CASE ~(NoAnswer(p) /\ sending[p].id # 0)
        <3>1. UNCHANGED <<send_queue, send_left>>
            BY <1>7, <2>2 DEF ReceiveFails, ReceiveTimesOut, ProcessComplete, NoAnswer
        <3> QED BY <1>2, <3>1
    <2> QED BY <2>1, <2>2
<1>8. ASSUME NEW p \in Peers, ProcessAnswer(p) PROVE Goal
    <2>1. received[p].id \in Tasks
        BY <1>1, <1>8, Answered
    <2>2. WriteSend(p) /\ \E new : send_queue' = UpdateSend(received[p].id, new)
        BY <1>8 DEF ProcessAnswer
    <2> QED BY <1>4, <1>5, <2>1, <2>2
<1>9. ASSUME NEW u \in Tasks, AddTask(u) \/ \E p \in Peers : CrashWhileAdding(p, u)
      PROVE  Goal
    <2>1. /\ \E p \in Peers : WriteSend(p)
          /\ send_queue[u].status = "NONE"
          /\ \E new : send_queue' = [send_queue EXCEPT ![u] = new]
        BY <1>9, TasksAssumption DEF AddTask, CrashWhileAdding, Die
    <2>2. send_left[t] # "NONE" => send_queue'[t] = send_queue[t]
        BY <1>1, <2>1 DEF LeftInv, TypeOK
    <2> QED BY <1>4, <2>1, <2>2
<1>10. ASSUME NEW u \in Tasks, DeleteSend(u) PROVE Goal
    <2>1. send_queue' = [send_queue EXCEPT ![u].status = "DELETED"]
          /\ send_queue[u].status \notin Absent /\ UserDeletes
        BY <1>10 DEF DeleteSend
    <2>2. CASE WriteSend(Owner[u])
        <3>1. send_left[t] # "NONE" => t # u
            BY <1>1, <2>1 DEF LeftInv, Absent
        <3> QED BY <1>1, <1>4, <2>1, <2>2, <3>1, TasksAssumption DEF TypeOK
    <2>3. CASE send_left' = [send_left EXCEPT ![u] = send_queue[u].status]
        BY <1>1, <2>1, <2>3 DEF TypeOK
    <2> QED BY <1>10, <2>2, <2>3 DEF DeleteSend
<1>11. ASSUME NEW p \in Peers, DeleteAllSend(p) PROVE Goal
    <2>1. send_left[t] # "NONE" => send_queue'[t] = send_queue[t]
        BY <1>1, <1>11 DEF DeleteAllSend, LeftInv, Absent
    <2> QED BY <1>4, <1>11, <2>1 DEF DeleteAllSend
<1>12. ASSUME NEW p \in Peers,
             NullDereference(p) \/ Crash(p) \/ CrashWhileUnpacking(p) \/ CrashBeforeExtension(p)
       PROVE  Goal
    <2>1. WriteSend(p) /\ send_queue' = SendRead(p)
        BY <1>12 DEF NullDereference, Crash, CrashWhileUnpacking, CrashBeforeExtension, Die
    <2>2. Owner[t] # p /\ send_left'[t] = send_left[t]
        BY <1>3, <2>1
    <2>3. send_queue'[t] = send_queue[t]
        BY <1>1, <2>1, <2>2, ReadTasks
    <2> QED BY <2>2, <2>3
<1>13. ASSUME NEW p \in Peers,
             \/ CloseConn(p) \/ SendReply(p) \/ SendReplyFails(p) \/ Receive(p)
             \/ CheckFile(p) \/ ReportPosition(p) \/ AckPart(p) \/ ProcessMessage(p)
      PROVE  Goal
    BY <1>2, <1>13 DEF CloseConn, SendReply, SendReplyFails, Receive, CheckFile,
        ReportPosition, AckPart, ProcessMessage, ThenReply
<1>14. ASSUME Connect \/ Cut \/ UNCHANGED vars \/ \E u \in Tasks : DeleteReceive(u)
       PROVE  Goal
    BY <1>2, <1>14 DEF Connect, Cut, vars, DeleteReceive
<1> HIDE DEF Goal
<1>15. ASSUME NEW p \in Peers, PeerStep(p) PROVE Goal
    BY <1>6, <1>7, <1>8, <1>12, <1>13, <1>15 DEF PeerStep
<1>16. ASSUME Fault PROVE Goal
    BY <1>6, <1>7, <1>9, <1>12, <1>14, <1>16 DEF Fault
<1>17. ASSUME User PROVE Goal
    BY <1>9, <1>10, <1>11, <1>14, <1>17 DEF User
<1>18. Goal
    BY <1>14, <1>15, <1>16, <1>17 DEF Next
<1> QED BY <1>18 DEF Goal

LEMMA LeftNext ==
    ASSUME AnswersInv, [Next]_vars
    PROVE  LeftInv'
<1>1. TypeOK /\ LeftInv /\ Grows /\ AcknowledgedImpliesDelivered
    BY GrowsNext DEF AnswersInv
<1>2. ASSUME NEW t \in Tasks, send_left'[t] # "NONE"
      PROVE  send_queue'[t].status = "DELETED" /\ Acknowledged(t, send_left[t])'
    <2>1. send_queue[t] \in SendTask
        BY <1>1 DEF TypeOK
    <2>2. CASE send_left'[t] = send_left[t] /\ send_queue'[t] = send_queue[t]
        BY <1>1, <1>2, <2>2 DEF LeftInv, Acknowledged, Grows
    <2>3. CASE /\ send_left'[t] = send_queue[t].status
               /\ send_queue'[t] = [send_queue[t] EXCEPT !.status = "DELETED"]
        BY <1>1, <2>1, <2>3 DEF AcknowledgedImpliesDelivered, Acknowledged, Grows, SendTask
    <2> QED BY <1>2, <2>2, <2>3, SendLeftStep
<1>3. ASSUME ~UserDeletes, NEW t \in Tasks PROVE send_left'[t] = "NONE" /\ recv_left'[t] = "NONE"
    <2>1. ~(\E u \in Tasks : DeleteSend(u) \/ DeleteReceive(u))
        BY <1>3 DEF DeleteSend, DeleteReceive
    <2> QED BY <1>1, <1>3, <2>1, LeftSteps DEF LeftInv, WriteSend, WriteRecv
<1> QED BY <1>2, <1>3 DEF LeftInv

\* As long as the user deletes nothing, a restart reads what was there.
LEMMA ReadsSame ==
    ASSUME AnswersInv, ~UserDeletes, NEW p \in Peers
    PROVE  SendRead(p) = send_queue /\ RecvRead(p) = recv_queue
BY DEF AnswersInv, TypeOK, LeftInv, SendRead, RecvRead

LEMMA AnswersInit == Init => AnswersInv
<1> SUFFICES ASSUME Init PROVE AnswersInv
    OBVIOUS
<1>1. TypeOK
    BY TypeInit
<1>2. <<>> \in Seq(GoodControl) /\ <<>> \in Seq(GoodMessage)
    OBVIOUS
<1>3. /\ reply_queue \in [Peers -> Seq(GoodControl)]
      /\ chan \in [Peers -> Seq(GoodMessage)]
      /\ received \in [Peers -> GoodReceived]
    BY <1>2, NothingIsGood DEF Init
<1>4. \A t \in Tasks : send_queue[t].status = "NONE" /\ send_queue[t].current_position = -1
    BY DEF Init, NewTask
<1>5. \A p \in Peers : sending[p].id = 0
    BY NoTaskType DEF Init
<1>6. LeftInv
    BY DEF Init, LeftInv
<1> QED BY <1>1, <1>3, <1>4, <1>5, <1>6 DEF AnswersInv, Begun, AcknowledgedImpliesDelivered

LEMMA AnswersNext == AnswersInv /\ [Next]_vars => AnswersInv'
<1> SUFFICES ASSUME AnswersInv, [Next]_vars PROVE AnswersInv'
    OBVIOUS
<1>1. CASE UNCHANGED vars
    <2>1. LeftInv'
        BY LeftNext
    <2> QED BY <1>1, <2>1 DEF vars, AnswersInv, TypeOK, GoodControl, GoodMessage, GoodReceived,
        Justified, Known, Submitted, Begun, AcknowledgedImpliesDelivered
<1>2. CASE Next
    <2>1. TypeOK /\ TypeOK' /\ Grows
        BY TypeNext, GrowsNext DEF AnswersInv
    <2>2. /\ reply_queue' \in [Peers -> Seq(GoodControl')]
          /\ chan' \in [Peers -> Seq(GoodMessage')]
          /\ received' \in [Peers -> GoodReceived']
        BY <1>2, <2>1, QueueNext, ChannelNext, ReceivedNext
    <2>3. ASSUME NEW t \in Tasks PROVE Begun(t, send_queue[t])'
        <3>1. CASE send_queue'[t] = send_queue[t]
            BY <2>1, <3>1 DEF AnswersInv, Begun, Grows
        <3>2. CASE Carried(t)
            <4>1. CASE send_queue'[t].current_position = send_queue[t].current_position
                BY <2>1, <4>1 DEF AnswersInv, Begun, Grows
            <4>2. CASE send_queue'[t].current_position = -1
                BY <4>2 DEF Begun
            <4>3. CASE \E p \in Peers :
                        /\ sending[p].id = t
                        /\ send_queue'[t].current_position = sending[p].task.current_position
                <5>1. PICK p \in Peers :
                        /\ sending[p].id = t
                        /\ send_queue'[t].current_position = sending[p].task.current_position
                    BY <4>3
                <5>2. t # 0
                    BY TasksAssumption
                <5> QED BY <2>1, <5>1, <5>2 DEF AnswersInv, Begun, Grows
            <4> QED BY <3>2, <4>1, <4>2, <4>3 DEF Carried
        <3>3. CASE \E p \in Peers : ProcessAnswer(p) /\ received[p].id = t
            BY <2>1, <3>3, AnswerGood DEF Justified, Known, Begun, Grows
        <3>4. CASE ReadAgain(t)
            BY <2>1, <3>4 DEF AnswersInv, Begun, Grows, ReadAgain
        <3> QED BY <2>1, <3>1, <3>2, <3>3, <3>4, EntryStep
    <2>4. ASSUME NEW p \in Peers, sending'[p].id # 0
          PROVE  Begun(sending[p].id, sending[p].task)'
        <3>1. CASE sending'[p] = sending[p]
            <4>1. sending[p].id \in Tasks
                BY <2>1, <2>4, <3>1 DEF TypeOK
            <4> QED BY <2>1, <2>4, <3>1, <4>1 DEF AnswersInv, Begun, Grows
        <3>2. CASE \E t \in Tasks :
                    /\ sending'[p].id = t
                    /\ sending'[p].task.current_position = send_queue[t].current_position
            BY <2>1, <3>2 DEF AnswersInv, Begun, Grows
        <3> QED BY <1>2, <2>1, <2>4, <3>1, <3>2, CopyStep
    <2>5. ASSUME NEW t \in Tasks,
                 \/ send_queue'[t].status = "CHECKED"
                 \/ send_queue'[t].status = "COMPLETED" /\ Kind[t] # "LARGE_FILE"
          PROVE  t \in delivered'
        <3>1. CASE send_queue'[t] = send_queue[t]
            BY <2>1, <2>5, <3>1 DEF AnswersInv, AcknowledgedImpliesDelivered, Grows
        <3>2. ASSUME NEW p \in Peers, ProcessAnswer(p), received[p].id = t
              PROVE  t \in delivered'
            <4>1. /\ send_queue'[t].status = "CHECKED" => received[p].type = "CHECK_PASS"
                  /\ send_queue'[t].status = "COMPLETED" => received[p].type = "REPLY"
                BY <2>1, <3>2, Answered
            <4> QED BY <2>1, <2>5, <3>2, <4>1, AnswerGood DEF Justified, Grows
        <3>3. CASE ReadAgain(t)
            BY <2>1, <2>5, <3>3 DEF AnswersInv, LeftInv, Acknowledged, Grows, ReadAgain
        <3> QED BY <2>1, <2>5, <3>1, <3>2, <3>3, EntryStep
    <2> QED BY <2>1, <2>2, <2>3, <2>4, <2>5, LeftNext DEF AnswersInv, AcknowledgedImpliesDelivered
<1> QED BY <1>1, <1>2

LEMMA Answers == Spec => []AnswersInv
BY AnswersInit, AnswersNext, PTL DEF Spec

\* Whatever is lost, late, answered out of turn or deleted: a file is CHECKED,
\* and a message COMPLETED, in the sender's queue only if the receiver has
\* verified it and handed it to its extension.
THEOREM AcknowledgedOnlyIfDelivered == Spec => []AcknowledgedImpliesDelivered
<1>1. AnswersInv => AcknowledgedImpliesDelivered
    BY DEF AnswersInv
<1> QED BY <1>1, Answers, PTL

LEMMA NullNeedsDelete ==
    ASSUME ~UserDeletes, AnswersInv
    PROVE  NoNullDereference
<1> SUFFICES ASSUME NEW p \in Peers
             PROVE  ~PartNamesNothing(p) /\ ~AnswerNamesNothing(p)
    BY DEF NoNullDereference
<1>1. ~PartNamesNothing(p)
    <2>1. chan[p] # <<>> => Head(chan[p]) \in GoodMessage
        BY CutShortInSeq DEF AnswersInv
    <2> QED BY <2>1 DEF PartNamesNothing, GoodMessage, DataTypes
<1>2. ~AnswerNamesNothing(p)
    BY DEF AnswerNamesNothing, Processing, AnswersInv, GoodReceived, Justified, Known
<1> QED BY <1>1, <1>2

\* The NULL that find_task may return is never dereferenced as long as the
\* user deletes no task: neither crashes, nor lost or late answers, nor the
\* answers of an earlier session lead to it.
THEOREM NullOnlyAfterDelete ==
    ASSUME ~UserDeletes PROVE Spec => []NoNullDereference
<1>1. AnswersInv => NoNullDereference
    BY NullNeedsDelete
<1> QED BY <1>1, Answers, PTL

-----------------------------------------------------------------------------
(***************************************************************************)
(* Entries                                                                 *)
(*                                                                         *)
(* The entries of the queues and what is made of them, for every set of    *)
(* tasks, every configuration and any number of faults, deletions or late  *)
(* answers: the copy that send_task writes back is the entry still, a part *)
(* lies in its file, a file called CHECKED is intact.                      *)
(*                                                                         *)
(* The three depend on one another through EntriesInv: who may change an   *)
(* entry is a matter of who owns the tasks that its messages name, and the *)
(* positions that go round between the two queues never leave the file.    *)
(***************************************************************************)
-----------------------------------------------------------------------------
(* The inductive invariant *)

Items(seq) == {seq[i] : i \in 1..Len(seq)}

\* An answer for p names a task of p's, and a position in its file.
AnswerFor(p, x) == x.type \in AnswerTypes => Owner[x.id] = p /\ x.pos <= FileSize[x.id]

MessageFits(p, m) ==
    /\ AnswerFor(p, m)
    /\ m.type \in DataTypes => Owner[m.id] = Other(p)
    /\ m.type = "LARGE_FILE_PART" =>
            m.pos >= 0 /\ m.len >= 0 /\ m.pos + m.len <= FileSize[m.id]

ReceivedFits(p, r) ==
    /\ AnswerFor(p, r)
    /\ r.type \in UserTypes => Owner[r.id] = Other(p) /\ r.pos <= FileSize[r.id]
    /\ r.type = "LARGE_FILE" /\ r.status = "COMPLETED" => r.pos = FileSize[r.id]

\* Only what a REPLY completes, and CHECK_PASS then, may end past the file.
Settled == {"COMPLETED", "CHECKED", "DELETED"}
EntryFits(t, task) == task.status \notin Settled => task.current_position <= FileSize[t]

CopyFits(p, copy) ==
    copy.id # 0 => /\ Owner[copy.id] = p
                   /\ Submitted(copy.id)
                   /\ copy.task.current_position <= FileSize[copy.id]

LeftFits(t) == send_left[t] \notin Settled \cup {"NONE"}
                => send_queue[t].current_position <= FileSize[t]

\* The receiver's entry; CHECKED, it is at the end of an intact file, and it
\* is so yet when a restart brings it back.
FileFits(t) ==
    /\ recv_queue[t].current_position <= FileSize[t]
    /\ recv_left[t] # "NONE" => recv_queue[t].status = "NONE"
    /\ "CHECKED" \in {recv_queue[t].status, recv_left[t]} /\ Kind[t] = "LARGE_FILE" =>
            recv_queue[t].current_position = FileSize[t] /\ store[t] = FileSize[t]

EntriesInv ==
    /\ AnswersInv
    /\ \A p \in Peers :
        /\ \A c \in Items(reply_queue[p]) : AnswerFor(Other(p), c)
        /\ \A m \in Items(chan[p]) : MessageFits(p, m)
        /\ ReceivedFits(p, received[p])
        /\ CopyFits(p, sending[p])
    /\ \A t \in Tasks : EntryFits(t, send_queue[t]) /\ LeftFits(t) /\ FileFits(t)
    /\ CopyFresh

-----------------------------------------------------------------------------
(* What the items of a sequence are after it has changed.                  *)

LEMMA ItemsKept ==
    ASSUME NEW S, NEW seq \in Seq(S)
    PROVE  /\ \A rest \in CutShort(seq) : Items(rest) \subseteq Items(seq)
           /\ seq # <<>> => Head(seq) \in Items(seq) /\ Items(Tail(seq)) \subseteq Items(seq)
           /\ \A x \in S : Items(Append(seq, x)) \subseteq Items(seq) \cup {x}
           /\ \A i \in 1..Len(seq) : Items(Without(seq, i)) \subseteq Items(seq)
<1>1. ASSUME NEW rest \in CutShort(seq) PROVE Items(rest) \subseteq Items(seq)
    BY <1>1, SubSeqProperties DEF CutShort, Items
<1>2. seq # <<>> => Head(seq) \in Items(seq) /\ Items(Tail(seq)) \subseteq Items(seq)
    BY HeadTailProperties DEF Items
<1>3. ASSUME NEW x \in S PROVE Items(Append(seq, x)) \subseteq Items(seq) \cup {x}
    BY <1>3, AppendProperties DEF Items
<1>4. ASSUME NEW i \in 1..Len(seq) PROVE Items(Without(seq, i)) \subseteq Items(seq)
    <2> DEFINE before == SubSeq(seq, 1, i - 1)
               after == SubSeq(seq, i + 1, Len(seq))
    <2>1. /\ before \in Seq(S) /\ Len(before) = i - 1
          /\ \A j \in 1..i - 1 : before[j] = seq[j]
        BY <1>4, SubSeqInSeq, SubSeqProperties
    <2>2. /\ after \in Seq(S) /\ Len(after) = Len(seq) - i
          /\ \A j \in 1..Len(seq) - i : after[j] = seq[i + j]
        <3>1. after \in Seq(S)
            BY <1>4, SubSeqInSeq
        <3> QED BY <1>4, <3>1, SubSeqProperties
    <2> HIDE DEF before, after
    <2>3. /\ Len(before \o after) = Len(before) + Len(after)
          /\ \A j \in 1..Len(before) + Len(after) :
                (before \o after)[j] = IF j <= Len(before) THEN before[j]
                                       ELSE after[j - Len(before)]
        BY <2>1, <2>2, ConcatProperties
    <2>4. ASSUME NEW j \in 1..Len(before) + Len(after)
          PROVE  (before \o after)[j] \in Items(seq)
        <3>1. CASE j <= i - 1
            <4>1. (before \o after)[j] = seq[j] /\ j \in 1..Len(seq)
                BY <1>4, <2>1, <2>2, <2>3, <3>1
            <4> QED BY <4>1 DEF Items
        <3>2. CASE j > i - 1
            <4>1. (before \o after)[j] = seq[j + 1] /\ j + 1 \in 1..Len(seq)
                BY <1>4, <2>1, <2>2, <2>3, <3>2
            <4> QED BY <4>1 DEF Items
        <3> QED BY <1>4, <2>1, <2>2, <3>1, <3>2
    <2>5. Without(seq, i) = before \o after
        BY DEF Without, before, after
    <2> QED BY <2>3, <2>4, <2>5 DEF Items
<1> QED BY <1>1, <1>2, <1>3, <1>4

LEMMA OtherOther == \A p \in Peers : Other(Other(p)) = p
BY PeersAssumption DEF Other, Peers

\* The task of the queue, or the COMPLETE_SIG that next_task adds to it.
LEMMA PendingItems ==
    ASSUME TypeOK, NEW p \in Peers, NEW replies \in PendingReplies(p)
    PROVE  /\ replies \in Seq(Control)
           /\ \A c \in Items(replies) : c \in Items(reply_queue[p]) \/ c.type = "COMPLETE_SIG"
<1>1. replies \in Seq(Control)
    BY PendingRepliesSeq, MessageTypes DEF TypeOK, Peers
<1>2. CASE replies = reply_queue[p]
    BY <1>1, <1>2
<1>3. CASE replies = Append(reply_queue[p], NewControl(p, "COMPLETE_SIG", 0, 0))
    <2>1. NewControl(p, "COMPLETE_SIG", 0, 0) \in Control
        BY MessageTypes DEF Peers
    <2>2. NewControl(p, "COMPLETE_SIG", 0, 0).type = "COMPLETE_SIG"
        BY DEF NewControl
    <2> QED BY <1>1, <1>3, <2>1, <2>2, ItemsKept DEF TypeOK
<1> QED BY <1>2, <1>3 DEF PendingReplies

-----------------------------------------------------------------------------
(* Where the contents of the channels and queues come from.                *)

LEMMA DisconnectItems ==
    ASSUME TypeOK, NEW q \in Peers, Disconnect(q), NEW p \in Peers
    PROVE  Items(chan'[p]) \subseteq Items(chan[p])
<1>1. PICK rest \in (IF chan[q] = <<>> THEN {chan[Other(q)]} ELSE CutShort(chan[Other(q)])) :
        chan' = [chan EXCEPT ![q] = <<>>, ![Other(q)] = rest]
    BY DEF Disconnect
<1>2. Items(rest) \subseteq Items(chan[Other(q)])
    BY <1>1, OtherPeer, ItemsKept DEF TypeOK
<1>3. Items(<<>>) = {}
    BY DEF Items
<1>4. chan'[p] = IF p = Other(q) THEN rest ELSE IF p = q THEN <<>> ELSE chan[p]
    BY <1>1, OtherPeer DEF TypeOK
<1> QED BY <1>2, <1>3, <1>4

LEMMA TransmitItems ==
    ASSUME TypeOK, NEW q \in Peers, NEW m \in Message, Transmit(q, m), NEW p \in Peers
    PROVE  Items(chan'[p]) \subseteq IF p = Other(q) THEN Items(chan[p]) \cup {m}
                                     ELSE Items(chan[p])
<1>1. CASE Open(q)
    <2>1. chan'[p] = IF p = Other(q) THEN Append(chan[p], m) ELSE chan[p]
        BY <1>1 DEF Transmit, TypeOK
    <2> QED BY <2>1, ItemsKept DEF TypeOK
<1>2. CASE ~Open(q)
    BY <1>2 DEF Transmit
<1> QED BY <1>1, <1>2

LEMMA ChannelOrigin ==
    ASSUME TypeOK, Next, NEW p \in Peers, NEW m \in Items(chan'[p])
    PROVE  \/ m \in Items(chan[p])
           \/ \E replies \in PendingReplies(Other(p)) :
                \E c \in Items(replies) : m = ReplyMessage(c)
           \/ \E t \in Tasks : /\ SendUserTask(Other(p), t)
                               /\ m = PackedMessage(t, Packed(t, send_queue[t]))
<1> DEFINE Goal == \/ m \in Items(chan[p])
                   \/ \E replies \in PendingReplies(Other(p)) :
                        \E c \in Items(replies) : m = ReplyMessage(c)
                   \/ \E t \in Tasks : /\ SendUserTask(Other(p), t)
                                       /\ m = PackedMessage(t, Packed(t, send_queue[t]))
<1>1. ASSUME UNCHANGED chan PROVE Goal
    BY <1>1
<1>2. CASE Connect
    BY <1>2 DEF Connect, Items
<1>3. ASSUME NEW q \in Peers, Disconnect(q) PROVE Goal
    BY <1>3, DisconnectItems
<1>4. ASSUME NEW q \in Peers, SendReply(q) PROVE Goal
    <2>1. PICK replies \in PendingReplies(q) : \E i \in 1..Len(replies) :
            Transmit(q, ReplyMessage(replies[i]))
        BY <1>4 DEF SendReply
    <2>2. PICK i \in 1..Len(replies) : Transmit(q, ReplyMessage(replies[i]))
        BY <2>1
    <2>3. replies[i] \in Items(replies) /\ ReplyMessage(replies[i]) \in Message
        <3>1. replies[i] \in Control
            BY PendingItems, ElementOfSeq
        <3> QED BY <3>1, MessageTypes DEF Items
    <2>4. m \in Items(chan[p]) \/ (p = Other(q) /\ m = ReplyMessage(replies[i]))
        BY <2>2, <2>3, TransmitItems
    <2> QED BY <2>3, <2>4, OtherOther
<1>5. ASSUME NEW q \in Peers, NEW t \in Tasks, SendUserTask(q, t) PROVE Goal
    <2> DEFINE sent == PackedMessage(t, Packed(t, send_queue[t]))
    <2>1. Transmit(q, sent)
        BY <1>5 DEF SendUserTask
    <2>2. sent \in Message
        BY PackedType, PackedMessageType DEF TypeOK, IsPart
    <2> HIDE DEF sent
    <2>3. m \in Items(chan[p]) \/ (p = Other(q) /\ m = sent)
        BY <2>1, <2>2, TransmitItems
    <2> QED BY <1>5, <2>3, OtherOther DEF sent
<1>6. ASSUME NEW q \in Peers, Receive(q) PROVE Goal
    <2>1. chan[q] # <<>> /\ chan' = [chan EXCEPT ![q] = Tail(@)]
        BY <1>6 DEF Receive
    <2>2. Items(Tail(chan[q])) \subseteq Items(chan[q])
        BY <2>1, ItemsKept DEF TypeOK
    <2> QED BY <2>1, <2>2 DEF TypeOK
<1>7. CASE Cut
    <2>1. PICK s \in CutShort(chan[Server]), c \in CutShort(chan[Client]) :
            chan' = [chan EXCEPT ![Server] = s, ![Client] = c]
        BY <1>7 DEF Cut
    <2>2. Items(s) \subseteq Items(chan[Server]) /\ Items(c) \subseteq Items(chan[Client])
        BY ItemsKept DEF TypeOK, Peers
    <2> QED BY <2>1, <2>2, PeersAssumption DEF TypeOK, Peers
<1>8. ASSUME NEW q \in Peers,
             \/ NullDereference(q) \/ Crash(q) \/ CrashWhileUnpacking(q)
             \/ CrashBeforeExtension(q) \/ \E t \in Tasks : CrashWhileAdding(q, t)
      PROVE  Goal
    <2>1. Die(q)
        BY <1>8 DEF NullDereference, Crash, CrashWhileUnpacking, CrashBeforeExtension,
            CrashWhileAdding
    <2> QED BY <1>1, <1>3, <2>1 DEF Die
<1>9. ASSUME NEW q \in Peers,
             \/ SendReplyFails(q)
             \/ \E t \in Tasks : SendUserTaskFails(q, t) \/ PackFails(q, t)
             \/ ReceiveFails(q) \/ ReceiveTimesOut(q)
             \/ CheckFile(q) \/ ReportPosition(q) \/ AckPart(q) \/ ProcessMessage(q)
             \/ ProcessAnswer(q) \/ ProcessComplete(q) \/ DeleteAllSend(q)
      PROVE  Goal
    BY <1>1, <1>9 DEF SendReplyFails, SendUserTaskFails, PackFails, ReceiveFails,
        ReceiveTimesOut, CheckFile, ReportPosition, AckPart, ProcessMessage, ThenReply,
        ProcessAnswer, ProcessComplete, DeleteAllSend
<1>10. ASSUME NEW t \in Tasks, AddTask(t) \/ DeleteSend(t) \/ DeleteReceive(t) PROVE Goal
    BY <1>1, <1>10 DEF AddTask, DeleteSend, DeleteReceive
<1>11. ASSUME NEW q \in Peers, CloseConn(q) PROVE Goal
    BY <1>3, <1>11 DEF CloseConn
<1> QED BY <1>2, <1>4, <1>5, <1>6, <1>7, <1>8, <1>9, <1>10, <1>11
        DEF Next, PeerStep, Fault, User

\* A control task is queued by process_task, for the user task in hand.
LEMMA QueueOrigin ==
    ASSUME TypeOK, Next, NEW p \in Peers, NEW c \in Items(reply_queue'[p])
    PROVE  \/ \E d \in Items(reply_queue[p]) : c.type = d.type /\ c.id = d.id /\ c.pos = d.pos
           \/ c.type = "COMPLETE_SIG"
           \/ /\ Processing(p, UserTypes)
              /\ c.id = received[p].id /\ c.pos \in {0, received[p].pos}
<1> DEFINE Goal == \/ \E d \in Items(reply_queue[p]) :
                            c.type = d.type /\ c.id = d.id /\ c.pos = d.pos
                   \/ c.type = "COMPLETE_SIG"
                   \/ /\ Processing(p, UserTypes)
                      /\ c.id = received[p].id /\ c.pos \in {0, received[p].pos}
<1> USE DEF queues
<1>1. ASSUME UNCHANGED reply_queue PROVE Goal
    BY <1>1
<1>2. ASSUME NEW q \in Peers, reply_queue' = [reply_queue EXCEPT ![q] = <<>>] PROVE Goal
    BY <1>2 DEF TypeOK, Items
<1>3. ASSUME NEW q \in Peers, NEW replies \in PendingReplies(q), NEW seq,
             reply_queue' = [reply_queue EXCEPT ![q] = seq],
             \A d \in Items(seq) : \E e \in Items(replies) :
                d.type = e.type /\ d.id = e.id /\ d.pos = e.pos
      PROVE  Goal
    <2>1. CASE p # q
        BY <1>3, <2>1 DEF TypeOK
    <2>2. CASE p = q
        <3>1. c \in Items(seq)
            BY <1>3, <2>2 DEF TypeOK
        <3> QED BY <1>3, <2>2, <3>1, PendingItems
    <2> QED BY <2>1, <2>2
<1>4. ASSUME NEW q \in Peers, SendReply(q) PROVE Goal
    <2>1. PICK replies \in PendingReplies(q) : \E i \in 1..Len(replies) :
            reply_queue' = [reply_queue EXCEPT ![q] = Without(replies, i)]
        BY <1>4 DEF SendReply
    <2>2. PICK i \in 1..Len(replies) :
            reply_queue' = [reply_queue EXCEPT ![q] = Without(replies, i)]
        BY <2>1
    <2>3. Items(Without(replies, i)) \subseteq Items(replies)
        BY PendingItems, ItemsKept
    <2> QED BY <1>3, <2>2, <2>3
<1>5. ASSUME NEW q \in Peers, SendReplyFails(q) PROVE Goal
    <2>1. PICK replies \in PendingReplies(q) : \E i \in 1..Len(replies) :
            reply_queue' = [reply_queue EXCEPT ![q] = [replies EXCEPT ![i].error_count =
                                Lesser(@ + 1, MaxErrorCount + 1)]]
        BY <1>5 DEF SendReplyFails
    <2>2. PICK i \in 1..Len(replies) :
            reply_queue' = [reply_queue EXCEPT ![q] = [replies EXCEPT ![i].error_count =
                                Lesser(@ + 1, MaxErrorCount + 1)]]
        BY <2>1
    <2> DEFINE e == Lesser(replies[i].error_count + 1, MaxErrorCount + 1)
               seq == [replies EXCEPT ![i].error_count = e]
    <2>3. replies \in Seq(Control)
        BY PendingItems
    <2>4. reply_queue' = [reply_queue EXCEPT ![q] = seq]
        BY <2>2
    <2> HIDE DEF e
    <2>5. /\ Len(seq) = Len(replies)
          /\ \A j \in 1..Len(replies) :
                seq[j] = IF j = i THEN [replies[j] EXCEPT !.error_count = e] ELSE replies[j]
        BY <2>3
    <2>6. \A j \in 1..Len(replies) : replies[j] \in Control
        BY <2>3, ElementOfSeq
    <2>7. \A j \in 1..Len(replies) : /\ seq[j].type = replies[j].type
                                     /\ seq[j].id = replies[j].id
                                     /\ seq[j].pos = replies[j].pos
        BY <2>5, <2>6 DEF Control
    <2> HIDE DEF seq
    <2>8. \A d \in Items(seq) : \E f \in Items(replies) :
                d.type = f.type /\ d.id = f.id /\ d.pos = f.pos
        BY <2>5, <2>7 DEF Items
    <2> QED BY <1>3, <2>4, <2>8
<1>6. ASSUME NEW q \in Peers, NEW t \in Tasks,
             SendUserTask(q, t) \/ SendUserTaskFails(q, t) \/ PackFails(q, t)
      PROVE  Goal
    <2>1. PICK replies \in PendingReplies(q) :
            reply_queue' = [reply_queue EXCEPT ![q] = replies]
        BY <1>6 DEF SendUserTask, SendUserTaskFails, PackFails
    <2> QED BY <1>3, <2>1
<1>7. ASSUME NEW q \in Peers,
             CheckFile(q) \/ ReportPosition(q) \/ AckPart(q) \/ ProcessMessage(q)
      PROVE  Goal
    <2>1. PICK type \in AnswerTypes, pos \in {0, received[q].pos} :
            AddReply(q, type, received[q].id, pos)
        BY <1>7 DEF CheckFile, ReportPosition, AckPart, ProcessMessage, AnswerTypes, ControlTypes
    <2>2. Processing(q, UserTypes)
        BY <1>7 DEF CheckFile, ReportPosition, AckPart, ProcessMessage, Processing,
            FileTypes, UserTypes
    <2> DEFINE new == NewControl(q, type, received[q].id, pos)
    <2>3. received[q].id \in Tasks /\ pos \in Position
        <3>1. received[q] \in Received /\ received[q].type \in UserTypes
            BY <2>2 DEF TypeOK, Processing
        <3>2. received[q].id \in Tasks
            BY <3>1 DEF Received, NamesTask, UserTypes
        <3> QED BY <2>1, <3>1, <3>2 DEF Received, Position
    <2>4. new \in Control
        BY <2>3, NewControlType, TasksAssumption DEF AnswerTypes
    <2>5. new.id = received[q].id /\ new.pos = pos
        BY DEF NewControl
    <2>6. reply_queue' = [reply_queue EXCEPT ![q] = Append(@, new)]
        BY <2>1 DEF AddReply
    <2> HIDE DEF new
    <2>7. Items(Append(reply_queue[q], new)) \subseteq Items(reply_queue[q]) \cup {new}
        BY <2>4, ItemsKept DEF TypeOK
    <2> QED BY <2>2, <2>5, <2>6, <2>7 DEF TypeOK
<1>8. ASSUME NEW q \in Peers,
             \/ NullDereference(q) \/ Crash(q) \/ CrashWhileUnpacking(q)
             \/ CrashBeforeExtension(q) \/ DeleteAllSend(q)
             \/ \E t \in Tasks : CrashWhileAdding(q, t)
      PROVE  Goal
    BY <1>2, <1>8 DEF NullDereference, Crash, CrashWhileUnpacking, CrashBeforeExtension,
        CrashWhileAdding, Die, DeleteAllSend
<1>9. ASSUME NEW q \in Peers,
             \/ CloseConn(q) \/ Receive(q) \/ ReceiveFails(q) \/ ReceiveTimesOut(q)
             \/ ProcessAnswer(q) \/ ProcessComplete(q)
      PROVE  Goal
    BY <1>1, <1>9 DEF CloseConn, Receive, ReceiveFails, ReceiveTimesOut,
        ProcessAnswer, ProcessComplete
<1>10. CASE Connect \/ Cut \/ \E t \in Tasks : AddTask(t) \/ DeleteSend(t) \/ DeleteReceive(t)
    BY <1>1, <1>10 DEF Connect, Cut, AddTask, DeleteSend, DeleteReceive
<1> QED BY <1>4, <1>5, <1>6, <1>7, <1>8, <1>9, <1>10 DEF Next, PeerStep, Fault, User

-----------------------------------------------------------------------------
(* Who changes an entry, and what else changes then.                       *)

Due == {"PENDING", "STARTED", "TRANSING", "ERROR"}

EntryCause(t) ==
    \/ send_queue'[t] = send_queue[t]
    \/ send_queue[t].status = "NONE" /\ send_queue'[t].current_position = -1
    \/ send_queue'[t].status = "DELETED"
    \/ \E p \in Peers :
        /\ Owner[t] = p /\ send_queue[t].status \in Due
        /\ send_queue'[t].current_position = send_queue[t].current_position
        /\ \/ sending'[p].id = 0
           \/ sending'[p].id = t /\ sending'[p].task = send_queue'[t]
    \/ \E p \in Peers :
        /\ sending[p].id = t /\ sending'[p].id = 0
        /\ send_queue'[t].current_position = sending[p].task.current_position
    \/ \E p \in Peers : ProcessAnswer(p) /\ received[p].id = t /\ sending'[p].id = 0
    \/ ReadAgain(t)

LEMMA EntryOrigin ==
    ASSUME TypeOK, Next, NEW t \in Tasks
    PROVE  EntryCause(t)
<1> USE DEF queues
<1>1. ASSUME UNCHANGED send_queue PROVE EntryCause(t)
    BY <1>1 DEF EntryCause
<1>2. ASSUME NEW p \in Peers, NEW u \in Tasks,
             SendUserTask(p, u) \/ SendUserTaskFails(p, u) \/ PackFails(p, u)
      PROVE  EntryCause(t)
    <2> DEFINE task == Packed(u, send_queue[u])
               fault == [task EXCEPT !.status = "FAULT", !.error_count = -1]
    <2>1. /\ task \in SendTask
          /\ task.current_position = send_queue[u].current_position
          /\ Failure(task).current_position = send_queue[u].current_position
        BY PackedType, FailureType DEF TypeOK
    <2>2. fault.current_position = send_queue[u].current_position
        BY <2>1 DEF SendTask
    <2>3. /\ Owner[u] = p /\ send_queue[u].status \in Due
          /\ send_queue[u].status \notin Absent
        BY <1>2 DEF SendUserTask, SendUserTaskFails, PackFails, PicksTask, Candidates, Due, Absent
    <2>4. PICK new :
            /\ send_queue' = UpdateSend(u, new)
            /\ \/ new = task /\ sending' = [sending EXCEPT ![p] =
                        [id |-> u, nested |-> pc[p] = "REPLY", task |-> task]]
               \/ new = Failure(task) /\ sending' = [sending EXCEPT ![p] = NoTask]
               \/ new = fault /\ sending' = [sending EXCEPT ![p] = NoTask]
        BY <1>2 DEF SendUserTask, SendUserTaskFails, PackFails, AfterSendError
    <2> HIDE DEF task, fault
    <2>5. send_queue' = [send_queue EXCEPT ![u] = new]
        BY <2>3, <2>4 DEF UpdateSend
    <2>6. /\ send_queue'[u] = new
          /\ \A v \in Tasks \ {u} : send_queue'[v] = send_queue[v]
        BY <2>5 DEF TypeOK
    <2>7. \/ sending'[p].id = 0
          \/ sending'[p].id = u /\ sending'[p].task = new
        BY <2>4, NoTaskType DEF TypeOK
    <2>8. new.current_position = send_queue[u].current_position
        BY <2>1, <2>2, <2>4
    <2> QED BY <2>3, <2>6, <2>7, <2>8 DEF EntryCause
<1>3. ASSUME NEW p \in Peers, ReceiveFails(p) \/ ReceiveTimesOut(p) \/ ProcessComplete(p)
      PROVE  EntryCause(t)
    <2>1. NoAnswer(p) \/ UNCHANGED send_queue
        BY <1>3 DEF ReceiveFails, ReceiveTimesOut, ProcessComplete
    <2>2. CASE NoAnswer(p)
        <3>1. sending'[p].id = 0
            BY <2>2, NoTaskType DEF NoAnswer, TypeOK
        <3> QED BY <2>2, <3>1, NoAnswerKeeps DEF EntryCause
    <2> QED BY <1>1, <2>1, <2>2
<1>4. ASSUME NEW p \in Peers, ProcessAnswer(p) PROVE EntryCause(t)
    <2>1. sending'[p].id = 0
        BY <1>4, NoTaskType DEF ProcessAnswer, TypeOK
    <2> QED BY <1>4, <2>1, Answered DEF EntryCause
<1>5. ASSUME NEW u \in Tasks, AddTask(u) \/ \E p \in Peers : CrashWhileAdding(p, u)
      PROVE  EntryCause(t)
    <2>1. PICK new : /\ send_queue' = [send_queue EXCEPT ![u] = new]
                     /\ send_queue[u].status = "NONE"
                     /\ new = NewTask(u, "PENDING") \/ new = NewTask(u, "INITIAL")
        BY <1>5 DEF AddTask, CrashWhileAdding
    <2>2. new.current_position = -1
        BY <2>1 DEF NewTask
    <2> QED BY <2>1, <2>2 DEF EntryCause, TypeOK
<1>6. ASSUME (\E u \in Tasks : DeleteSend(u)) \/ (\E p \in Peers : DeleteAllSend(p))
      PROVE  EntryCause(t)
    <2>1. send_queue[t] \in SendTask
        BY DEF TypeOK
    <2>2. \/ send_queue'[t] = send_queue[t]
          \/ send_queue'[t] = [send_queue[t] EXCEPT !.status = "DELETED"]
        BY <1>6 DEF DeleteSend, DeleteAllSend, TypeOK
    <2> QED BY <2>1, <2>2 DEF EntryCause, SendTask
<1>7. ASSUME NEW p \in Peers,
             \/ CloseConn(p) \/ SendReply(p) \/ SendReplyFails(p) \/ Receive(p)
             \/ CheckFile(p) \/ ReportPosition(p) \/ AckPart(p) \/ ProcessMessage(p)
      PROVE  EntryCause(t)
    BY <1>1, <1>7 DEF CloseConn, SendReply, SendReplyFails, Receive, CheckFile,
        ReportPosition, AckPart, ProcessMessage, ThenReply
<1>8. CASE Connect \/ Cut \/ \E u \in Tasks : DeleteReceive(u)
    BY <1>1, <1>8 DEF Connect, Cut, DeleteReceive
<1>9. ASSUME NEW p \in Peers,
             NullDereference(p) \/ Crash(p) \/ CrashWhileUnpacking(p) \/ CrashBeforeExtension(p)
      PROVE  EntryCause(t)
    BY <1>9, CrashReads DEF EntryCause
<1> QED BY <1>2, <1>3, <1>4, <1>5, <1>6, <1>7, <1>8, <1>9 DEF Next, PeerStep, Fault, User

\* The copy that send_task waits with is of the entry as it has stored it.
LEMMA CopyOrigin ==
    ASSUME TypeOK, NEW p \in Peers, NEW t \in Tasks, SendUserTask(p, t)
    PROVE  /\ Owner[t] = p /\ send_queue[t].status \in Due
           /\ sending'[p].task = send_queue'[t]
<1> DEFINE task == Packed(t, send_queue[t])
<1>1. /\ sending' = [sending EXCEPT ![p] =
                        [id |-> t, nested |-> pc[p] = "REPLY", task |-> task]]
      /\ send_queue' = UpdateSend(t, task)
    BY DEF SendUserTask
<1> HIDE DEF task
<1>2. Owner[t] = p /\ send_queue[t].status \in Due /\ send_queue[t].status \notin Absent
    BY DEF SendUserTask, PicksTask, Candidates, Due, Absent
<1>3. send_queue'[t] = task
    BY <1>1, <1>2 DEF UpdateSend, TypeOK
<1>4. sending'[p].task = task
    BY <1>1 DEF TypeOK
<1> QED BY <1>2, <1>3, <1>4

-----------------------------------------------------------------------------
(* The positions that travel stay within the file.                         *)

\* pack_large_file_part: a part of what lies between the position and the end.
LEMMA PackedFits ==
    ASSUME TypeOK, NEW p \in Peers, NEW t \in Tasks, Owner[t] = Other(p),
           send_queue[t].current_position <= FileSize[t]
    PROVE  MessageFits(p, PackedMessage(t, Packed(t, send_queue[t])))
<1> DEFINE task == Packed(t, send_queue[t])
           m == PackedMessage(t, task)
<1>1. /\ task \in SendTask /\ task.current_position = send_queue[t].current_position
      /\ IsPart(t, task) => task.block_size > 0
    BY PackedType DEF TypeOK, IsPart
<1> HIDE DEF task
<1>2. m.id = t /\ m.type \notin AnswerTypes
    BY TasksAssumption DEF PackedMessage, AnswerTypes, ControlTypes, UserTypes
<1>3. ASSUME NEW x, x.id = t, x.type \notin AnswerTypes,
             x.type = "LARGE_FILE_PART" => x.pos >= 0 /\ x.len >= 0 /\ x.pos + x.len <= FileSize[t]
      PROVE  MessageFits(p, x)
    BY <1>3 DEF MessageFits, AnswerFor
<1>4. m.type = "LARGE_FILE_PART" =>
            m.pos >= 0 /\ m.len >= 0 /\ m.pos + m.len <= FileSize[t]
    <2>1. CASE IsPart(t, task)
        <3>1. /\ task.current_position \in Nat /\ task.block_size \in Nat
              /\ FileSize[t] \in Nat
            BY <1>1, <2>1, TasksAssumption DEF IsPart, SendTask, Position
        <3>2. m.pos = task.current_position
              /\ m.len = Lesser(task.block_size, FileSize[t] - task.current_position)
            BY <2>1 DEF PackedMessage
        <3> QED BY <1>1, <3>1, <3>2 DEF Lesser
    <2>2. CASE ~IsPart(t, task)
        BY <2>2, TasksAssumption DEF PackedMessage, UserTypes
    <2> QED BY <2>1, <2>2
<1>5. m = PackedMessage(t, Packed(t, send_queue[t]))
    BY DEF task
<1> HIDE DEF m
<1> QED BY <1>2, <1>3, <1>4, <1>5

LEMMA ReplyFits ==
    ASSUME NEW p \in Peers, NEW c \in Control, AnswerFor(p, c)
    PROVE  MessageFits(p, ReplyMessage(c))
BY DEF MessageFits, AnswerFor, ReplyMessage, Control, ControlTypes, DataTypes

\* The entry that unpack_data makes of a message that fits.
LEMMA UnpackedFits ==
    ASSUME TypeOK, NEW p \in Peers, NEW m \in GoodMessage, m.type \in DataTypes,
           MessageFits(p, m), \A t \in Tasks : FileFits(t)
    PROVE  /\ Unpacked(m).current_position <= FileSize[m.id]
           /\ Unpacked(m).status # "CHECKED"
           /\ UserType(m) = "LARGE_FILE" /\ Unpacked(m).status = "COMPLETED"
                => Unpacked(m).current_position = FileSize[m.id]
<1>1. /\ m.id \in Tasks /\ recv_queue[m.id] \in RecvTask
      /\ FileSize[m.id] \in Nat
      /\ recv_queue[m.id].current_position <= FileSize[m.id]
    BY TasksAssumption DEF GoodMessage, Message, NamesTask, DataTypes, TypeOK, FileFits
<1>2. CASE m.type = "LARGE_FILE_PART"
    <2>1. m.pos + m.len <= FileSize[m.id] /\ m.pos + m.len \in Int
        BY <1>2 DEF MessageFits, GoodMessage, Message, Position
    <2>2. CASE m.pos # recv_queue[m.id].current_position
        <3>1. Unpacked(m) = [recv_queue[m.id] EXCEPT !.status = "INCONSIST"]
            BY <1>2, <2>2 DEF Unpacked
        <3> QED BY <1>1, <3>1 DEF RecvTask
    <2>3. CASE m.pos = recv_queue[m.id].current_position
        <3>1. Unpacked(m) =
                [status |-> IF m.pos + m.len >= FileSize[m.id] THEN "COMPLETED" ELSE "TRANSING",
                 current_position |-> m.pos + m.len]
            BY <1>2, <2>3 DEF Unpacked
        <3> QED BY <1>1, <2>1, <3>1
    <2> QED BY <2>2, <2>3
<1>3. CASE m.type # "LARGE_FILE_PART"
    BY <1>1, <1>3 DEF Unpacked, DataTypes, UserType
<1> QED BY <1>2, <1>3

\* A file that is CHECKED is at its end: what is written to it then is nothing.
LEMMA WrittenFits ==
    ASSUME TypeOK, NEW p \in Peers, NEW m \in GoodMessage, m.type \in DataTypes,
           MessageFits(p, m), FileFits(m.id),
           NEW len \in 0..Lesser(1, m.len) \cup {m.len},
           recv_queue[m.id].status = "CHECKED", Kind[m.id] = "LARGE_FILE"
    PROVE  /\ m.type # "SMALL_FILE"
           /\ Written(m, len) = store[m.id]
<1>1. /\ m.id \in Tasks
      /\ UserType(m) = "LARGE_FILE"
      /\ recv_queue[m.id].current_position = FileSize[m.id]
      /\ FileSize[m.id] \in Nat \ {0}
    <2>1. m.id \in Tasks /\ UserType(m) = "LARGE_FILE"
        BY DEF GoodMessage, Message, NamesTask, DataTypes
    <2>2. recv_queue[m.id].current_position = FileSize[m.id]
        BY DEF FileFits
    <2>3. FileSize[m.id] \in Nat /\ FileSize[m.id] > 0
        BY <2>1, TasksAssumption
    <2> QED BY <2>1, <2>2, <2>3
<1>2. m.type \in {"LARGE_FILE_BEGIN", "LARGE_FILE_PART"}
    BY <1>1 DEF UserType, DataTypes
<1>3. CASE m.type = "LARGE_FILE_PART" /\ m.pos = recv_queue[m.id].current_position
    <2>1. m.len = 0
        BY <1>1, <1>3 DEF MessageFits, GoodMessage, Message
    <2>2. len = 0
        BY <2>1 DEF Lesser
    <2> QED BY <1>1, <1>3, <2>2 DEF Written
<1>4. CASE ~(m.type = "LARGE_FILE_PART" /\ m.pos = recv_queue[m.id].current_position)
    BY <1>2, <1>4 DEF Written
<1> QED BY <1>2, <1>3, <1>4

-----------------------------------------------------------------------------
(* Each part of the invariant survives each step.                          *)

LEMMA QueueFits ==
    ASSUME EntriesInv, Next, NEW p \in Peers, NEW c \in Items(reply_queue'[p])
    PROVE  AnswerFor(Other(p), c)
<1>1. TypeOK
    BY DEF EntriesInv, AnswersInv
<1>2. CASE \E d \in Items(reply_queue[p]) : c.type = d.type /\ c.id = d.id /\ c.pos = d.pos
    BY <1>2 DEF EntriesInv, AnswerFor
<1>3. CASE c.type = "COMPLETE_SIG"
    BY <1>3 DEF AnswerFor, AnswerTypes
<1>4. CASE /\ Processing(p, UserTypes)
           /\ c.id = received[p].id /\ c.pos \in {0, received[p].pos}
    <2>1. /\ received[p].id \in Tasks /\ Owner[received[p].id] = Other(p)
          /\ received[p].pos <= FileSize[received[p].id]
        BY <1>4, ProcessingGood DEF EntriesInv, ReceivedFits, Processing
    <2>2. 0 <= FileSize[received[p].id]
        BY <2>1, TasksAssumption
    <2> QED BY <1>4, <2>1, <2>2 DEF AnswerFor
<1> QED BY <1>1, <1>2, <1>3, <1>4, QueueOrigin

LEMMA ChannelFits ==
    ASSUME EntriesInv, Next, NEW p \in Peers, NEW m \in Items(chan'[p])
    PROVE  MessageFits(p, m)
<1>1. TypeOK /\ Other(p) \in Peers /\ Other(Other(p)) = p
    BY OtherPeer, OtherOther DEF EntriesInv, AnswersInv
<1>2. CASE m \in Items(chan[p])
    BY <1>2 DEF EntriesInv
<1>3. ASSUME NEW replies \in PendingReplies(Other(p)), NEW c \in Items(replies),
             m = ReplyMessage(c)
      PROVE  MessageFits(p, m)
    <2>1. c \in Control
        BY <1>1, PendingItems, ElementOfSeq DEF Items
    <2>2. c \in Items(reply_queue[Other(p)]) \/ c.type = "COMPLETE_SIG"
        BY <1>1, PendingItems
    <2>3. AnswerFor(p, c)
        <3>1. CASE c \in Items(reply_queue[Other(p)])
            BY <1>1, <3>1 DEF EntriesInv
        <3>2. CASE c.type = "COMPLETE_SIG"
            BY <3>2 DEF AnswerFor, AnswerTypes
        <3> QED BY <2>2, <3>1, <3>2
    <2> QED BY <1>3, <2>1, <2>3, ReplyFits
<1>4. ASSUME NEW t \in Tasks, SendUserTask(Other(p), t),
             m = PackedMessage(t, Packed(t, send_queue[t]))
      PROVE  MessageFits(p, m)
    <2>1. Owner[t] = Other(p) /\ send_queue[t].status \in Due
        BY <1>1, <1>4, CopyOrigin
    <2>2. send_queue[t].current_position <= FileSize[t]
        BY <2>1 DEF EntriesInv, EntryFits, Settled, Due
    <2> QED BY <1>1, <1>4, <2>1, <2>2, PackedFits
<1> QED BY <1>1, <1>2, <1>3, <1>4, ChannelOrigin

\* The message that is unpacked next.
LEMMA HeadFits ==
    ASSUME EntriesInv, NEW p \in Peers, chan[p] # <<>>
    PROVE  Head(chan[p]) \in GoodMessage /\ MessageFits(p, Head(chan[p]))
<1>1. Head(chan[p]) \in GoodMessage
    BY CutShortInSeq DEF EntriesInv, AnswersInv
<1>2. Head(chan[p]) \in Items(chan[p])
    BY ItemsKept DEF EntriesInv, AnswersInv
<1> QED BY <1>1, <1>2 DEF EntriesInv

LEMMA ReceivedOrigin ==
    ASSUME TypeOK, Next, NEW p \in Peers
    PROVE  received'[p] \in {received[p], Nothing} \/ Receive(p)
<1> DEFINE Goal == received'[p] \in {received[p], Nothing} \/ Receive(p)
<1>1. ASSUME NEW q \in Peers,
             received' = [received EXCEPT ![q] = Nothing] \/ UNCHANGED received
      PROVE  Goal
    BY <1>1 DEF TypeOK
<1>2. ASSUME NEW q \in Peers, Receive(q) PROVE Goal
    <2>1. PICK r : received' = [received EXCEPT ![q] = r]
        BY <1>2 DEF Receive
    <2> QED BY <1>2, <2>1 DEF TypeOK
<1>3. ASSUME NEW q \in Peers,
             \/ CheckFile(q) \/ ReportPosition(q) \/ AckPart(q) \/ ProcessMessage(q)
             \/ ProcessAnswer(q) \/ ProcessComplete(q)
      PROVE  Goal
    BY <1>1, <1>3 DEF CheckFile, ReportPosition, AckPart, ProcessMessage, ThenReply,
        ProcessAnswer, ProcessComplete
<1>4. ASSUME NEW q \in Peers,
             \/ NullDereference(q) \/ Crash(q) \/ CrashWhileUnpacking(q)
             \/ CrashBeforeExtension(q) \/ \E t \in Tasks : CrashWhileAdding(q, t)
      PROVE  Goal
    BY <1>1, <1>4 DEF NullDereference, Crash, CrashWhileUnpacking, CrashBeforeExtension,
        CrashWhileAdding, Die
<1>5. ASSUME NEW q \in Peers,
             \/ CloseConn(q) \/ SendReply(q) \/ SendReplyFails(q) \/ DeleteAllSend(q)
             \/ \E t \in Tasks : \/ SendUserTask(q, t) \/ SendUserTaskFails(q, t)
                                 \/ PackFails(q, t)
             \/ ReceiveFails(q) \/ ReceiveTimesOut(q)
      PROVE  Goal
    BY <1>1, <1>5 DEF CloseConn, SendReply, SendReplyFails, DeleteAllSend, SendUserTask,
        SendUserTaskFails, PackFails, ReceiveFails, ReceiveTimesOut
<1>6. CASE Connect \/ Cut \/ \E t \in Tasks : AddTask(t) \/ DeleteSend(t) \/ DeleteReceive(t)
    BY <1>6 DEF Connect, Cut, AddTask, DeleteSend, DeleteReceive
<1> QED BY <1>2, <1>3, <1>4, <1>5, <1>6 DEF Next, PeerStep, Fault, User

LEMMA InHandFits ==
    ASSUME EntriesInv, Next, NEW p \in Peers
    PROVE  ReceivedFits(p, received'[p])
<1>1. TypeOK
    BY DEF EntriesInv, AnswersInv
<1>2. CASE received'[p] = received[p]
    BY <1>2 DEF EntriesInv
<1>3. CASE received'[p] = Nothing
    BY <1>3 DEF Nothing, ReceivedFits, AnswerFor, AnswerTypes, UserTypes
<1>4. CASE Receive(p)
    <2> DEFINE m == Head(chan[p])
    <2>1. m \in GoodMessage /\ MessageFits(p, m) /\ m \in Message
        BY <1>4, HeadFits DEF Receive, GoodMessage
    <2> HIDE DEF m
    <2>2. CASE m.type \in ControlTypes
        <3>1. received'[p] = [type |-> m.type, id |-> m.id, status |-> "COMPLETED",
                              pos |-> m.pos]
            BY <1>1, <1>4, <2>2 DEF Receive, TypeOK, m
        <3> QED BY <2>1, <2>2, <3>1
                DEF ReceivedFits, MessageFits, AnswerFor, ControlTypes, UserTypes
    <2>3. CASE m.type \notin ControlTypes
        <3>1. m.type \in DataTypes
            BY <2>1, <2>3 DEF Message
        <3>2. received'[p] = [type |-> UserType(m), id |-> m.id,
                              status |-> Unpacked(m).status, pos |-> Unpacked(m).current_position]
            BY <1>1, <1>4, <2>3 DEF Receive, TypeOK, m
        <3>3. /\ Unpacked(m).current_position <= FileSize[m.id]
              /\ UserType(m) = "LARGE_FILE" /\ Unpacked(m).status = "COMPLETED"
                    => Unpacked(m).current_position = FileSize[m.id]
            BY <1>1, <2>1, <3>1, UnpackedFits DEF EntriesInv
        <3>4. UserType(m) \notin AnswerTypes
            BY <3>1 DEF UserType, DataTypes, AnswerTypes, ControlTypes
        <3>5. Owner[m.id] = Other(p)
            BY <2>1, <3>1 DEF MessageFits
        <3> QED BY <3>2, <3>3, <3>4, <3>5 DEF ReceivedFits, AnswerFor
    <2> QED BY <2>2, <2>3
<1> QED BY <1>1, <1>2, <1>3, <1>4, ReceivedOrigin

LEMMA EntriesFit ==
    ASSUME EntriesInv, Next, NEW t \in Tasks
    PROVE  EntryFits(t, send_queue'[t])
<1>1. /\ TypeOK /\ TypeOK'
      /\ send_queue[t] \in SendTask /\ send_queue'[t] \in SendTask
      /\ FileSize[t] \in Nat
    BY TypeNext, TasksAssumption DEF EntriesInv, AnswersInv, TypeOK
<1>2. EntryFits(t, send_queue[t])
    BY DEF EntriesInv
<1>3. CASE send_queue'[t] = send_queue[t]
    BY <1>2, <1>3
<1>4. CASE send_queue'[t].current_position = -1 \/ send_queue'[t].status = "DELETED"
    BY <1>1, <1>4 DEF EntryFits, Settled
<1>5. CASE /\ send_queue[t].status \in Due
           /\ send_queue'[t].current_position = send_queue[t].current_position
    BY <1>2, <1>5 DEF EntryFits, Settled, Due
<1>6. ASSUME NEW p \in Peers, sending[p].id = t,
             send_queue'[t].current_position = sending[p].task.current_position
      PROVE  EntryFits(t, send_queue'[t])
    BY <1>6, TasksAssumption DEF EntriesInv, CopyFits, EntryFits
<1>7. ASSUME NEW p \in Peers, ProcessAnswer(p), received[p].id = t
      PROVE  EntryFits(t, send_queue'[t])
    <2> DEFINE task == send_queue[t]
    <2>1. received[p].type \in {"LASTPOS", "CHECK_PASS", "CHECK_FAILED", "REPLY"}
        BY <1>7 DEF ProcessAnswer, Processing, AnswerTypes, ControlTypes
    <2>2. received[p].pos <= FileSize[t]
        BY <1>7 DEF EntriesInv, ReceivedFits, AnswerFor, ProcessAnswer, Processing
    <2>3. task.status \notin Absent
        BY <1>7 DEF ProcessAnswer, AnswerNamesNothing, Processing
    <2>4. PICK answered :
            /\ send_queue' = [send_queue EXCEPT ![t] = answered]
            /\ \/ answered = [task EXCEPT !.current_position = received[p].pos,
                                 !.error_count = Lesser(@ + 1, MaxErrorCount + 1),
                                 !.status = "PENDING"]
               \/ answered = [task EXCEPT !.status = "CHECKED"]
               \/ answered = [task EXCEPT !.current_position = 0, !.status = "PENDING"]
               \/ answered = Success(t, task)
        BY <1>7, <2>1, <2>3 DEF ProcessAnswer, UpdateSend
    <2>5. send_queue'[t] = answered
        BY <1>1, <2>4 DEF TypeOK
    <2>6. CASE answered = Success(t, task)
        <3>1. Kind[t] # "LARGE_FILE" => answered.status = "COMPLETED"
            BY <1>1, <2>6 DEF Success, SendTask
        <3>2. Kind[t] = "LARGE_FILE" /\ answered.status # "COMPLETED"
                => answered.current_position <= FileSize[t]
            BY <1>1, <2>6 DEF Success, SendTask, Position
        <3> QED BY <2>5, <3>1, <3>2 DEF EntryFits, Settled
    <2>7. CASE answered # Success(t, task)
        <3>1. answered.status = "CHECKED" \/ answered.current_position \in {received[p].pos, 0}
            BY <1>1, <2>4, <2>7 DEF SendTask
        <3> QED BY <1>1, <2>2, <2>5, <3>1 DEF EntryFits, Settled
    <2> QED BY <2>6, <2>7
<1>8. CASE ReadAgain(t)
    <2>1. send_left[t] \notin Settled => send_queue[t].current_position <= FileSize[t]
        BY <1>8 DEF EntriesInv, LeftFits, ReadAgain
    <2> QED BY <1>8, <2>1 DEF ReadAgain, EntryFits
<1> QED BY <1>1, <1>3, <1>4, <1>5, <1>6, <1>7, <1>8, EntryOrigin DEF EntryCause

LEMMA LeftsFit ==
    ASSUME EntriesInv, [Next]_vars, NEW t \in Tasks
    PROVE  LeftFits(t)'
<1> SUFFICES ASSUME send_left'[t] # "NONE", send_left'[t] \notin Settled
             PROVE  send_queue'[t].current_position <= FileSize[t]
    BY DEF LeftFits
<1>1. send_queue[t] \in SendTask /\ EntryFits(t, send_queue[t]) /\ LeftFits(t)
    BY DEF EntriesInv, AnswersInv, TypeOK
<1>2. CASE send_left'[t] = send_left[t] /\ send_queue'[t] = send_queue[t]
    BY <1>1, <1>2 DEF LeftFits
<1>3. CASE /\ send_left'[t] = send_queue[t].status
           /\ send_queue'[t] = [send_queue[t] EXCEPT !.status = "DELETED"]
    BY <1>1, <1>3 DEF EntryFits, SendTask
<1> QED BY <1>2, <1>3, SendLeftStep DEF EntriesInv

\* Whoever changes an entry, gives up or renews the copy of it.
LEMMA CopiesFit ==
    ASSUME EntriesInv, Next, NEW p \in Peers, sending'[p].id # 0
    PROVE  /\ CopyFits(p, sending[p])'
           /\ \/ send_queue'[sending'[p].id] = sending'[p].task
              \/ send_queue'[sending'[p].id].status \in Absent
<1> DEFINE t == sending'[p].id
<1>1. TypeOK /\ TypeOK' /\ Grows
    BY TypeNext, GrowsNext DEF EntriesInv, AnswersInv
<1>2. t \in Tasks
    BY <1>1 DEF TypeOK
<1>3. CASE sending'[p] = sending[p]
    <2>1. /\ CopyFits(p, sending[p]) /\ t = sending[p].id
          /\ Owner[t] = p /\ Submitted(t)
          /\ send_queue[t] = sending[p].task \/ send_queue[t].status \in Absent
        BY <1>3 DEF EntriesInv, CopyFits, CopyFresh
    <2>2. CopyFits(p, sending[p])'
        BY <1>1, <1>2, <1>3, <2>1 DEF CopyFits, Grows
    <2>3. send_queue'[t] = send_queue[t] \/ send_queue'[t].status = "DELETED"
        <3>1. ASSUME NEW q \in Peers, ProcessAnswer(q), received[q].id = t PROVE q = p
            BY <2>1, <3>1 DEF EntriesInv, ReceivedFits, AnswerFor, ProcessAnswer, Processing
        <3>2. ASSUME NEW q \in Peers, sending[q].id = t PROVE q = p
            BY <1>2, <2>1, <3>2, TasksAssumption DEF EntriesInv, CopyFits
        <3>3. ASSUME NEW q \in Peers, Owner[t] = q, sending'[q].id = t,
                     sending'[q].task = send_queue'[t]
              PROVE  send_queue'[t] = sending[p].task
            BY <1>3, <2>1, <3>3
        <3>4. ~ReadAgain(t)
            BY <1>3, <2>1 DEF ReadAgain
        <3> QED BY <1>1, <1>2, <1>3, <2>1, <3>1, <3>2, <3>3, <3>4, EntryOrigin
                DEF EntryCause, Submitted, Due, Absent
    <2> QED BY <1>3, <2>1, <2>2, <2>3 DEF Absent
<1>4. ASSUME NEW u \in Tasks, SendUserTask(p, u), t = u,
             sending'[p].task.current_position = send_queue[u].current_position
      PROVE  CopyFits(p, sending[p])' /\ send_queue'[t] = sending'[p].task
    <2>1. /\ Owner[u] = p /\ send_queue[u].status \in Due
          /\ sending'[p].task = send_queue'[u]
        BY <1>1, <1>4, CopyOrigin
    <2>2. send_queue[u].current_position <= FileSize[u] /\ Submitted(u)'
        BY <1>1, <2>1 DEF EntriesInv, EntryFits, Settled, Due, Grows, Submitted
    <2> QED BY <1>4, <2>1, <2>2 DEF CopyFits
<1> QED BY <1>1, <1>3, <1>4, CopyStep

\* The receiver's entry and its file change together, or the file is not the
\* one that is CHECKED.
LEMMA FilesFit ==
    ASSUME EntriesInv, Next, NEW t \in Tasks
    PROVE  FileFits(t)'
<1> USE DEF queues, files
<1>1. /\ TypeOK /\ FileFits(t) /\ FileSize[t] \in Nat
      /\ recv_queue[t] \in RecvTask
    BY TasksAssumption DEF EntriesInv, AnswersInv, TypeOK
<1>2. ASSUME recv_queue'[t] = recv_queue[t], store'[t] = store[t],
             recv_left'[t] \in {recv_left[t], "NONE"}
      PROVE  FileFits(t)'
    BY <1>1, <1>2 DEF FileFits
<1>6. ASSUME NEW u \in Tasks, DeleteReceive(u) PROVE FileFits(t)'
    <2>1. /\ store' = store
          /\ recv_queue' = [recv_queue EXCEPT ![u].status = "NONE"]
          /\ \/ WriteRecv(Other(Owner[u]))
             \/ recv_left' = [recv_left EXCEPT ![u] = recv_queue[u].status]
        BY <1>6 DEF DeleteReceive
    <2>2. CASE t = u
        <3>1. /\ recv_queue'[t].status = "NONE"
              /\ recv_queue'[t].current_position = recv_queue[t].current_position
            BY <1>1, <2>1, <2>2 DEF TypeOK, RecvTask
        <3>2. Owner[t] # Other(Owner[t])
            BY OtherPeer, TasksAssumption
        <3>3. recv_left'[t] \in {"NONE", recv_queue[t].status}
            BY <1>1, <2>1, <2>2, <3>2 DEF WriteRecv, TypeOK
        <3> QED BY <1>1, <2>1, <3>1, <3>3 DEF FileFits
    <2>3. CASE t # u
        <3>1. recv_queue'[t] = recv_queue[t]
            BY <1>1, <2>1, <2>3 DEF TypeOK
        <3>2. recv_left'[t] \in {recv_left[t], "NONE"}
            BY <1>1, <2>1, <2>3 DEF WriteRecv, TypeOK
        <3> QED BY <1>2, <2>1, <3>1, <3>2
    <2> QED BY <2>2, <2>3
<1> SUFFICES ASSUME ~(\E u \in Tasks : DeleteReceive(u)) PROVE FileFits(t)'
    BY <1>6
<1>0. recv_left'[t] \in {recv_left[t], "NONE"}
    <2>1. UNCHANGED recv_left \/ \E p \in Peers : WriteRecv(p)
        BY LeftSteps
    <2> QED BY <2>1 DEF WriteRecv
<1>9. ASSUME NEW p \in Peers, recv_queue' = RecvRead(p), WriteRecv(p), store'[t] = store[t]
      PROVE  FileFits(t)'
    <2>1. CASE recv_queue'[t] = recv_queue[t]
        BY <1>0, <1>2, <1>9, <2>1
    <2>2. CASE /\ Owner[t] # p /\ recv_left[t] # "NONE"
               /\ recv_queue'[t].status = recv_left[t]
               /\ recv_queue'[t].current_position = recv_queue[t].current_position
        <3>1. recv_left'[t] = "NONE"
            BY <1>9, <2>2 DEF WriteRecv
        <3> QED BY <1>1, <1>9, <2>2, <3>1 DEF FileFits
    <2> QED BY <1>1, <1>9, <2>1, <2>2, ReadTasks
<1>3. ASSUME NEW p \in Peers, Receive(p) PROVE FileFits(t)'
    <2> DEFINE m == Head(chan[p])
    <2>1. m \in GoodMessage /\ MessageFits(p, m) /\ m \in Message
        BY <1>3, HeadFits DEF Receive, GoodMessage
    <2> HIDE DEF m
    <2>2. CASE m.type \in ControlTypes
        BY <1>0, <1>2, <1>3, <2>2 DEF Receive, m
    <2>3. CASE m.type \notin ControlTypes
        <3>1. /\ recv_queue' = [recv_queue EXCEPT ![m.id] = Unpacked(m)]
              /\ store' = [store EXCEPT ![m.id] = Written(m, m.len)]
              /\ WriteRecv(p)
            BY <1>3, <2>3 DEF Receive, m
        <3>2. m.type \in DataTypes
            BY <2>1, <2>3 DEF Message
        <3>3. /\ Unpacked(m).current_position <= FileSize[m.id]
              /\ Unpacked(m).status # "CHECKED"
            BY <1>1, <2>1, <3>2, UnpackedFits DEF EntriesInv
        <3>4. CASE t = m.id
            <4>1. recv_queue'[t] = Unpacked(m)
                BY <1>1, <3>1, <3>4 DEF TypeOK
            <4>2. Owner[t] # p
                BY <2>1, <3>2, <3>4, OtherPeer DEF MessageFits
            <4>3. recv_left'[t] = "NONE"
                BY <3>1, <4>2 DEF WriteRecv
            <4> QED BY <3>3, <3>4, <4>1, <4>3 DEF FileFits
        <3>5. CASE t # m.id
            <4>1. recv_queue'[t] = recv_queue[t] /\ store'[t] = store[t]
                BY <1>1, <3>1, <3>5 DEF TypeOK
            <4> QED BY <1>0, <1>2, <4>1
        <3> QED BY <3>4, <3>5
    <2> QED BY <2>2, <2>3
<1>4. ASSUME NEW p \in Peers, CheckFile(p) \/ CrashBeforeExtension(p) PROVE FileFits(t)'
    <2> DEFINE id == received[p].id
    <2>1. /\ Processing(p, UserTypes) /\ received[p].status = "COMPLETED"
          /\ received[p].type \in FileTypes
        BY <1>4 DEF CheckFile, CrashBeforeExtension, CheckPassed, Processing, FileTypes, UserTypes
    <2>2. /\ id \in Tasks /\ received[p].pos \in Position
          /\ received[p].type = Kind[id]
        BY <2>1, ProcessingGood DEF EntriesInv
    <2>3. /\ received[p].pos <= FileSize[id]
          /\ Kind[id] = "LARGE_FILE" => received[p].pos = FileSize[id]
        BY <2>1, <2>2 DEF EntriesInv, ReceivedFits, UserTypes, Processing
    <2>4. store' = store
        BY <1>4 DEF CheckFile, CrashBeforeExtension
    <2>5. \/ CheckPassed(p) /\ recv_queue' = UpdateRecv(id, "CHECKED", received[p].pos)
          \/ recv_queue' = UpdateRecv(id, "INCONSIST", 0)
        BY <1>4 DEF CheckFile, CrashBeforeExtension
    <2>6. CASE recv_queue'[t] = recv_queue[t]
        BY <1>0, <1>2, <2>4, <2>6
    <2>7. CASE CheckPassed(p) /\ t = id /\ recv_queue[t].status # "NONE"
               /\ recv_queue'[t] = [status |-> "CHECKED", current_position |-> received[p].pos]
        <3>1. recv_left'[t] = "NONE"
            BY <1>0, <1>1, <2>7 DEF FileFits
        <3> QED BY <1>1, <2>3, <2>4, <2>7, <3>1 DEF FileFits, CheckPassed
    <2>8. CASE recv_queue'[t] = [status |-> "INCONSIST", current_position |-> 0]
               /\ recv_queue[t].status # "NONE"
        <3>1. recv_left'[t] = "NONE"
            BY <1>0, <1>1, <2>8 DEF FileFits
        <3> QED BY <1>1, <2>8, <3>1 DEF FileFits
    <2> QED BY <1>1, <2>2, <2>5, <2>6, <2>7, <2>8 DEF UpdateRecv, TypeOK
<1>5. ASSUME NEW p \in Peers, CrashWhileUnpacking(p) PROVE FileFits(t)'
    <2> DEFINE m == Head(chan[p])
    <2>1. m \in GoodMessage /\ MessageFits(p, m) /\ m.type \in DataTypes
        BY <1>5, HeadFits DEF CrashWhileUnpacking
    <2>2. recv_queue' = IF recv_queue[m.id].status # "NONE" THEN RecvRead(p)
                        ELSE [recv_queue EXCEPT ![m.id].status = "PENDING",
                                                ![m.id].current_position = -1]
        BY <1>5 DEF CrashWhileUnpacking
    <2>3. PICK len \in 0..Lesser(1, m.len) \cup {m.len} :
            store' = [store EXCEPT ![m.id] =
                        IF m.type = "SMALL_FILE" THEN Corrupt ELSE Written(m, len)]
        BY <1>5 DEF CrashWhileUnpacking
    <2>8. WriteRecv(p)
        BY <1>5 DEF CrashWhileUnpacking, Die
    <2>9. Owner[m.id] # p
        BY <2>1, OtherPeer DEF MessageFits
    <2> HIDE DEF m
    <2>4. t # m.id => store'[t] = store[t]
        BY <1>1, <2>3 DEF TypeOK
    <2>5. CASE recv_queue[m.id].status = "NONE" /\ t = m.id
        <3>1. recv_queue'[t].status = "PENDING" /\ recv_queue'[t].current_position = -1
            BY <1>1, <2>2, <2>5 DEF TypeOK, RecvTask
        <3>2. recv_left'[t] = "NONE"
            BY <2>5, <2>8, <2>9 DEF WriteRecv
        <3> QED BY <1>1, <3>1, <3>2 DEF FileFits
    <2>6. CASE t # m.id
        <3>1. CASE recv_queue[m.id].status # "NONE"
            BY <1>9, <2>2, <2>4, <2>6, <2>8, <3>1
        <3>2. CASE recv_queue[m.id].status = "NONE"
            <4>1. recv_queue'[t] = recv_queue[t]
                BY <1>1, <2>2, <2>6, <3>2 DEF TypeOK
            <4> QED BY <1>0, <1>2, <2>4, <2>6, <4>1
        <3> QED BY <3>1, <3>2
    <2>7. CASE recv_queue[m.id].status # "NONE" /\ t = m.id
        <3>0. recv_left[t] = "NONE" /\ recv_left'[t] = "NONE" /\ recv_queue'[t] = recv_queue[t]
            <4>1. recv_left[t] = "NONE"
                BY <1>1, <2>7 DEF FileFits
            <4> QED BY <1>0, <1>1, <2>2, <2>7, <4>1, ReadTasks
        <3>1. CASE recv_queue[t].status = "CHECKED" /\ Kind[t] = "LARGE_FILE"
            <4>1. m.type # "SMALL_FILE" /\ Written(m, len) = store[m.id]
                BY <1>1, <2>1, <2>7, <3>1, WrittenFits
            <4>2. store' = [store EXCEPT ![t] = store[t]]
                BY <2>3, <2>7, <4>1
            <4>3. store'[t] = store[t]
                BY <1>1, <4>2 DEF TypeOK
            <4> QED BY <1>2, <3>0, <4>3
        <3>2. CASE ~(recv_queue[t].status = "CHECKED" /\ Kind[t] = "LARGE_FILE")
            BY <1>1, <3>0, <3>2 DEF FileFits
        <3> QED BY <3>1, <3>2
    <2> QED BY <2>5, <2>6, <2>7
<1>7. ASSUME NEW p \in Peers,
             \/ CloseConn(p) \/ SendReply(p) \/ SendReplyFails(p)
             \/ \E u \in Tasks : \/ SendUserTask(p, u) \/ SendUserTaskFails(p, u)
                                 \/ PackFails(p, u)
             \/ ReceiveFails(p) \/ ReceiveTimesOut(p)
             \/ ReportPosition(p) \/ AckPart(p) \/ ProcessMessage(p)
             \/ ProcessAnswer(p) \/ ProcessComplete(p) \/ DeleteAllSend(p)
      PROVE  FileFits(t)'
    <2>1. UNCHANGED <<recv_queue, store>>
        BY <1>7 DEF CloseConn, SendReply, SendReplyFails, SendUserTask, SendUserTaskFails,
            PackFails, ReceiveFails, ReceiveTimesOut, ReportPosition, AckPart,
            ProcessMessage, ProcessAnswer, ProcessComplete, DeleteAllSend
    <2> QED BY <1>0, <1>2, <2>1
<1>8. CASE Connect \/ Cut \/ \E u \in Tasks : AddTask(u) \/ DeleteSend(u)
    <2>1. UNCHANGED <<recv_queue, store>>
        BY <1>8 DEF Connect, Cut, AddTask, DeleteSend
    <2> QED BY <1>0, <1>2, <2>1
<1>10. ASSUME NEW p \in Peers,
              NullDereference(p) \/ Crash(p) \/ \E u \in Tasks : CrashWhileAdding(p, u)
       PROVE  FileFits(t)'
    <2>1. recv_queue' = RecvRead(p) /\ WriteRecv(p) /\ store' = store
        BY <1>10 DEF NullDereference, Crash, CrashWhileAdding, Die
    <2> QED BY <1>9, <2>1
<1> QED BY <1>3, <1>4, <1>5, <1>7, <1>8, <1>10 DEF Next, PeerStep, Fault, User

-----------------------------------------------------------------------------
(* The theorems *)

LEMMA EntriesInit == Init => EntriesInv
<1> SUFFICES ASSUME Init PROVE EntriesInv
    OBVIOUS
<1>1. AnswersInv
    BY AnswersInit
<1>2. \A p \in Peers : Items(reply_queue[p]) = {} /\ Items(chan[p]) = {}
    BY DEF Init, Items
<1>3. \A p \in Peers : ReceivedFits(p, received[p])
    BY DEF Init, Nothing, ReceivedFits, AnswerFor, AnswerTypes, UserTypes
<1>4. \A p \in Peers : sending[p].id = 0
    BY NoTaskType DEF Init
<1>5. \A t \in Tasks : send_queue[t].current_position = -1 /\ FileSize[t] \in Nat
    BY TasksAssumption DEF Init, NewTask
<1>6. \A t \in Tasks : EntryFits(t, send_queue[t]) /\ LeftFits(t) /\ FileFits(t)
    BY <1>5 DEF Init, EntryFits, LeftFits, FileFits
<1> QED BY <1>1, <1>2, <1>3, <1>4, <1>6 DEF EntriesInv, CopyFits, CopyFresh

LEMMA EntriesNext == EntriesInv /\ [Next]_vars => EntriesInv'
<1> SUFFICES ASSUME EntriesInv, [Next]_vars PROVE EntriesInv'
    OBVIOUS
<1>1. AnswersInv'
    BY AnswersNext DEF EntriesInv
<1>2. CASE UNCHANGED vars
    BY <1>1, <1>2 DEF vars, EntriesInv, CopyFits, Submitted, LeftFits, FileFits, CopyFresh
<1>3. CASE Next
    <2>1. \A p \in Peers :
            /\ \A c \in Items(reply_queue'[p]) : AnswerFor(Other(p), c)
            /\ \A m \in Items(chan'[p]) : MessageFits(p, m)
            /\ ReceivedFits(p, received'[p])
        BY <1>3, QueueFits, ChannelFits, InHandFits
    <2>2. \A p \in Peers : CopyFits(p, sending[p])'
        BY <1>3, CopiesFit DEF CopyFits
    <2>3. CopyFresh'
        BY <1>3, CopiesFit DEF CopyFresh
    <2>4. \A t \in Tasks : EntryFits(t, send_queue'[t]) /\ LeftFits(t)' /\ FileFits(t)'
        BY <1>3, EntriesFit, LeftsFit, FilesFit
    <2> QED BY <1>1, <2>1, <2>2, <2>3, <2>4 DEF EntriesInv
<1> QED BY <1>2, <1>3

LEMMA Entries == Spec => []EntriesInv
BY EntriesInit, EntriesNext, PTL DEF Spec

\* The copy of the task that send_task keeps while it waits for the answer,
\* and that task_failure writes back, is what the queue holds: between the
\* two no other step changes the entry, but to delete it.
THEOREM CopyStaysFresh == Spec => []CopyFresh
<1>1. EntriesInv => CopyFresh
    BY DEF EntriesInv
<1> QED BY <1>1, Entries, PTL

\* pack_large_file_part never asks for bytes before the file or beyond it,
\* whatever positions late answers and earlier sessions have set.
THEOREM PartsLieWithinFile == Spec => []PartWithinFile
<1>1. EntriesInv => PartWithinFile
    BY DEF EntriesInv, MessageFits, PartWithinFile, Items
<1> QED BY <1>1, Entries, PTL

\* A large file that the receiver has called CHECKED stays intact on its disk,
\* however often parts of it arrive again or a crash cuts one short.
THEOREM CheckedFilesIntact == Spec => []CheckedFileIntact
<1>1. EntriesInv => CheckedFileIntact
    BY DEF EntriesInv, FileFits, CheckedFileIntact
<1> QED BY <1>1, Entries, PTL

-----------------------------------------------------------------------------
(***************************************************************************)
(* Delivery                                                                *)
(*                                                                         *)
(* Communication implements Delivery: under the mapping Phase, each step   *)
(* of the protocol is a step of the promise.  Most steps change one entry  *)
(* at most; what they write takes deletions to the disk (OthersKeep), and  *)
(* AnswersInv says what an answer that makes an entry done is worth, and   *)
(* what a restart may bring back.                                          *)
(***************************************************************************)
-----------------------------------------------------------------------------

\* What the phase is, case by case.
LEMMA PhaseCases ==
    ASSUME NEW t
    PROVE  /\ send_queue[t].status = "NONE" <=> Phase(t) = "none"
           /\ send_queue[t].status = "DELETED" <=> Phase(t) \in {"dropped", "deleted"}
           /\ send_queue[t].status \in {"INITIAL", "FAULT"} <=> Phase(t) = "failed"
           /\ Phase(t) = "done" <=> \/ send_queue[t].status = "CHECKED"
                                    \/ send_queue[t].status = "COMPLETED" /\ Kind[t] # "LARGE_FILE"
           /\ Phase(t) \in Promise!Phases
<1> DEFINE status == send_queue[t].status
           finished == status = "CHECKED" \/ (status = "COMPLETED" /\ Kind[t] # "LARGE_FILE")
<1>1. CASE status \in {"NONE", "DELETED", "INITIAL", "FAULT"}
    BY <1>1 DEF Phase, Promise!Phases
<1>2. CASE status \notin {"NONE", "DELETED", "INITIAL", "FAULT"} /\ finished
    BY <1>2 DEF Phase, Promise!Phases
<1>3. CASE status \notin {"NONE", "DELETED", "INITIAL", "FAULT"} /\ ~finished
    BY <1>3 DEF Phase, Promise!Phases
<1> QED BY <1>1, <1>2, <1>3

LEMMA PhasesNext == \A t : Phase(t)' \in Promise!Phases
<1> SUFFICES ASSUME NEW t PROVE Phase(t)' \in Promise!Phases
    OBVIOUS
<1>1. CASE send_queue'[t].status \in {"NONE", "DELETED", "INITIAL", "FAULT", "CHECKED"}
    BY <1>1 DEF Phase, Promise!Phases
<1>2. CASE send_queue'[t].status \notin {"NONE", "DELETED", "INITIAL", "FAULT", "CHECKED"}
    BY <1>2 DEF Phase, Promise!Phases
<1> QED BY <1>1, <1>2

\* An entry that a step leaves alone stays in its phase, unless the step
\* writes its deletion to the disk.
LEMMA OthersKeep ==
    ASSUME AnswersInv, [Next]_vars, NEW u \in Tasks, send_queue'[u] = send_queue[u]
    PROVE  \/ Phase(u)' = Phase(u)
           \/ Phase(u) = "dropped" /\ Phase(u)' = "deleted"
<1>1. send_queue[u] \in SendTask
    BY DEF AnswersInv, TypeOK
<1>2. send_left'[u] \in {send_left[u], "NONE"}
    <2>1. CASE send_queue[u].status \in Absent
        BY <2>1, SendLeftStep
    <2>2. CASE send_queue[u].status \notin Absent
        <3>1. send_queue'[u] # [send_queue[u] EXCEPT !.status = "DELETED"]
            BY <1>1, <2>2 DEF SendTask, Absent
        <3> QED BY <3>1, SendLeftStep
    <2> QED BY <2>1, <2>2
<1>3. CASE send_queue[u].status = "DELETED"
    BY <1>2, <1>3 DEF Phase
<1>4. CASE send_queue[u].status # "DELETED"
    BY <1>4 DEF Phase
<1> QED BY <1>3, <1>4

LEMMA PhasesStay ==
    ASSUME AnswersInv, [Next]_vars, UNCHANGED <<send_queue, delivered>>
    PROVE  Promise!Next
BY OthersKeep, PhasesNext DEF Promise!Next, Promise!Write, Promise!Keeps

\* A step that changes one entry is what becomes of that task.
LEMMA OnePhase ==
    ASSUME AnswersInv, [Next]_vars, UNCHANGED delivered, NEW t \in Tasks, NEW task,
           send_queue' = [send_queue EXCEPT ![t] = task]
    PROVE  /\ send_queue'[t] = task
           /\ \A next : Phase(t)' = next => Promise!Become(t, next)
           /\ Phase(t)' = Phase(t) => Promise!Next
<1>1. send_queue'[t] = task /\ \A u \in Tasks \ {t} : send_queue'[u] = send_queue[u]
    BY DEF AnswersInv, TypeOK
<1>2. ASSUME NEW u \in Tasks \ {t}
      PROVE  \/ Phase(u)' = Phase(u)
             \/ Phase(u) = "dropped" /\ Phase(u)' = "deleted"
    <2>1. u \in Tasks /\ send_queue'[u] = send_queue[u]
        BY <1>1
    <2> QED BY <2>1, OthersKeep
<1>3. \A next : Phase(t)' = next => Promise!Become(t, next)
    BY <1>2, PhasesNext DEF Promise!Become, Promise!Keeps
<1>4. Phase(t)' = Phase(t) => Promise!Next
    BY <1>2, PhasesNext DEF Promise!Next, Promise!Write, Promise!Keeps
<1> QED BY <1>1, <1>3, <1>4

-----------------------------------------------------------------------------
(* What a change of one entry is to Delivery *)

\* An entry that fails, or is tried again, or goes on.
LEMMA Tried ==
    ASSUME AnswersInv, [Next]_vars, UNCHANGED delivered, NEW t \in Tasks, NEW task,
           send_queue[t].status \notin Absent,
           send_queue' = [send_queue EXCEPT ![t] = task],
           task.status \in {"TRANSING", "ERROR", "FAULT", "PENDING", "STARTED"}
    PROVE  Promise!Next
<1>1. /\ send_queue'[t] = task
      /\ Phase(t)' = "waiting" => Promise!Become(t, "waiting")
      /\ Phase(t)' = "failed" => Promise!Become(t, "failed")
      /\ Phase(t)' = Phase(t) => Promise!Next
    BY OnePhase
<1>2. Phase(t) \in {"waiting", "failed", "done"}
    BY PhaseCases DEF Absent, Promise!Phases
<1>3. Phase(t)' \in {"waiting", "failed"}
    BY <1>1 DEF Phase
<1>4. CASE Phase(t)' # Phase(t) /\ Phase(t)' = "waiting"
    BY <1>1, <1>2, <1>4 DEF Promise!Next, Promise!TakeUpAgain
<1>5. CASE Phase(t)' # Phase(t) /\ Phase(t)' = "failed"
    BY <1>1, <1>2, <1>5 DEF Promise!Next, Promise!Fail
<1> QED BY <1>1, <1>3, <1>4, <1>5

\* An entry that an answer finishes, a large file that is COMPLETED included.
LEMMA Finished ==
    ASSUME AnswersInv, [Next]_vars, UNCHANGED delivered, NEW t \in Tasks, NEW task,
           send_queue[t].status \notin Absent,
           send_queue' = [send_queue EXCEPT ![t] = task],
           task.status \in {"CHECKED", "COMPLETED"},
           task.status = "CHECKED" \/ Kind[t] # "LARGE_FILE" => t \in delivered
    PROVE  Promise!Next
<1>1. /\ send_queue'[t] = task
      /\ Phase(t)' = "waiting" => Promise!Become(t, "waiting")
      /\ Phase(t)' = "done" => Promise!Become(t, "done")
      /\ Phase(t)' = Phase(t) => Promise!Next
    BY OnePhase
<1>2. Phase(t) \in {"waiting", "failed", "done"}
    BY PhaseCases DEF Absent, Promise!Phases
<1>3. CASE task.status = "CHECKED" \/ Kind[t] # "LARGE_FILE"
    <2>1. Phase(t)' = "done"
        BY <1>1, <1>3 DEF Phase
    <2>2. CASE Phase(t) # "done"
        BY <1>1, <1>2, <1>3, <2>1, <2>2 DEF Promise!Next, Promise!Acknowledge
    <2> QED BY <1>1, <2>1, <2>2
<1>4. CASE ~(task.status = "CHECKED" \/ Kind[t] # "LARGE_FILE")
    <2>1. Phase(t)' = "waiting"
        BY <1>1, <1>4 DEF Phase
    <2>2. CASE Phase(t) # "waiting"
        BY <1>1, <1>2, <2>1, <2>2 DEF Promise!Next, Promise!TakeUpAgain
    <2> QED BY <1>1, <2>1, <2>2
<1> QED BY <1>3, <1>4

\* update_task of a task that is no longer there changes none.
LEMMA TriedUpdate ==
    ASSUME AnswersInv, [Next]_vars, UNCHANGED delivered, NEW t \in Tasks, NEW task,
           send_queue' = UpdateSend(t, task),
           task.status \in {"TRANSING", "ERROR", "FAULT", "PENDING", "STARTED"}
    PROVE  Promise!Next
<1>1. CASE send_queue[t].status \in Absent
    BY <1>1, PhasesStay DEF UpdateSend
<1>2. CASE send_queue[t].status \notin Absent
    BY <1>2, Tried DEF UpdateSend
<1> QED BY <1>1, <1>2

-----------------------------------------------------------------------------
(* The steps of the protocol *)

LEMMA SendStep ==
    ASSUME AnswersInv, Next, NEW p \in Peers, NEW t \in Tasks,
           SendUserTask(p, t) \/ SendUserTaskFails(p, t) \/ PackFails(p, t)
    PROVE  Promise!Next
<1>1. TypeOK /\ UNCHANGED delivered
    BY DEF AnswersInv, SendUserTask, SendUserTaskFails, PackFails, files
<1> DEFINE task == Packed(t, send_queue[t])
           fault == [task EXCEPT !.status = "FAULT", !.error_count = -1]
<1>2. /\ task \in SendTask /\ task.status = "TRANSING"
      /\ Failure(task).status = "ERROR"
    BY <1>1, PackedType, FailureType DEF TypeOK
<1>3. fault.status = "FAULT"
    BY <1>2 DEF SendTask
<1>4. \/ send_queue' = UpdateSend(t, task)
      \/ send_queue' = UpdateSend(t, Failure(task))
      \/ send_queue' = UpdateSend(t, fault)
    BY DEF SendUserTask, SendUserTaskFails, PackFails
<1> HIDE DEF task, fault
<1> QED BY <1>1, <1>2, <1>3, <1>4, TriedUpdate

\* A wait that fails, and a COMPLETE_SIG that ends one.
LEMMA WaitStep ==
    ASSUME AnswersInv, Next, NEW p \in Peers,
           ReceiveFails(p) \/ ReceiveTimesOut(p) \/ ProcessComplete(p)
    PROVE  Promise!Next
<1>1. TypeOK /\ UNCHANGED delivered
    BY DEF AnswersInv, ReceiveFails, ReceiveTimesOut, ProcessComplete, files
<1>2. CASE UNCHANGED send_queue
    BY <1>1, <1>2, PhasesStay
<1>3. CASE ~UNCHANGED send_queue
    <2>1. NoAnswer(p)
        BY <1>3 DEF ReceiveFails, ReceiveTimesOut, ProcessComplete
    <2>2. /\ sending[p].id # 0
          /\ send_queue' = UpdateSend(sending[p].id, Failure(sending[p].task))
        BY <1>3, <2>1 DEF NoAnswer
    <2>3. sending[p].id \in Tasks /\ Failure(sending[p].task).status = "ERROR"
        BY <1>1, <2>2, FailureType DEF TypeOK
    <2> QED BY <1>1, <2>2, <2>3, TriedUpdate
<1> QED BY <1>2, <1>3

LEMMA AnswerStep ==
    ASSUME AnswersInv, Next, NEW p \in Peers, ProcessAnswer(p)
    PROVE  Promise!Next
<1> DEFINE id == received[p].id
<1>1. TypeOK /\ UNCHANGED delivered
    BY DEF AnswersInv, ProcessAnswer, files
<1>2. /\ id \in Tasks
      /\ send_queue[id].status \notin Absent
      /\ send_queue'[id].status = "CHECKED" => received[p].type = "CHECK_PASS"
      /\ send_queue'[id].status = "COMPLETED" => received[p].type = "REPLY"
    BY <1>1, Answered
<1>3. send_queue' = [send_queue EXCEPT ![id] = send_queue'[id]]
    <2>1. \A u \in Tasks \ {id} : send_queue'[u] = send_queue[u]
        BY <1>1, Answered
    <2>2. send_queue' \in [Tasks -> SendTask]
        BY <1>1, TypeNext DEF TypeOK, Next, PeerStep
    <2> QED BY <1>1, <1>2, <2>1, <2>2 DEF TypeOK
<1>4. send_queue'[id].status \in {"PENDING", "CHECKED", "STARTED", "COMPLETED"}
    <2>1. received[p].type \in {"LASTPOS", "CHECK_PASS", "CHECK_FAILED", "REPLY"}
        BY DEF ProcessAnswer, Processing, AnswerTypes, ControlTypes
    <2>2. send_queue[id] \in SendTask
        BY <1>1, <1>2 DEF TypeOK
    <2>3. Success(id, send_queue[id]).status \in {"STARTED", "COMPLETED"}
        BY <1>2, <2>2, SuccessType
    <2>4. PICK answered :
            /\ send_queue' = [send_queue EXCEPT ![id] = answered]
            /\ \/ answered = [send_queue[id] EXCEPT !.current_position = received[p].pos,
                                 !.error_count = Lesser(@ + 1, MaxErrorCount + 1),
                                 !.status = "PENDING"]
               \/ answered = [send_queue[id] EXCEPT !.status = "CHECKED"]
               \/ answered = [send_queue[id] EXCEPT !.current_position = 0, !.status = "PENDING"]
               \/ answered = Success(id, send_queue[id])
        BY <1>2, <2>1 DEF ProcessAnswer, UpdateSend
    <2>5. send_queue'[id] = answered
        BY <1>1, <1>2, <2>4 DEF TypeOK
    <2>6. answered.status \in {"PENDING", "CHECKED", "STARTED", "COMPLETED"}
        BY <2>2, <2>3, <2>4 DEF SendTask
    <2> QED BY <2>5, <2>6
<1>5. CASE send_queue'[id].status \in {"PENDING", "STARTED"}
    BY <1>1, <1>2, <1>3, <1>5, Tried
<1>6. CASE send_queue'[id].status \in {"CHECKED", "COMPLETED"}
    <2>1. send_queue'[id].status = "CHECKED" \/ Kind[id] # "LARGE_FILE" => id \in delivered
        BY <1>2, <1>6, AnswerGood DEF Justified
    <2> QED BY <1>1, <1>2, <1>3, <1>6, <2>1, Finished
<1> QED BY <1>4, <1>5, <1>6

\* What is handed over was submitted.
LEMMA DeliverStep ==
    ASSUME AnswersInv, NEW p \in Peers, CheckFile(p) \/ ProcessMessage(p)
    PROVE  [Promise!Next]_Promise!vars
<1> DEFINE id == received[p].id
<1>1. UNCHANGED [t \in Tasks |-> Phase(t)]
    <2>1. UNCHANGED <<send_queue, send_left>>
        BY DEF CheckFile, ProcessMessage, ThenReply
    <2> QED BY <2>1 DEF Phase
<1>2. delivered' = delivered \/ delivered' = delivered \cup {id}
    BY DEF CheckFile, ProcessMessage
<1>3. received[p] \in GoodReceived /\ received[p].type \in UserTypes
    BY DEF AnswersInv, CheckFile, ProcessMessage, Processing, FileTypes, UserTypes
<1>4. id \in Tasks /\ Phase(id) # "none"
    <2>1. id \in Tasks /\ Submitted(id)
        BY <1>3 DEF GoodReceived, Received, NamesTask, UserTypes
    <2> QED BY <2>1, PhaseCases DEF Submitted
<1> QED BY <1>1, <1>2, <1>4 DEF Promise!Next, Promise!Deliver, Promise!vars

LEMMA SubmitStep ==
    ASSUME AnswersInv, Next, NEW t \in Tasks,
           AddTask(t) \/ \E p \in Peers : CrashWhileAdding(p, t)
    PROVE  Promise!Next
<1>1. PICK status \in {"PENDING", "INITIAL"} :
        send_queue' = [send_queue EXCEPT ![t] = NewTask(t, status)]
    BY DEF AddTask, CrashWhileAdding
<1>2. UNCHANGED delivered /\ Phase(t) = "none"
    BY PhaseCases DEF AddTask, CrashWhileAdding, files
<1>3. /\ send_queue'[t] = NewTask(t, status)
      /\ Phase(t)' = "waiting" => Promise!Become(t, "waiting")
      /\ Phase(t)' = "failed" => Promise!Become(t, "failed")
    BY <1>1, <1>2, OnePhase
<1>4. Phase(t)' \in {"waiting", "failed"}
    BY <1>3 DEF Phase, NewTask
<1> QED BY <1>2, <1>3, <1>4 DEF Promise!Next, Promise!Submit, Promise!Fail

LEMMA DeleteStep ==
    ASSUME AnswersInv, Next,
           (\E t \in Tasks : DeleteSend(t)) \/ (\E p \in Peers : DeleteAllSend(p))
    PROVE  Promise!Next
<1> DEFINE S == {t \in Tasks : send_queue'[t] # send_queue[t]}
<1>1. \A t \in Tasks : \/ send_queue'[t] = send_queue[t]
                      \/ /\ send_queue[t].status \notin Absent
                         /\ send_queue'[t] = [send_queue[t] EXCEPT !.status = "DELETED"]
    <2>1. CASE \E t \in Tasks : DeleteSend(t)
        BY <2>1 DEF DeleteSend, AnswersInv, TypeOK
    <2>2. CASE \E p \in Peers : DeleteAllSend(p)
        BY <2>2 DEF DeleteAllSend
    <2> QED BY <2>1, <2>2
<1>2. ASSUME NEW t \in S
      PROVE  Phase(t) \in {"waiting", "failed", "done"} /\ Phase(t)' \in {"dropped", "deleted"}
    <2>1. send_queue[t] \in SendTask
        BY DEF AnswersInv, TypeOK
    <2>2. send_queue[t].status \notin Absent /\ send_queue'[t].status = "DELETED"
        BY <1>1, <2>1 DEF SendTask
    <2> QED BY <2>2, PhaseCases DEF Absent, Phase, Promise!Phases
<1>3. ASSUME NEW t \in Tasks \ S
      PROVE  \/ Phase(t)' = Phase(t)
             \/ Phase(t) = "dropped" /\ Phase(t)' = "deleted"
    <2>1. t \in Tasks /\ send_queue'[t] = send_queue[t]
        OBVIOUS
    <2> QED BY <2>1, OthersKeep
<1>4. UNCHANGED delivered /\ S \in SUBSET Tasks
    BY DEF DeleteSend, DeleteAllSend, files
<1> HIDE DEF S
<1>5. Promise!Delete(S)
    BY <1>2, <1>3, <1>4, PhasesNext DEF Promise!Delete, Promise!Keeps
<1> QED BY <1>4, <1>5 DEF Promise!Next

\* What the process that is started next finds in the file of its queue.
LEMMA RestartStep ==
    ASSUME AnswersInv, Next, NEW p \in Peers,
           NullDereference(p) \/ Crash(p) \/ CrashWhileUnpacking(p) \/ CrashBeforeExtension(p)
    PROVE  Promise!Next
<1>1. TypeOK /\ LeftInv
    BY DEF AnswersInv
<1>2. send_queue' = SendRead(p) /\ WriteSend(p) /\ UNCHANGED delivered
    BY DEF NullDereference, Crash, CrashWhileUnpacking, CrashBeforeExtension, Die, files
<1>3. ASSUME NEW u \in Tasks
      PROVE  \/ Phase(u)' = Phase(u)
             \/ /\ Phase(u) = "dropped"
                /\ Phase(u)' \in {"waiting", "failed"} \/ (Phase(u)' = "done" /\ u \in delivered)
    <2>1. CASE ~(Owner[u] = p /\ send_left[u] # "NONE")
        <3>1. send_queue'[u] = send_queue[u] /\ send_left'[u] = send_left[u]
            BY <1>1, <1>2, <2>1 DEF SendRead, WriteSend
        <3> QED BY <3>1 DEF Phase
    <2>2. CASE Owner[u] = p /\ send_left[u] # "NONE"
        <3>1. send_queue'[u].status = send_left[u]
            <4>1. send_queue[u] \in SendTask /\ send_left[u] \in SendStatus
                BY <1>1 DEF TypeOK
            <4>2. send_queue'[u] = [send_queue[u] EXCEPT !.status = send_left[u]]
                BY <1>2, <2>2 DEF SendRead
            <4> QED BY <4>1, <4>2 DEF SendTask
        <3>2. /\ send_queue[u].status = "DELETED" /\ send_left[u] # "DELETED"
              /\ Acknowledged(u, send_left[u])
            BY <1>1, <2>2 DEF LeftInv, TypeOK
        <3>3. Phase(u) = "dropped"
            BY <2>2, <3>2 DEF Phase
        <3>4. CASE send_left[u] = "CHECKED" \/ (send_left[u] = "COMPLETED" /\ Kind[u] # "LARGE_FILE")
            <4>1. Phase(u)' = "done" /\ u \in delivered
                BY <3>1, <3>2, <3>4 DEF Phase, Acknowledged
            <4> QED BY <3>3, <4>1
        <3>5. CASE ~(send_left[u] = "CHECKED" \/ (send_left[u] = "COMPLETED" /\ Kind[u] # "LARGE_FILE"))
            <4>1. Phase(u)' \in {"waiting", "failed"}
                BY <2>2, <3>1, <3>2, <3>5 DEF Phase
            <4> QED BY <3>3, <4>1
        <3> QED BY <3>4, <3>5
    <2> QED BY <2>1, <2>2
<1>4. Promise!BringBack
    BY <1>2, <1>3, PhasesNext DEF Promise!BringBack
<1> QED BY <1>4 DEF Promise!Next

LEMMA RefinesInit == Init => Promise!Init
<1> SUFFICES ASSUME Init PROVE Promise!Init
    OBVIOUS
<1>1. \A t \in Tasks : send_queue[t].status = "NONE"
    BY DEF Init, NewTask
<1> QED BY <1>1 DEF Init, Promise!Init, Phase

LEMMA RefinesNext == AnswersInv /\ [Next]_vars => [Promise!Next]_Promise!vars
<1> SUFFICES ASSUME AnswersInv, [Next]_vars PROVE [Promise!Next]_Promise!vars
    OBVIOUS
<1> DEFINE Goal == [Promise!Next]_Promise!vars
<1>1. ASSUME UNCHANGED <<send_queue, delivered>> PROVE Goal
    BY <1>1, PhasesStay
<1>2. ASSUME NEW p \in Peers,
             \/ CloseConn(p) \/ SendReply(p) \/ SendReplyFails(p) \/ Receive(p)
             \/ ReportPosition(p) \/ AckPart(p)
      PROVE  Goal
    BY <1>1, <1>2 DEF CloseConn, SendReply, SendReplyFails, Receive, ReportPosition, AckPart,
        ThenReply, queues, files
<1>3. ASSUME Connect \/ Cut \/ UNCHANGED vars \/ \E t \in Tasks : DeleteReceive(t)
      PROVE  Goal
    BY <1>1, <1>3 DEF Connect, Cut, vars, DeleteReceive, queues, files
<1>4. CASE UNCHANGED vars
    BY <1>3, <1>4
<1>5. CASE Next
    <2> HIDE DEF Goal
    <2>1. ASSUME NEW p \in Peers, NEW t \in Tasks,
                 SendUserTask(p, t) \/ SendUserTaskFails(p, t) \/ PackFails(p, t)
          PROVE  Goal
        BY <1>5, <2>1, SendStep DEF Goal
    <2>2. ASSUME NEW p \in Peers, ReceiveFails(p) \/ ReceiveTimesOut(p) \/ ProcessComplete(p)
          PROVE  Goal
        BY <1>5, <2>2, WaitStep DEF Goal
    <2>3. ASSUME NEW p \in Peers, ProcessAnswer(p) PROVE Goal
        BY <1>5, <2>3, AnswerStep DEF Goal
    <2>4. ASSUME NEW p \in Peers, CheckFile(p) \/ ProcessMessage(p) PROVE Goal
        BY <2>4, DeliverStep DEF Goal
    <2>5. ASSUME NEW t \in Tasks, AddTask(t) \/ \E p \in Peers : CrashWhileAdding(p, t)
          PROVE  Goal
        BY <1>5, <2>5, SubmitStep DEF Goal
    <2>6. ASSUME (\E t \in Tasks : DeleteSend(t)) \/ (\E p \in Peers : DeleteAllSend(p))
          PROVE  Goal
        BY <1>5, <2>6, DeleteStep DEF Goal
    <2>7. ASSUME NEW p \in Peers,
                 NullDereference(p) \/ Crash(p) \/ CrashWhileUnpacking(p) \/ CrashBeforeExtension(p)
          PROVE  Goal
        BY <1>5, <2>7, RestartStep DEF Goal
    <2>8. ASSUME NEW p \in Peers, PeerStep(p) PROVE Goal
        BY <1>2, <2>1, <2>2, <2>3, <2>4, <2>7, <2>8 DEF PeerStep
    <2>9. ASSUME Fault PROVE Goal
        BY <1>3, <2>1, <2>2, <2>5, <2>7, <2>9 DEF Fault
    <2>10. ASSUME User PROVE Goal
        BY <1>3, <2>5, <2>6, <2>10 DEF User
    <2>11. Goal
        BY <1>3, <1>5, <2>8, <2>9, <2>10 DEF Next
    <2> QED BY <2>11 DEF Goal
<1> QED BY <1>4, <1>5

\* For every set of tasks, configuration and number of faults, with or without
\* deletions, the protocol keeps the promise of at-least-once delivery: what
\* is called done was handed over before, only what was submitted is handed
\* over, and what was deleted stays so, once the file of the queue says it too.
THEOREM CommunicationImplementsDelivery == Spec => ImplementsDelivery
<1>1. Init => Promise!Init
    BY RefinesInit
<1>2. AnswersInv /\ [Next]_vars => [Promise!Next]_Promise!vars
    BY RefinesNext
<1> QED BY <1>1, <1>2, Answers, PTL DEF Spec, ImplementsDelivery, Promise!Spec

-----------------------------------------------------------------------------
(***************************************************************************)
(* Turns                                                                   *)
(*                                                                         *)
(* Whose turn it is, for every set of tasks, every configuration and any   *)
(* number of faults, as long as the user deletes nothing and gives no task *)
(* a priority above that of the answers (OrderlyUse): the two session      *)
(* loops never speak at the same time, and what an exchange leaves behind  *)
(* in a send queue is paid for by a fault.                                 *)
(***************************************************************************)
\* Control tasks have priority 1.  Degradation only adds to a priority.
OrderlyUse ==
    /\ ~UserDeletes
    /\ MaxPriority > 1
    /\ \A t \in Tasks : Priority[t] > 1

-----------------------------------------------------------------------------
(* The inductive invariant *)

\* No user task is chosen while a control task may be sent.
AnswersFirst ==
    /\ \A t \in Tasks : send_queue[t].priority > 1
    /\ \A p \in Peers : sending[p].id # 0 => sending[p].task.priority > 1

Only(seq, types) == \A i \in 1..Len(seq) : seq[i].type \in types
Ordered(seq) == \A i \in 1..Len(seq) - 1 : seq[i].type \in AnswerTypes
EndsIn(seq, types) == seq # <<>> /\ seq[Len(seq)].type \in types

InHand(p, types) == pc[p] = "PROCESS" /\ received[p].type \in types

\* What p has still to process: the task in hand, then its channel.
OnlyOf(p, types) ==
    Only(chan[p], types) /\ (pc[p] = "PROCESS" => received[p].type \in types)
LastIs(p, types) ==
    EndsIn(chan[p], types) \/ (chan[p] = <<>> /\ InHand(p, types))

\* Nothing follows a user task or a COMPLETE_SIG.
InOrder(p) ==
    /\ Ordered(chan[p])
    /\ pc[p] = "PROCESS" /\ received[p].type \notin AnswerTypes => chan[p] = <<>>
    /\ pc[p] = "REPLY" => chan[p] = <<>>

Fresh(p) == \E i \in 1..Len(reply_queue[p]) : reply_queue[p][i].error_count = 0

\* The point a peer is at agrees with its loop and with the copy it waits with.
PointFits(p) ==
    /\ sending[p].nested = FALSE
    /\ sending[p].id # 0 <=> loop[p] = "SEND" /\ pc[p] \in {"AWAIT", "PROCESS"}
    /\ pc[p] \in {"SEND", "AWAIT"} => loop[p] = "SEND"
    /\ pc[p] \in {"RECV", "REPLY"} => loop[p] = "RECV"
    /\ pc[p] = "REPLY" => Fresh(p)
    /\ loop[p] = "SEND" => OnlyOf(p, ControlTypes)

Live == up /\ \A p \in Peers : pc[p] # "IDLE"

Turn(p) == loop[p] = "SEND" /\ loop[Other(p)] = "RECV"
\* p sends, and has not asked anything.
Talks(p) ==
    /\ Turn(p) /\ pc[p] = "SEND" /\ chan[p] = <<>>
    /\ pc[Other(p)] \in {"RECV", "PROCESS", "CLOSE"}
    /\ OnlyOf(Other(p), AnswerTypes)
\* p has sent a user task.
Asks(p) ==
    /\ Turn(p) /\ pc[p] \in {"AWAIT", "CLOSE"} /\ chan[p] = <<>>
    /\ pc[Other(p)] \in {"RECV", "PROCESS", "REPLY", "CLOSE"}
    /\ pc[Other(p)] \in {"REPLY", "CLOSE"} \/ LastIs(Other(p), DataTypes \cup UserTypes)
\* ... and the other has answered it, with whatever control task it chose.
Heard(p) ==
    /\ Turn(p) /\ pc[p] \in {"AWAIT", "PROCESS", "CLOSE"}
    /\ pc[p] = "AWAIT" => Len(chan[p]) = 1
    /\ pc[p] = "PROCESS" => chan[p] = <<>>
    /\ chan[Other(p)] = <<>> /\ pc[Other(p)] \in {"RECV", "CLOSE"}
\* p has sent its last message: its COMPLETE_SIG, if it is the client.
Leaves(p) ==
    /\ Turn(p) /\ pc[p] = "CLOSE" /\ chan[p] = <<>>
    /\ pc[Other(p)] \in {"RECV", "PROCESS", "CLOSE"}
    /\ OnlyOf(Other(p), IF p = Client THEN ControlTypes ELSE AnswerTypes)
\* The server has sent COMPLETE_SIG, the client has not yet seen it.
HandsOver ==
    /\ loop[Server] = "RECV" /\ loop[Client] = "RECV"
    /\ pc[Server] \in {"RECV", "CLOSE"} /\ chan[Server] = <<>>
    /\ pc[Client] \in {"RECV", "PROCESS", "CLOSE"}
    /\ pc[Client] = "CLOSE" \/ LastIs(Client, {"COMPLETE_SIG"})

InTurn == HandsOver \/ \E p \in Peers : Talks(p) \/ Asks(p) \/ Heard(p) \/ Leaves(p)

TurnsInv ==
    /\ AnswersInv
    /\ AnswersFirst
    /\ \A p \in Peers : InOrder(p) /\ PointFits(p)
    /\ Live => InTurn
    /\ HalfDuplex

-----------------------------------------------------------------------------
(* Sequences of messages that are read from the front.                     *)

LEMMA EmptyOrder ==
    ASSUME NEW types
    PROVE  Only(<<>>, types) /\ Ordered(<<>>) /\ ~EndsIn(<<>>, types)
BY DEF Only, Ordered, EndsIn

LEMMA AppendOrder ==
    ASSUME NEW S, NEW seq \in Seq(S), NEW m \in S, NEW types
    PROVE  /\ Append(seq, m) # <<>>
           /\ Only(seq, AnswerTypes) => Ordered(Append(seq, m))
           /\ Only(seq, types) /\ m.type \in types => Only(Append(seq, m), types)
           /\ m.type \in types => EndsIn(Append(seq, m), types)
           /\ seq = <<>> => Len(Append(seq, m)) = 1
<1>1. /\ Append(seq, m) \in Seq(S) /\ Len(Append(seq, m)) = Len(seq) + 1
      /\ Append(seq, m)[Len(seq) + 1] = m
      /\ \A i \in 1..Len(seq) : Append(seq, m)[i] = seq[i]
    BY AppendProperties
<1>2. Len(seq) \in Nat
    OBVIOUS
<1>3. Append(seq, m) # <<>>
    BY <1>1, <1>2
<1> QED BY <1>1, <1>2, <1>3 DEF Only, Ordered, EndsIn

LEMMA TailOrder ==
    ASSUME NEW S, NEW seq \in Seq(S), seq # <<>>, NEW types
    PROVE  /\ Only(seq, types) => Head(seq).type \in types /\ Only(Tail(seq), types)
           /\ Ordered(seq) => /\ Ordered(Tail(seq))
                              /\ Tail(seq) # <<>> => Head(seq).type \in AnswerTypes
           /\ EndsIn(seq, types) => IF Tail(seq) = <<>> THEN Head(seq).type \in types
                                    ELSE EndsIn(Tail(seq), types)
           /\ Len(seq) = 1 => Tail(seq) = <<>>
<1>1. /\ Len(seq) \in Nat \ {0} /\ Head(seq) = seq[1]
      /\ Tail(seq) \in Seq(S) /\ Len(Tail(seq)) = Len(seq) - 1
      /\ \A i \in 1..Len(Tail(seq)) : Tail(seq)[i] = seq[i + 1]
    BY HeadTailProperties, EmptySeq
<1>2. Tail(seq) = <<>> <=> Len(seq) = 1
    BY <1>1, EmptySeq
<1>3. Only(seq, types) => Head(seq).type \in types /\ Only(Tail(seq), types)
    BY <1>1 DEF Only
<1>4. Ordered(seq) => /\ Ordered(Tail(seq))
                      /\ Tail(seq) # <<>> => Head(seq).type \in AnswerTypes
    BY <1>1, <1>2 DEF Ordered
<1>5. EndsIn(seq, types) => IF Tail(seq) = <<>> THEN Head(seq).type \in types
                            ELSE EndsIn(Tail(seq), types)
    BY <1>1, <1>2 DEF EndsIn
<1> QED BY <1>2, <1>3, <1>4, <1>5

LEMMA CutOrder ==
    ASSUME NEW S, NEW seq \in Seq(S), NEW rest \in CutShort(seq), NEW types
    PROVE  /\ Only(seq, types) => Only(rest, types)
           /\ Ordered(seq) => Ordered(rest)
           /\ seq = <<>> => rest = <<>>
<1>1. PICK n \in 0..Len(seq) : rest = SubSeq(seq, 1, n)
    BY DEF CutShort
<1>2. /\ Len(rest) = n
      /\ \A i \in 1..n : rest[i] = seq[i]
    BY <1>1, SubSeqProperties
<1>3. rest \in Seq(S)
    BY <1>1, SubSeqInSeq
<1>4. seq = <<>> => rest = <<>>
    BY <1>2, <1>3, EmptySeq
<1> QED BY <1>1, <1>2, <1>4 DEF Only, Ordered

LEMMA AnswersAreControl ==
    /\ \A seq : Only(seq, AnswerTypes) => Only(seq, ControlTypes) /\ Ordered(seq)
    /\ AnswerTypes \cap (DataTypes \cup UserTypes) = {}
    /\ ControlTypes \cap (DataTypes \cup UserTypes) = {}
    /\ "COMPLETE_SIG" \in ControlTypes /\ "COMPLETE_SIG" \notin AnswerTypes
    /\ ControlTypes = AnswerTypes \cup {"COMPLETE_SIG"}
<1>1. ASSUME NEW seq, Only(seq, AnswerTypes) PROVE Only(seq, ControlTypes)
    BY <1>1 DEF Only, AnswerTypes
<1>2. ASSUME NEW seq, Only(seq, AnswerTypes) PROVE Ordered(seq)
    <2>1. \A i \in 1..Len(seq) - 1 : i \in 1..Len(seq)
        OBVIOUS
    <2> QED BY <1>2, <2>1 DEF Only, Ordered
<1> QED BY <1>1, <1>2 DEF AnswerTypes, ControlTypes, DataTypes, UserTypes

LEMMA TwoPeers ==
    ASSUME NEW p \in Peers
    PROVE  /\ Other(p) \in Peers /\ Other(p) # p /\ Other(Other(p)) = p
           /\ \A r \in Peers : r = p \/ r = Other(p)
BY PeersAssumption DEF Other, Peers

LEMMA LiveOpen ==
    ASSUME NEW p \in Peers, pc[p] # "IDLE"
    PROVE  Open(p) <=> Live
BY TwoPeers, Zenon DEF Open, Live

-----------------------------------------------------------------------------
(* Answers come first.                                                     *)

\* A control task that never failed is in the queue: it will be sent, and
\* nothing of the user's.
LEMMA FreshFirst ==
    ASSUME TurnsInv, NEW p \in Peers, Fresh(p)
    PROVE  /\ PendingReplies(p) = {reply_queue[p]}
           /\ \A t \in Tasks : \A replies \in PendingReplies(p) : ~PicksTask(p, replies, t)
<1>1. PICK i \in 1..Len(reply_queue[p]) : ~MayBeSkipped(reply_queue[p][i])
    BY DEF Fresh, MayBeSkipped
<1>2. PendingReplies(p) = {reply_queue[p]}
    BY <1>1 DEF PendingReplies
<1>3. ASSUME NEW t \in Tasks PROVE ~PicksTask(p, reply_queue[p], t)
    <2>1. ReplyPrecedes(reply_queue[p][i], t)
        BY DEF TurnsInv, AnswersFirst, ReplyPrecedes
    <2> QED BY <1>1, <2>1 DEF PicksTask
<1> QED BY <1>2, <1>3

\* A user task is chosen only where no COMPLETE_SIG has been added.
LEMMA TaskAfterReplies ==
    ASSUME TurnsInv, NEW p \in Peers, NEW t \in Tasks,
           NEW replies \in PendingReplies(p), PicksTask(p, replies, t)
    PROVE  replies = reply_queue[p]
<1> SUFFICES ASSUME replies = Append(reply_queue[p], NewControl(p, "COMPLETE_SIG", 0, 0))
             PROVE  FALSE
    BY DEF PendingReplies
<1> DEFINE c == NewControl(p, "COMPLETE_SIG", 0, 0)
           n == Len(reply_queue[p]) + 1
<1>1. c \in Control
    BY MessageTypes DEF Peers
<1>2. c.error_count = 0
    BY DEF NewControl
<1> HIDE DEF c
<1>3. replies[n] = c /\ n \in 1..Len(replies)
    BY <1>1, AppendProperties DEF TurnsInv, AnswersInv, TypeOK, c
<1>4. ~MayBeSkipped(replies[n])
    BY <1>2, <1>3 DEF MayBeSkipped
<1>5. ReplyPrecedes(replies[n], t)
    BY DEF TurnsInv, AnswersFirst, ReplyPrecedes
<1> QED BY <1>3, <1>4, <1>5 DEF PicksTask

\* What becomes of the priority of a task.
LEMMA PriorityKept ==
    ASSUME OrderlyUse, NEW t \in Tasks, NEW task \in SendTask, task.priority > 1
    PROVE  /\ Packed(t, task).priority > 1
           /\ Success(t, task).priority > 1
           /\ Failure(task).priority > 1
<1>1. Packed(t, task).priority > 1
    BY DEF Packed, SendTask
<1>2. Success(t, task).priority > 1
    BY DEF Success, SendTask
<1>3. Failure(task).priority > 1
    <2>1. Lesser(task.priority + 1, MaxPriority) > 1
        BY ConfigAssumption DEF Lesser, OrderlyUse, SendTask
    <2> QED BY <2>1 DEF Failure, SendTask
<1> QED BY <1>1, <1>2, <1>3

LEMMA PriorityNext ==
    ASSUME OrderlyUse, TypeOK, AnswersFirst, Next
    PROVE  AnswersFirst'
<1> USE DEF queues
<1>1. TypeOK'
    BY TypeNext
<1>2. ASSUME NEW t \in Tasks, NEW task \in SendTask, task.priority > 1,
             send_queue' = UpdateSend(t, task)
      PROVE  \A u \in Tasks : send_queue'[u].priority > 1
    BY <1>2 DEF UpdateSend, AnswersFirst, TypeOK
<1>3. ASSUME NEW p \in Peers, NEW t \in Tasks, SendUserTask(p, t) PROVE AnswersFirst'
    <2> DEFINE task == Packed(t, send_queue[t])
    <2>1. task \in SendTask /\ task.priority > 1
        BY PackedType, PriorityKept DEF AnswersFirst, TypeOK
    <2>2. /\ send_queue' = UpdateSend(t, task)
          /\ sending' = [sending EXCEPT ![p] =
                            [id |-> t, nested |-> pc[p] = "REPLY", task |-> task]]
        BY <1>3 DEF SendUserTask
    <2> HIDE DEF task
    <2>3. \A u \in Tasks : send_queue'[u].priority > 1
        BY <1>2, <2>1, <2>2
    <2>4. ASSUME NEW r \in Peers, sending'[r].id # 0 PROVE sending'[r].task.priority > 1
        <3>1. CASE r = p
            <4>1. sending'[r].task = task
                BY <2>2, <3>1 DEF TypeOK
            <4> QED BY <2>1, <4>1
        <3>2. CASE r # p
            BY <2>2, <2>4, <3>2 DEF TypeOK, AnswersFirst
        <3> QED BY <3>1, <3>2
    <2> QED BY <2>3, <2>4 DEF AnswersFirst
<1>4. ASSUME NEW p \in Peers,
             \A u \in Tasks : send_queue'[u].priority > 1,
             sending' = [sending EXCEPT ![p] = NoTask] \/ UNCHANGED sending
      PROVE  AnswersFirst'
    BY <1>4, NoTaskType DEF AnswersFirst, TypeOK
<1>5. ASSUME NEW p \in Peers, NEW t \in Tasks, SendUserTaskFails(p, t) \/ PackFails(p, t)
      PROVE  AnswersFirst'
    <2> DEFINE task == Packed(t, send_queue[t])
               fault == [task EXCEPT !.status = "FAULT", !.error_count = -1]
    <2>1. task \in SendTask /\ task.priority > 1
        BY PackedType, PriorityKept DEF AnswersFirst, TypeOK
    <2>2. Failure(task) \in SendTask /\ Failure(task).priority > 1
        BY <2>1, FailureType, PriorityKept
    <2>3. fault \in SendTask /\ fault.priority > 1
        <3>1. -1 \in -1..MaxErrorCount + 1 /\ "FAULT" \in SendStatus
            BY ConfigAssumption DEF SendStatus
        <3> QED BY <2>1, <3>1 DEF SendTask
    <2>4. send_queue' = UpdateSend(t, Failure(task)) \/ send_queue' = UpdateSend(t, fault)
        BY <1>5 DEF SendUserTaskFails, PackFails
    <2>5. sending' = [sending EXCEPT ![p] = NoTask]
        BY <1>5 DEF SendUserTaskFails, PackFails, AfterSendError
    <2> HIDE DEF task, fault
    <2> QED BY <1>2, <1>4, <2>2, <2>3, <2>4, <2>5
<1>6. ASSUME NEW p \in Peers, ReceiveFails(p) \/ ReceiveTimesOut(p) \/ ProcessComplete(p)
      PROVE  AnswersFirst'
    <2>1. NoAnswer(p) \/ UNCHANGED <<send_queue, sending>>
        BY <1>6 DEF ReceiveFails, ReceiveTimesOut, ProcessComplete
    <2>2. CASE NoAnswer(p) /\ sending[p].id # 0
        <3>1. /\ sending[p].id \in Tasks /\ sending[p].task \in SendTask
              /\ sending[p].task.priority > 1
            BY <2>2 DEF TypeOK, AnswersFirst
        <3>2. Failure(sending[p].task) \in SendTask /\ Failure(sending[p].task).priority > 1
            BY <3>1, FailureType, PriorityKept
        <3> QED BY <1>2, <1>4, <2>2, <3>1, <3>2 DEF NoAnswer
    <2>3. CASE NoAnswer(p) /\ sending[p].id = 0
        BY <1>4, <2>3 DEF NoAnswer, AnswersFirst
    <2>4. CASE UNCHANGED <<send_queue, sending>>
        BY <2>4 DEF AnswersFirst
    <2> QED BY <2>1, <2>2, <2>3, <2>4
<1>7. ASSUME NEW p \in Peers, ProcessAnswer(p) PROVE AnswersFirst'
    <2> DEFINE t == received[p].id
               task == send_queue[t]
    <2>1. /\ t \in Tasks
          /\ received[p].type \in {"LASTPOS", "CHECK_PASS", "CHECK_FAILED", "REPLY"}
        BY <1>7 DEF ProcessAnswer, Processing, TypeOK, Received, NamesTask, AnswerTypes, ControlTypes
    <2>2. task \in SendTask /\ task.priority > 1
        BY <2>1 DEF TypeOK, AnswersFirst
    <2>3. PICK answered :
            /\ send_queue' = UpdateSend(t, answered)
            /\ \/ answered = [task EXCEPT !.current_position = received[p].pos,
                                 !.error_count = Lesser(@ + 1, MaxErrorCount + 1),
                                 !.status = "PENDING"]
               \/ answered = [task EXCEPT !.status = "CHECKED"]
               \/ answered = [task EXCEPT !.current_position = 0, !.status = "PENDING"]
               \/ answered = Success(t, task)
        BY <1>7, <2>1 DEF ProcessAnswer
    <2>4. answered.priority > 1
        BY <2>1, <2>2, <2>3, PriorityKept DEF SendTask
    <2>5. \A u \in Tasks : send_queue'[u].priority > 1
        BY <2>3, <2>4 DEF UpdateSend, AnswersFirst, TypeOK
    <2> QED BY <1>4, <1>7, <2>5 DEF ProcessAnswer
<1>8. ASSUME NEW t \in Tasks, AddTask(t) \/ \E p \in Peers : CrashWhileAdding(p, t)
      PROVE  AnswersFirst'
    <2>1. PICK new : /\ send_queue' = [send_queue EXCEPT ![t] = new]
                     /\ new = NewTask(t, "PENDING") \/ new = NewTask(t, "INITIAL")
        BY <1>8 DEF AddTask, CrashWhileAdding
    <2>2. new.priority > 1
        BY <2>1 DEF NewTask, OrderlyUse
    <2>3. \A u \in Tasks : send_queue'[u].priority > 1
        BY <2>1, <2>2 DEF AnswersFirst, TypeOK
    <2>4. \E p \in Peers : sending' = [sending EXCEPT ![p] = NoTask] \/ UNCHANGED sending
        BY <1>8 DEF AddTask, CrashWhileAdding, Die, Peers
    <2> QED BY <1>4, <2>3, <2>4
<1>9. ASSUME NEW p \in Peers,
             UNCHANGED send_queue,
             sending' = [sending EXCEPT ![p] = NoTask] \/ UNCHANGED sending
      PROVE  AnswersFirst'
    BY <1>4, <1>9 DEF AnswersFirst
<1>10. ASSUME NEW p \in Peers,
             \/ CloseConn(p) \/ SendReply(p) \/ SendReplyFails(p) \/ Receive(p)
             \/ CheckFile(p) \/ ReportPosition(p) \/ AckPart(p) \/ ProcessMessage(p)
      PROVE  AnswersFirst'
    BY <1>9, <1>10 DEF CloseConn, SendReply, AfterReplySent, SendReplyFails, AfterSendError,
        Receive, CheckFile, ReportPosition, AckPart, ProcessMessage, ThenReply
<1>14. ASSUME NEW p \in Peers,
              \/ NullDereference(p) \/ Crash(p) \/ CrashWhileUnpacking(p)
              \/ CrashBeforeExtension(p)
      PROVE  AnswersFirst'
    <2>1. /\ send_queue' = SendRead(p)
          /\ sending' = [sending EXCEPT ![p] = NoTask]
        BY <1>14 DEF NullDereference, Crash, CrashWhileUnpacking, CrashBeforeExtension, Die
    <2>2. ASSUME NEW t \in Tasks PROVE send_queue'[t].priority > 1
        <3>1. SendRead(p)[t].priority = send_queue[t].priority
            <4>1. send_queue[t] \in SendTask /\ send_left[t] \in SendStatus
                BY DEF TypeOK
            <4>2. SendRead(p)[t] \in {send_queue[t], [send_queue[t] EXCEPT !.status = send_left[t]]}
                BY DEF SendRead
            <4> QED BY <4>1, <4>2 DEF SendTask
        <3>2. send_queue'[t].priority = SendRead(p)[t].priority
            BY <2>1
        <3>3. send_queue[t].priority > 1
            BY DEF AnswersFirst
        <3> QED BY <3>1, <3>2, <3>3
    <2> QED BY <1>4, <2>1, <2>2
<1>11. CASE Connect \/ Cut
    BY <1>11 DEF Connect, Cut, AnswersFirst
<1>12. ASSUME NEW t \in Tasks, DeleteReceive(t) PROVE AnswersFirst'
    BY <1>12 DEF DeleteReceive, AnswersFirst
<1>13. ~(\E t \in Tasks : DeleteSend(t)) /\ ~(\E p \in Peers : DeleteAllSend(p))
    BY DEF DeleteSend, DeleteAllSend, OrderlyUse
<1> QED BY <1>3, <1>5, <1>6, <1>7, <1>8, <1>10, <1>11, <1>12, <1>13, <1>14
        DEF Next, PeerStep, Fault, User


-----------------------------------------------------------------------------
(* The steps of the peers.                                                 *)

Kept(r) ==
    /\ pc'[r] = pc[r] /\ loop'[r] = loop[r] /\ sending'[r] = sending[r]
    /\ received'[r] = received[r] /\ reply_queue'[r] = reply_queue[r]

Goal == (\A r \in Peers : InOrder(r)' /\ PointFits(r)') /\ (Live' => InTurn')

LEMMA KeptShorter ==
    ASSUME TurnsInv, NEW r \in Peers, Kept(r),
           chan'[r] \in CutShort(chan[r]) \cup {<<>>, chan[r]}
    PROVE  InOrder(r)' /\ PointFits(r)'
<1>1. chan[r] \in Seq(Message) /\ InOrder(r) /\ PointFits(r)
    BY DEF TurnsInv, AnswersInv, TypeOK
<1>2. /\ Ordered(chan[r]) => Ordered(chan'[r])
      /\ Only(chan[r], ControlTypes) => Only(chan'[r], ControlTypes)
      /\ chan[r] = <<>> => chan'[r] = <<>>
    BY <1>1, CutOrder, EmptyOrder
<1>3. InOrder(r)'
    BY <1>1, <1>2 DEF InOrder, Kept, Ordered
<1>4. PointFits(r)'
    BY <1>1, <1>2 DEF PointFits, Kept, OnlyOf, Only, Fresh
<1> QED BY <1>3, <1>4

LEMMA KeptLonger ==
    ASSUME TurnsInv, NEW r \in Peers, Kept(r),
           NEW m \in Message, chan'[r] = Append(chan[r], m),
           OnlyOf(r, AnswerTypes), pc[r] # "REPLY",
           loop[r] = "SEND" => m.type \in ControlTypes
    PROVE  InOrder(r)' /\ PointFits(r)'
<1>1. chan[r] \in Seq(Message) /\ InOrder(r) /\ PointFits(r)
    BY DEF TurnsInv, AnswersInv, TypeOK
<1>2. Ordered(Append(chan[r], m))
    BY <1>1, AppendOrder DEF OnlyOf
<1>3. loop[r] = "SEND" => Only(Append(chan[r], m), ControlTypes)
    BY <1>1, AppendOrder DEF PointFits, OnlyOf
<1>4. InOrder(r)'
    BY <1>1, <1>2 DEF InOrder, Kept, Ordered, OnlyOf
<1>5. PointFits(r)'
    BY <1>1, <1>3 DEF PointFits, Kept, OnlyOf, Only, Fresh
<1> QED BY <1>4, <1>5

LEMMA LeavingTurns ==
    ASSUME TurnsInv, NEW p \in Peers, CloseConn(p) \/ Die(p)
    PROVE  Goal
<1> DEFINE q == Other(p)
<1>1. /\ q \in Peers /\ q # p /\ TypeOK
      /\ \A r \in Peers : r = p \/ r = q
    BY TwoPeers DEF TurnsInv, AnswersInv
<1> HIDE DEF q
<1>2. Kept(q)
    BY <1>1 DEF CloseConn, Die, Kept, TypeOK, queues
<1>3. /\ chan'[q] \in CutShort(chan[q]) \cup {chan[q]}
      /\ chan'[p] = <<>> \/ (pc[p] = "IDLE" /\ chan'[p] = chan[p])
    BY <1>1 DEF CloseConn, Die, Disconnect, TypeOK, q
<1>4. InOrder(q)' /\ PointFits(q)'
    BY <1>1, <1>2, <1>3, KeptShorter
<1>5. /\ pc'[p] = "IDLE" /\ loop'[p] = loop[p]
      /\ sending'[p] = NoTask \/ (sending'[p] = sending[p] /\ pc[p] = "CLOSE")
    BY <1>1 DEF CloseConn, Die, TypeOK
<1>6. InOrder(p) /\ PointFits(p)
    BY DEF TurnsInv
<1>7. InOrder(p)'
    BY <1>3, <1>5, <1>6, EmptyOrder DEF InOrder, Ordered
<1>8. PointFits(p)'
    <2>1. sending'[p].nested = FALSE /\ sending'[p].id = 0
        BY <1>5, <1>6 DEF PointFits, NoTask
    <2>2. loop[p] = "SEND" => Only(chan'[p], ControlTypes)
        BY <1>3, <1>6, EmptyOrder DEF PointFits, OnlyOf
    <2> QED BY <1>5, <2>1, <2>2 DEF PointFits, OnlyOf, Only
<1>9. ~Live'
    BY <1>5 DEF Live
<1> QED BY <1>1, <1>4, <1>7, <1>8, <1>9 DEF Goal

LEMMA CutTurns ==
    ASSUME TurnsInv, Cut
    PROVE  Goal
<1>1. ASSUME NEW r \in Peers PROVE Kept(r) /\ chan'[r] \in CutShort(chan[r])
    BY PeersAssumption DEF Cut, Kept, TurnsInv, AnswersInv, TypeOK, Peers, queues
<1>2. ~Live'
    BY DEF Cut, Live
<1> QED BY <1>1, <1>2, KeptShorter DEF Goal

LEMMA ConnectTurns ==
    ASSUME TurnsInv, Connect
    PROVE  Goal
<1>1. ASSUME NEW r \in Peers
      PROVE  /\ chan'[r] = <<>> /\ pc'[r] = loop'[r] /\ sending'[r] = sending[r]
             /\ loop'[r] = IF r = Server THEN "SEND" ELSE "RECV"
    BY DEF Connect
<1>2. ASSUME NEW r \in Peers PROVE InOrder(r)' /\ PointFits(r)'
    <2>1. sending[r].id = 0 /\ sending[r].nested = FALSE
        BY DEF Connect, TurnsInv, PointFits
    <2>2. InOrder(r)'
        BY <1>1, EmptyOrder DEF InOrder, Ordered
    <2>3. PointFits(r)'
        BY <1>1, <2>1, EmptyOrder DEF PointFits, OnlyOf, Only
    <2> QED BY <2>2, <2>3
<1>3. Server \in Peers /\ Other(Server) \in Peers /\ Other(Server) # Server
    BY OtherPeer DEF Peers
<1>4. Talks(Server)'
    BY <1>1, <1>3, EmptyOrder DEF Talks, Turn, OnlyOf, Only
<1> QED BY <1>2, <1>3, <1>4 DEF Goal, InTurn

\* What a step of p changes of p alone, and what it may send to the other.
OnlyPeer(p) == Kept(Other(p)) /\ up' = up
Quiet(p) == \A r \in Peers : chan'[r] = chan[r]

\* As long as p has a connection, only its other end decides whether it is live.
LEMMA LiveBefore ==
    ASSUME TurnsInv, NEW p \in Peers, OnlyPeer(p), pc[p] # "IDLE", Live'
    PROVE  Live /\ InTurn /\ Open(p)
<1>1. Live
    BY TwoPeers DEF Live, OnlyPeer, Kept
<1> QED BY <1>1, LiveOpen DEF TurnsInv

LEMMA SendReplyTurns ==
    ASSUME TurnsInv, NEW p \in Peers, SendReply(p)
    PROVE  Goal
<1> DEFINE q == Other(p)
<1>1. /\ q \in Peers /\ q # p /\ TypeOK /\ Other(q) = p
      /\ \A r \in Peers : r = p \/ r = q
    BY TwoPeers DEF TurnsInv, AnswersInv
<1>2. PICK m \in Message :
        m.type \in ControlTypes /\ Transmit(p, m) /\ AfterReplySent(p, m.type)
    <2>1. PICK replies \in PendingReplies(p) : \E i \in 1..Len(replies) :
            /\ Transmit(p, ReplyMessage(replies[i]))
            /\ AfterReplySent(p, replies[i].type)
        BY DEF SendReply
    <2>2. PICK i \in 1..Len(replies) :
            /\ Transmit(p, ReplyMessage(replies[i]))
            /\ AfterReplySent(p, replies[i].type)
        BY <2>1
    <2>3. replies[i] \in Control
        BY <1>1, PendingItems, ElementOfSeq
    <2>4. /\ ReplyMessage(replies[i]) \in Message
          /\ ReplyMessage(replies[i]).type = replies[i].type
          /\ replies[i].type \in ControlTypes
        BY <2>3, MessageTypes DEF ReplyMessage, Control
    <2> QED BY <2>4, <2>2
<1>3. /\ chan'[p] = chan[p]
      /\ chan'[q] = IF Open(p) THEN Append(chan[q], m) ELSE chan[q]
    BY <1>1, <1>2 DEF Transmit, TypeOK
<1> HIDE DEF q
<1>4. OnlyPeer(p) /\ Kept(q) /\ pc[p] \in {"SEND", "REPLY"}
    BY <1>1, <1>2 DEF SendReply, OnlyPeer, Kept, AfterReplySent, TypeOK, queues, q
<1>5. /\ sending'[p] = NoTask
      /\ IF pc[p] = "SEND" /\ m.type = "COMPLETE_SIG"
         THEN IF p = Server THEN loop'[p] = "RECV" /\ pc'[p] = "RECV"
              ELSE loop'[p] = loop[p] /\ pc'[p] = "CLOSE"
         ELSE loop'[p] = loop[p] /\ pc'[p] = loop[p]
    BY <1>1, <1>2 DEF AfterReplySent, TypeOK
<1>6. InOrder(p) /\ PointFits(p) /\ InOrder(q) /\ PointFits(q)
    BY <1>1 DEF TurnsInv
<1>7. InOrder(p)' /\ PointFits(p)'
    <2>1. pc'[p] \in {"SEND", "RECV", "CLOSE"}
        BY <1>1, <1>5 DEF TypeOK
    <2>2. InOrder(p)'
        BY <1>3, <1>6, <2>1 DEF InOrder, Ordered
    <2>3. PointFits(p)'
        BY <1>3, <1>5, <1>6, <2>1 DEF PointFits, NoTask, OnlyOf, Only
    <2> QED BY <2>2, <2>3
<1>8. CASE ~Open(p)
    <2>1. InOrder(q)' /\ PointFits(q)'
        BY <1>1, <1>3, <1>4, <1>8, KeptShorter
    <2> QED BY <1>1, <1>4, <1>7, <1>8, <2>1, LiveBefore DEF Goal
<1>9. CASE Open(p) /\ pc[p] = "SEND"
    <2>1. Talks(p)
        <3>1. InTurn
            BY <1>4, <1>9, LiveOpen DEF TurnsInv
        <3> QED BY <1>1, <1>9, <3>1 DEF InTurn, HandsOver, Talks, Asks, Heard, Leaves, Peers, q
    <2>2. /\ Turn(p) /\ chan[p] = <<>> /\ pc[q] \in {"RECV", "PROCESS", "CLOSE"}
          /\ OnlyOf(q, AnswerTypes) /\ loop[q] = "RECV" /\ loop[p] = "SEND"
        BY <2>1 DEF Talks, Turn, q
    <2>3. InOrder(q)' /\ PointFits(q)'
        BY <1>1, <1>2, <1>3, <1>4, <1>9, <2>2, KeptLonger
    <2>4. /\ Only(chan'[q], ControlTypes)
          /\ m.type \in AnswerTypes => Only(chan'[q], AnswerTypes)
          /\ m.type = "COMPLETE_SIG" => EndsIn(chan'[q], {"COMPLETE_SIG"})
        <3>1. Only(chan[q], AnswerTypes) /\ Only(chan[q], ControlTypes)
            BY <2>2, AnswersAreControl DEF OnlyOf
        <3>2. chan[q] \in Seq(Message)
            BY <1>1 DEF TypeOK
        <3> QED BY <1>2, <1>3, <1>9, <3>1, <3>2, AppendOrder
    <2>5. CASE m.type \in AnswerTypes
        <3>1. Talks(p)'
            BY <1>3, <1>4, <1>5, <1>9, <2>2, <2>4, <2>5, AnswersAreControl
               DEF Talks, Turn, OnlyOf, Only, Kept, q
        <3> QED BY <1>1, <1>7, <2>3, <3>1 DEF Goal, InTurn
    <2>6. CASE m.type = "COMPLETE_SIG" /\ p = Server
        <3>1. q = Client
            BY <2>6 DEF q, Other
        <3>2. HandsOver'
            BY <1>3, <1>4, <1>5, <1>9, <2>2, <2>4, <2>6, <3>1
               DEF HandsOver, LastIs, EndsIn, Kept
        <3> QED BY <1>1, <1>7, <2>3, <3>2 DEF Goal, InTurn
    <2>7. CASE m.type = "COMPLETE_SIG" /\ p = Client
        <3>1. OnlyOf(q, ControlTypes)'
            BY <1>4, <2>2, <2>4, AnswersAreControl DEF OnlyOf, Only, Kept
        <3>2. Leaves(p)'
            BY <1>3, <1>4, <1>5, <1>9, <2>2, <2>7, <3>1, PeersAssumption
               DEF Leaves, Turn, Kept, q
        <3> QED BY <1>1, <1>7, <2>3, <3>2 DEF Goal, InTurn
    <2> QED BY <1>2, <2>5, <2>6, <2>7, AnswersAreControl DEF Peers
<1>10. CASE Open(p) /\ pc[p] = "REPLY"
    <2>1. Asks(q)
        <3>1. InTurn
            BY <1>4, <1>10, LiveOpen DEF TurnsInv
        <3> QED BY <1>1, <1>10, <3>1 DEF InTurn, HandsOver, Talks, Asks, Heard, Leaves, Peers, q
    <2>2. /\ Turn(q) /\ chan[q] = <<>> /\ pc[q] \in {"AWAIT", "CLOSE"} /\ chan[p] = <<>>
          /\ loop[p] = "RECV" /\ loop[q] = "SEND"
        BY <1>1, <1>6, <1>10, <2>1 DEF Asks, Turn, InOrder
    <2>3. OnlyOf(q, AnswerTypes)
        BY <2>2, EmptyOrder DEF OnlyOf
    <2>4. InOrder(q)' /\ PointFits(q)'
        BY <1>1, <1>2, <1>3, <1>4, <1>10, <2>2, <2>3, KeptLonger
    <2>5. Len(chan'[q]) = 1
        <3>1. chan[q] \in Seq(Message)
            BY <1>1 DEF TypeOK
        <3> QED BY <1>2, <1>3, <1>10, <2>2, <3>1, AppendOrder
    <2>6. Heard(q)'
        BY <1>1, <1>3, <1>4, <1>5, <1>10, <2>2, <2>5 DEF Heard, Turn, Kept
    <2> QED BY <1>1, <1>7, <2>4, <2>6 DEF Goal, InTurn
<1> QED BY <1>4, <1>8, <1>9, <1>10

LEMMA SendErrorTurns ==
    ASSUME TurnsInv, NEW p \in Peers,
           \/ SendReplyFails(p)
           \/ \E t \in Tasks : SendUserTaskFails(p, t) \/ PackFails(p, t)
    PROVE  Goal
<1> DEFINE q == Other(p)
<1>1. /\ q \in Peers /\ q # p /\ TypeOK /\ Other(q) = p
      /\ \A r \in Peers : r = p \/ r = q
    BY TwoPeers DEF TurnsInv, AnswersInv
<1>2. Quiet(p) /\ AfterSendError(p) /\ loop'[p] = loop[p]
    BY DEF SendReplyFails, SendUserTaskFails, PackFails, Quiet
<1>3. OnlyPeer(p) /\ Kept(q) /\ pc[p] \in {"SEND", "REPLY"}
    BY <1>1 DEF SendReplyFails, SendUserTaskFails, PackFails, AfterSendError, OnlyPeer, Kept,
        TypeOK, queues
<1>4. /\ chan'[p] = chan[p] /\ chan'[q] = chan[q]
      /\ sending'[p] = NoTask
      /\ pc'[p] = IF pc[p] = "SEND" THEN "CLOSE" ELSE loop[p]
    BY <1>1, <1>2 DEF Quiet, AfterSendError, TypeOK
<1>5. InOrder(p) /\ PointFits(p) /\ InOrder(q) /\ PointFits(q)
    BY <1>1 DEF TurnsInv
<1>6. pc[p] = "REPLY" => ~Open(p)
    BY FreshFirst DEF SendReplyFails, SendUserTaskFails, PackFails, PointFits, TurnsInv
<1> HIDE DEF q
<1>7. InOrder(p)' /\ PointFits(p)'
    <2>1. pc'[p] \in {"CLOSE", "RECV"}
        BY <1>3, <1>4, <1>5 DEF PointFits
    <2>2. InOrder(p)'
        BY <1>4, <1>5, <2>1 DEF InOrder, Ordered
    <2>3. PointFits(p)'
        BY <1>2, <1>3, <1>4, <1>5, <2>1 DEF PointFits, NoTask, OnlyOf, Only
    <2> QED BY <2>2, <2>3
<1>8. InOrder(q)' /\ PointFits(q)'
    BY <1>1, <1>3, <1>4, KeptShorter
<1>9. ASSUME Live' PROVE InTurn'
    <2>1. Live /\ InTurn /\ Open(p)
        BY <1>3, <1>9, LiveBefore
    <2>2. Talks(p)
        BY <1>1, <1>3, <1>6, <2>1
           DEF InTurn, HandsOver, Talks, Asks, Heard, Leaves, Peers, q
    <2>3. OnlyOf(q, ControlTypes) /\ OnlyOf(q, AnswerTypes)
        BY <2>2, AnswersAreControl DEF Talks, OnlyOf, q
    <2>4. Leaves(p)'
        BY <1>2, <1>3, <1>4, <1>6, <2>1, <2>2, <2>3 DEF Leaves, Talks, Turn, Kept, OnlyOf, Only, q
    <2> QED BY <2>4 DEF InTurn
<1> QED BY <1>1, <1>7, <1>8, <1>9 DEF Goal

\* A user task is sent only by the peer whose turn it is: in answer to a task
\* there is always a control task to be sent first.
LEMMA SendTaskTurns ==
    ASSUME TurnsInv, NEW p \in Peers, NEW t \in Tasks, SendUserTask(p, t)
    PROVE  Goal
<1> DEFINE q == Other(p)
           m == PackedMessage(t, Packed(t, send_queue[t]))
<1>1. /\ q \in Peers /\ q # p /\ TypeOK /\ Other(q) = p
      /\ \A r \in Peers : r = p \/ r = q
    BY TwoPeers DEF TurnsInv, AnswersInv
<1>2. m \in Message /\ m.type \in DataTypes \cup UserTypes
    <2>1. /\ Packed(t, send_queue[t]) \in SendTask
          /\ IsPart(t, Packed(t, send_queue[t])) => Packed(t, send_queue[t]).block_size > 0
        BY <1>1, PackedType DEF TypeOK, IsPart
    <2>2. m \in Message
        BY <2>1, PackedMessageType
    <2>3. m.type \in DataTypes \cup UserTypes
        BY TasksAssumption DEF PackedMessage, DataTypes, UserTypes
    <2> QED BY <2>2, <2>3
<1>3. pc[p] = "SEND"
    BY FreshFirst DEF SendUserTask, PointFits, TurnsInv
<1>4. /\ chan'[p] = chan[p]
      /\ chan'[q] = IF Open(p) THEN Append(chan[q], m) ELSE chan[q]
    BY <1>1 DEF SendUserTask, Transmit, TypeOK
<1>5. /\ pc'[p] = "AWAIT" /\ loop'[p] = loop[p]
      /\ sending'[p].id = t /\ sending'[p].nested = FALSE
    BY <1>1, <1>3 DEF SendUserTask, TypeOK
<1>6. OnlyPeer(p) /\ Kept(q)
    BY <1>1 DEF SendUserTask, OnlyPeer, Kept, TypeOK, queues
<1> HIDE DEF q, m
<1>7. InOrder(p) /\ PointFits(p) /\ InOrder(q) /\ PointFits(q)
    BY <1>1 DEF TurnsInv
<1>8. InOrder(p)' /\ PointFits(p)'
    <2>1. InOrder(p)'
        BY <1>4, <1>5, <1>7 DEF InOrder, Ordered
    <2>2. t # 0 /\ loop[p] = "SEND" /\ Only(chan[p], ControlTypes)
        BY <1>3, <1>7, TasksAssumption DEF PointFits, OnlyOf
    <2>3. PointFits(p)'
        BY <1>4, <1>5, <2>2 DEF PointFits, OnlyOf, Only
    <2> QED BY <2>1, <2>3
<1>9. CASE ~Open(p)
    <2>1. InOrder(q)' /\ PointFits(q)'
        BY <1>1, <1>4, <1>6, <1>9, KeptShorter
    <2> QED BY <1>1, <1>3, <1>6, <1>8, <1>9, <2>1, LiveBefore DEF Goal
<1>10. CASE Open(p)
    <2>1. Talks(p)
        <3>1. InTurn
            BY <1>3, <1>10, LiveOpen DEF TurnsInv
        <3> QED BY <1>1, <1>3, <3>1 DEF InTurn, HandsOver, Talks, Asks, Heard, Leaves, Peers, q
    <2>2. /\ Turn(p) /\ chan[p] = <<>> /\ pc[q] \in {"RECV", "PROCESS", "CLOSE"}
          /\ OnlyOf(q, AnswerTypes) /\ loop[q] = "RECV" /\ loop[p] = "SEND"
        BY <2>1 DEF Talks, Turn, q
    <2>3. InOrder(q)' /\ PointFits(q)'
        BY <1>1, <1>2, <1>4, <1>6, <1>10, <2>2, KeptLonger
    <2>4. EndsIn(chan'[q], DataTypes \cup UserTypes)
        BY <1>1, <1>2, <1>4, <1>10, AppendOrder DEF TypeOK
    <2>5. Asks(p)'
        BY <1>4, <1>5, <1>6, <2>2, <2>4 DEF Asks, Turn, LastIs, EndsIn, Kept, q
    <2> QED BY <1>1, <1>8, <2>3, <2>5 DEF Goal, InTurn
<1> QED BY <1>9, <1>10

LEMMA ReceiveTurns ==
    ASSUME TurnsInv, NEW p \in Peers, Receive(p)
    PROVE  Goal
<1> DEFINE q == Other(p)
           m == Head(chan[p])
           x == received'[p].type
<1>1. /\ q \in Peers /\ q # p /\ TypeOK /\ Other(q) = p
      /\ \A r \in Peers : r = p \/ r = q
    BY TwoPeers DEF TurnsInv, AnswersInv
<1>2. /\ pc[p] \in {"RECV", "AWAIT"} /\ chan[p] # <<>> /\ chan[p] \in Seq(Message)
      /\ m \in Message
    BY <1>1, CutShortInSeq DEF Receive, Waiting, TypeOK
<1>3. /\ chan'[p] = Tail(chan[p]) /\ chan'[q] = chan[q]
      /\ pc'[p] = "PROCESS" /\ loop'[p] = loop[p] /\ sending'[p] = sending[p]
    BY <1>1 DEF Receive, TypeOK
<1>4. /\ m.type \in ControlTypes => x = m.type
      /\ m.type \notin ControlTypes => x \in DataTypes \cup UserTypes
    BY <1>1, <1>2 DEF Receive, TypeOK, UserType, Message, DataTypes, UserTypes
<1>5. OnlyPeer(p) /\ Kept(q)
    BY <1>1 DEF Receive, OnlyPeer, Kept, TypeOK
<1>6. InOrder(p) /\ PointFits(p)
    BY DEF TurnsInv
<1>7. \A types : /\ Only(chan[p], types) => m.type \in types /\ Only(chan'[p], types)
                 /\ EndsIn(chan[p], types) => IF chan'[p] = <<>> THEN m.type \in types
                                              ELSE EndsIn(chan'[p], types)
    BY <1>2, <1>3, TailOrder
<1>8. /\ Ordered(chan'[p])
      /\ chan'[p] # <<>> => m.type \in AnswerTypes
      /\ Len(chan[p]) = 1 => chan'[p] = <<>>
    BY <1>2, <1>3, <1>6, TailOrder DEF InOrder
<1> HIDE DEF q, m, x
<1>9. InOrder(p)' /\ PointFits(p)'
    <2>1. InOrder(p)'
        BY <1>3, <1>4, <1>8, AnswersAreControl DEF InOrder, Ordered, x
    <2>2. loop[p] = "SEND" => x \in ControlTypes /\ Only(chan'[p], ControlTypes)
        BY <1>2, <1>4, <1>6, <1>7 DEF PointFits, OnlyOf
    <2>3. PointFits(p)'
        BY <1>1, <1>2, <1>3, <1>6, <2>2 DEF PointFits, OnlyOf, Only, TypeOK, x
    <2> QED BY <2>1, <2>3
<1>10. InOrder(q)' /\ PointFits(q)'
    BY <1>1, <1>3, <1>5, KeptShorter
<1>11. ASSUME Live' PROVE InTurn'
    <2>1. InTurn
        BY <1>2, <1>5, <1>11, LiveBefore
    <2>2. CASE HandsOver
        <3>1. p = Client /\ q = Server
            BY <1>1, <1>2, <2>2, PeersAssumption DEF HandsOver, Peers
        <3>2. EndsIn(chan[p], {"COMPLETE_SIG"})
            BY <1>2, <2>2, <3>1 DEF HandsOver, LastIs, InHand
        <3>3. LastIs(p, {"COMPLETE_SIG"})'
            BY <1>3, <1>4, <1>7, <3>2, AnswersAreControl DEF LastIs, InHand, EndsIn, x
        <3>4. HandsOver'
            BY <1>3, <1>5, <2>2, <3>1, <3>3 DEF HandsOver, Kept
        <3> QED BY <3>4 DEF InTurn
    <2>3. CASE Talks(q)
        <3>1. OnlyOf(p, AnswerTypes)'
            BY <1>1, <1>3, <1>4, <1>7, <2>3, AnswersAreControl DEF Talks, OnlyOf, Only, x
        <3>2. Talks(q)'
            BY <1>1, <1>3, <1>5, <2>3, <3>1 DEF Talks, Turn, Kept
        <3> QED BY <1>1, <3>2 DEF InTurn
    <2>4. CASE Asks(q)
        <3>1. EndsIn(chan[p], DataTypes \cup UserTypes)
            BY <1>1, <1>2, <2>4 DEF Asks, LastIs, InHand
        <3>2. LastIs(p, DataTypes \cup UserTypes)'
            BY <1>3, <1>4, <1>7, <3>1, AnswersAreControl DEF LastIs, InHand, EndsIn, x
        <3>3. Asks(q)'
            BY <1>1, <1>3, <1>5, <2>4, <3>2 DEF Asks, Turn, Kept
        <3> QED BY <1>1, <3>3 DEF InTurn
    <2>5. CASE Leaves(q)
        <3> DEFINE types == IF q = Client THEN ControlTypes ELSE AnswerTypes
        <3>1. OnlyOf(p, types) /\ (types = ControlTypes \/ types = AnswerTypes)
            BY <1>1, <2>5 DEF Leaves
        <3> HIDE DEF types
        <3>2. OnlyOf(p, types)'
            BY <1>3, <1>4, <1>7, <3>1, AnswersAreControl DEF OnlyOf, Only, x
        <3>3. Leaves(q)'
            BY <1>1, <1>3, <1>5, <2>5, <3>2 DEF Leaves, Turn, Kept, types
        <3> QED BY <1>1, <3>3 DEF InTurn
    <2>6. CASE Heard(p)
        <3>1. Heard(p)'
            BY <1>2, <1>3, <1>5, <1>8, <2>6 DEF Heard, Turn, Kept, q
        <3> QED BY <3>1 DEF InTurn
    <2> QED BY <1>1, <1>2, <2>1, <2>2, <2>3, <2>4, <2>5, <2>6
            DEF InTurn, Talks, Asks, Heard, Leaves
<1> QED BY <1>1, <1>9, <1>10, <1>11 DEF Goal

\* Giving up a wait makes a turn no other's.
LEMMA NoAnswerTurns ==
    ASSUME TurnsInv, NEW p \in Peers, ReceiveFails(p) \/ ReceiveTimesOut(p)
    PROVE  Goal
<1> DEFINE q == Other(p)
<1>1. /\ q \in Peers /\ q # p /\ TypeOK /\ Other(q) = p
      /\ \A r \in Peers : r = p \/ r = q
    BY TwoPeers DEF TurnsInv, AnswersInv
<1>2. InOrder(p) /\ PointFits(p)
    BY DEF TurnsInv
<1>3. /\ pc[p] \in {"RECV", "AWAIT"}
      /\ pc'[p] = "CLOSE" /\ loop'[p] = loop[p] /\ sending'[p] = NoTask
      /\ chan'[p] = chan[p] /\ chan'[q] = chan[q]
    BY <1>1, <1>2 DEF ReceiveFails, ReceiveTimesOut, NoAnswer, Waiting, PointFits, TypeOK
<1>4. OnlyPeer(p) /\ Kept(q)
    BY <1>1 DEF ReceiveFails, ReceiveTimesOut, NoAnswer, OnlyPeer, Kept, TypeOK
<1> HIDE DEF q
<1>5. InOrder(p)' /\ PointFits(p)'
    <2>1. InOrder(p)'
        BY <1>2, <1>3 DEF InOrder, Ordered
    <2>2. PointFits(p)'
        BY <1>2, <1>3 DEF PointFits, NoTask, OnlyOf, Only
    <2> QED BY <2>1, <2>2
<1>6. InOrder(q)' /\ PointFits(q)'
    BY <1>1, <1>3, <1>4, KeptShorter
<1>7. ASSUME Live' PROVE InTurn'
    <2>1. InTurn
        BY <1>3, <1>4, <1>7, LiveBefore
    <2>2. CASE HandsOver
        <3>1. HandsOver'
            BY <1>1, <1>3, <1>4, <2>2, PeersAssumption
               DEF HandsOver, LastIs, EndsIn, InHand, Kept, Peers
        <3> QED BY <3>1 DEF InTurn
    <2>3. CASE Talks(q)
        <3>1. Talks(q)'
            BY <1>1, <1>3, <1>4, <2>3 DEF Talks, Turn, OnlyOf, Only, Kept
        <3> QED BY <1>1, <3>1 DEF InTurn
    <2>4. CASE Asks(p)
        <3>1. LastIs(q, DataTypes \cup UserTypes) => LastIs(q, DataTypes \cup UserTypes)'
            BY <1>3, <1>4 DEF LastIs, EndsIn, InHand, Kept
        <3>2. Asks(p)'
            BY <1>3, <1>4, <2>4, <3>1 DEF Asks, Turn, Kept, q
        <3> QED BY <3>2 DEF InTurn
    <2>5. CASE Asks(q)
        <3>1. Asks(q)'
            BY <1>1, <1>3, <1>4, <2>5 DEF Asks, Turn, Kept
        <3> QED BY <1>1, <3>1 DEF InTurn
    <2>6. CASE Heard(p) \/ Heard(q)
        <3>1. Heard(p)' \/ Heard(q)'
            BY <1>1, <1>3, <1>4, <2>6 DEF Heard, Turn, Kept, q
        <3> QED BY <1>1, <3>1 DEF InTurn
    <2>7. CASE Leaves(q)
        <3>1. Leaves(q)'
            BY <1>1, <1>3, <1>4, <2>7 DEF Leaves, Turn, OnlyOf, Only, Kept
        <3> QED BY <1>1, <3>1 DEF InTurn
    <2> QED BY <1>1, <1>3, <2>1, <2>2, <2>3, <2>4, <2>5, <2>6, <2>7
            DEF InTurn, Talks, Leaves
<1> QED BY <1>1, <1>5, <1>6, <1>7 DEF Goal

LEMMA UserTaskTurns ==
    ASSUME TurnsInv, NEW p \in Peers,
           CheckFile(p) \/ ReportPosition(p) \/ AckPart(p) \/ ProcessMessage(p)
    PROVE  Goal
<1> DEFINE q == Other(p)
<1>1. /\ q \in Peers /\ q # p /\ TypeOK /\ Other(q) = p
      /\ \A r \in Peers : r = p \/ r = q
    BY TwoPeers DEF TurnsInv, AnswersInv
<1>2. /\ pc[p] = "PROCESS" /\ received[p].type \in UserTypes
      /\ received[p].type \notin ControlTypes
    BY AnswersAreControl
       DEF CheckFile, ReportPosition, AckPart, ProcessMessage, Processing, FileTypes, UserTypes
<1>3. InOrder(p) /\ PointFits(p)
    BY DEF TurnsInv
<1>4. chan[p] = <<>> /\ loop[p] = "RECV"
    BY <1>1, <1>2, <1>3, AnswersAreControl DEF InOrder, PointFits, OnlyOf, TypeOK
<1>5. ThenReply(p) /\ Quiet(p)
    BY DEF CheckFile, ReportPosition, AckPart, ProcessMessage, ThenReply, Quiet
<1>6. Fresh(p)'
    <2>1. PICK type, id, pos : AddReply(p, type, id, pos)
        BY DEF CheckFile, ReportPosition, AckPart, ProcessMessage
    <2>2. reply_queue'[p] = Append(reply_queue[p], NewControl(p, type, id, pos))
        BY <1>1, <2>1 DEF AddReply, TypeOK
    <2>3. NewControl(p, type, id, pos).error_count = 0
        BY DEF NewControl
    <2> DEFINE c == NewControl(p, type, id, pos)
    <2> HIDE DEF c
    <2>4. /\ Len(reply_queue'[p]) = Len(reply_queue[p]) + 1
          /\ reply_queue'[p][Len(reply_queue[p]) + 1] = c
          /\ Len(reply_queue[p]) \in Nat
        BY <1>1, <2>2 DEF TypeOK, c
    <2>5. Len(reply_queue[p]) + 1 \in 1..Len(reply_queue'[p])
        BY <2>4
    <2> QED BY <2>3, <2>4, <2>5 DEF Fresh, c
<1>7. /\ chan'[p] = chan[p] /\ chan'[q] = chan[q]
      /\ pc'[p] = "REPLY" /\ loop'[p] = loop[p] /\ sending'[p] = sending[p]
    BY <1>1, <1>5 DEF ThenReply, TypeOK
<1>8. OnlyPeer(p) /\ Kept(q)
    BY <1>1 DEF CheckFile, ReportPosition, AckPart, ProcessMessage, ThenReply, AddReply,
        OnlyPeer, Kept, TypeOK
<1> HIDE DEF q
<1>9. InOrder(p)' /\ PointFits(p)'
    <2>1. InOrder(p)'
        BY <1>3, <1>4, <1>7 DEF InOrder, Ordered
    <2>2. PointFits(p)'
        BY <1>2, <1>3, <1>4, <1>6, <1>7 DEF PointFits
    <2> QED BY <2>1, <2>2
<1>10. InOrder(q)' /\ PointFits(q)'
    BY <1>1, <1>7, <1>8, KeptShorter
<1>11. ASSUME Live' PROVE InTurn'
    <2>1. InTurn
        BY <1>2, <1>8, <1>11, LiveBefore
    <2>2. Asks(q)
        <3>1. received[p].type \notin AnswerTypes /\ received[p].type # "COMPLETE_SIG"
            BY <1>2, AnswersAreControl
        <3> QED BY <1>1, <1>2, <1>4, <2>1, <3>1
                DEF InTurn, HandsOver, Talks, Asks, Heard, Leaves, Turn, OnlyOf, LastIs,
                    EndsIn, InHand, Peers, q
    <2>3. Asks(q)'
        BY <1>1, <1>4, <1>7, <1>8, <2>2 DEF Asks, Turn, Kept
    <2> QED BY <1>1, <2>3 DEF InTurn
<1> QED BY <1>1, <1>9, <1>10, <1>11 DEF Goal

LEMMA ProcessAnswerTurns ==
    ASSUME TurnsInv, NEW p \in Peers, ProcessAnswer(p)
    PROVE  Goal
<1> DEFINE q == Other(p)
<1>1. /\ q \in Peers /\ q # p /\ TypeOK /\ Other(q) = p
      /\ \A r \in Peers : r = p \/ r = q
    BY TwoPeers DEF TurnsInv, AnswersInv
<1>2. pc[p] = "PROCESS" /\ received[p].type \in AnswerTypes
    BY DEF ProcessAnswer, Processing
<1>3. InOrder(p) /\ PointFits(p)
    BY DEF TurnsInv
<1>4. /\ chan'[p] = chan[p] /\ chan'[q] = chan[q]
      /\ pc'[p] = loop[p] /\ loop'[p] = loop[p] /\ sending'[p] = NoTask
      /\ loop[p] \in {"SEND", "RECV"}
    BY <1>1 DEF ProcessAnswer, TypeOK
<1>5. OnlyPeer(p) /\ Kept(q)
    BY <1>1 DEF ProcessAnswer, OnlyPeer, Kept, TypeOK
<1> HIDE DEF q
<1>6. InOrder(p)' /\ PointFits(p)'
    <2>1. InOrder(p)'
        BY <1>3, <1>4 DEF InOrder, Ordered
    <2>2. PointFits(p)'
        BY <1>3, <1>4 DEF PointFits, NoTask, OnlyOf, Only
    <2> QED BY <2>1, <2>2
<1>7. InOrder(q)' /\ PointFits(q)'
    BY <1>1, <1>4, <1>5, KeptShorter
<1>8. ASSUME Live' PROVE InTurn'
    <2>1. InTurn
        BY <1>2, <1>5, <1>8, LiveBefore
    <2>2. CASE HandsOver
        <3>1. p = Client /\ q = Server
            BY <1>1, <1>2, <2>2, PeersAssumption DEF HandsOver, Peers
        <3>2. EndsIn(chan[p], {"COMPLETE_SIG"})
            BY <1>2, <2>2, <3>1, AnswersAreControl DEF HandsOver, LastIs, InHand
        <3>3. HandsOver'
            BY <1>4, <1>5, <2>2, <3>1, <3>2 DEF HandsOver, LastIs, EndsIn, Kept
        <3> QED BY <3>3 DEF InTurn
    <2>3. CASE Talks(q)
        <3>1. Talks(q)'
            BY <1>1, <1>4, <1>5, <2>3 DEF Talks, Turn, OnlyOf, Only, Kept
        <3> QED BY <1>1, <3>1 DEF InTurn
    <2>4. CASE Asks(q)
        <3>1. EndsIn(chan[p], DataTypes \cup UserTypes)
            BY <1>1, <1>2, <2>4, AnswersAreControl DEF Asks, LastIs, InHand, AnswerTypes
        <3>2. Asks(q)'
            BY <1>1, <1>4, <1>5, <2>4, <3>1 DEF Asks, Turn, LastIs, EndsIn, Kept
        <3> QED BY <1>1, <3>2 DEF InTurn
    <2>5. CASE Heard(p)
        <3>1. chan[p] = <<>> /\ chan[q] = <<>> /\ Turn(p) /\ pc[q] \in {"RECV", "CLOSE"}
            BY <1>2, <2>5 DEF Heard, q
        <3>2. Talks(p)'
            BY <1>4, <1>5, <3>1, EmptyOrder DEF Talks, Turn, OnlyOf, Only, Kept, q
        <3> QED BY <3>2 DEF InTurn
    <2>6. CASE Leaves(q)
        <3>1. Leaves(q)'
            BY <1>1, <1>4, <1>5, <2>6 DEF Leaves, Turn, OnlyOf, Only, Kept
        <3> QED BY <1>1, <3>1 DEF InTurn
    <2> QED BY <1>1, <1>2, <2>1, <2>2, <2>3, <2>4, <2>5, <2>6
            DEF InTurn, Talks, Asks, Heard, Leaves
<1> QED BY <1>1, <1>6, <1>7, <1>8 DEF Goal

\* COMPLETE_SIG ends the loop that receives, and the wait of a loop that sends.
LEMMA ProcessCompleteTurns ==
    ASSUME TurnsInv, NEW p \in Peers, ProcessComplete(p)
    PROVE  Goal
<1> DEFINE q == Other(p)
<1>1. /\ q \in Peers /\ q # p /\ TypeOK /\ Other(q) = p
      /\ \A r \in Peers : r = p \/ r = q
    BY TwoPeers DEF TurnsInv, AnswersInv
<1>2. pc[p] = "PROCESS" /\ received[p].type = "COMPLETE_SIG"
    BY DEF ProcessComplete, Processing
<1>3. InOrder(p) /\ PointFits(p)
    BY DEF TurnsInv
<1>4. chan[p] = <<>> /\ (sending[p].id # 0 <=> loop[p] = "SEND")
    BY <1>2, <1>3, AnswersAreControl DEF InOrder, PointFits
<1>5. /\ chan'[p] = <<>> /\ chan'[q] = chan[q]
      /\ IF loop[p] = "SEND"
         THEN pc'[p] = "CLOSE" /\ loop'[p] = "SEND"
         ELSE IF p = Client THEN pc'[p] = "SEND" /\ loop'[p] = "SEND"
              ELSE pc'[p] = "CLOSE" /\ loop'[p] = loop[p]
    BY <1>1, <1>3, <1>4 DEF ProcessComplete, NoAnswer, PointFits, TypeOK
<1>6. sending'[p].id = 0 /\ sending'[p].nested = FALSE
    BY <1>1, <1>3 DEF ProcessComplete, NoAnswer, PointFits, TypeOK, NoTask
<1>7. OnlyPeer(p) /\ Kept(q)
    BY <1>1 DEF ProcessComplete, NoAnswer, OnlyPeer, Kept, TypeOK
<1> HIDE DEF q
<1>8. InOrder(p)' /\ PointFits(p)'
    <2>1. InOrder(p)'
        BY <1>5, EmptyOrder DEF InOrder
    <2>2. PointFits(p)'
        <3>1. Only(chan'[p], ControlTypes)
            BY <1>5, EmptyOrder
        <3> QED BY <1>5, <1>6, <3>1 DEF PointFits, OnlyOf, Only
    <2> QED BY <2>1, <2>2
<1>9. InOrder(q)' /\ PointFits(q)'
    BY <1>1, <1>5, <1>7, KeptShorter
<1>10. ASSUME Live' PROVE InTurn'
    <2>1. InTurn
        BY <1>2, <1>7, <1>10, LiveBefore
    <2>2. CASE HandsOver
        <3>1. p = Client /\ q = Server
            BY <1>1, <1>2, <2>2, PeersAssumption DEF HandsOver, Peers
        <3>2. OnlyOf(q, AnswerTypes)'
            BY <1>5, <1>7, <2>2, <3>1, EmptyOrder DEF HandsOver, OnlyOf, Only, Kept
        <3>3. Talks(p)'
            BY <1>5, <1>7, <2>2, <3>1, <3>2 DEF HandsOver, Talks, Turn, Kept, q
        <3> QED BY <3>3 DEF InTurn
    <2>3. CASE Heard(p)
        <3>1. Heard(p)'
            BY <1>5, <1>7, <2>3 DEF Heard, Turn, Kept, q
        <3> QED BY <3>1 DEF InTurn
    <2>4. CASE Leaves(q)
        <3>1. p = Server /\ loop[p] = "RECV"
            BY <1>1, <1>2, <2>4, AnswersAreControl DEF Leaves, Turn, OnlyOf, Peers
        <3>2. Leaves(q)'
            BY <1>1, <1>5, <1>7, <2>4, <3>1, PeersAssumption DEF Leaves, Turn, OnlyOf, Only, Kept, EmptyOrder
        <3> QED BY <1>1, <3>2 DEF InTurn
    <2>5. ~Talks(q) /\ ~Asks(q)
        <3>1. "COMPLETE_SIG" \notin AnswerTypes /\ "COMPLETE_SIG" \notin DataTypes \cup UserTypes
            BY AnswersAreControl
        <3> QED BY <1>1, <1>2, <1>4, <3>1 DEF Talks, Asks, OnlyOf, LastIs, EndsIn, InHand
    <2> QED BY <1>1, <1>2, <2>1, <2>2, <2>3, <2>4, <2>5
            DEF InTurn, Talks, Asks, Heard, Leaves
<1> QED BY <1>1, <1>8, <1>9, <1>10 DEF Goal

-----------------------------------------------------------------------------
(* The theorem *)

\* A channel gets a message only while both ends exist.
LEMMA LongerIfLive ==
    ASSUME TypeOK, Next
    PROVE  Live' \/ \A r \in Peers : chan[r] = <<>> => chan'[r] = <<>>
<1> DEFINE Shorter == \A r \in Peers : chan[r] = <<>> => chan'[r] = <<>>
<1>1. ASSUME UNCHANGED chan PROVE Shorter
    BY <1>1
<1>2. ASSUME NEW p \in Peers, NEW m, Transmit(p, m), up' = up,
             pc[p] # "IDLE", pc' = [pc EXCEPT ![p] = pc'[p]], pc'[p] # "IDLE"
      PROVE  Live' \/ Shorter
    <2>1. CASE Open(p)
        <3>1. \A r \in Peers : r = p \/ r = Other(p)
            BY TwoPeers
        <3>2. Other(p) \in Peers /\ Other(p) # p
            BY TwoPeers
        <3> QED BY <1>2, <2>1, <3>1, <3>2 DEF Live, Open, TypeOK
    <2>2. CASE ~Open(p)
        BY <1>1, <1>2, <2>2 DEF Transmit
    <2> QED BY <2>1, <2>2
<1>3. ASSUME NEW p \in Peers, SendReply(p) PROVE Live' \/ Shorter
    <2>1. PICK m, type : Transmit(p, m) /\ AfterReplySent(p, type)
        BY <1>3 DEF SendReply
    <2>2. up' = up /\ pc[p] # "IDLE"
        BY <1>3 DEF SendReply
    <2>3. pc' = [pc EXCEPT ![p] = pc'[p]] /\ pc'[p] # "IDLE"
        BY <2>1 DEF AfterReplySent, TypeOK
    <2> QED BY <1>2, <2>1, <2>2, <2>3
<1>4. ASSUME NEW p \in Peers, NEW t \in Tasks, SendUserTask(p, t) PROVE Live' \/ Shorter
    <2>1. PICK m : Transmit(p, m)
        BY <1>4 DEF SendUserTask
    <2>2. /\ up' = up /\ pc[p] # "IDLE"
          /\ pc' = [pc EXCEPT ![p] = pc'[p]] /\ pc'[p] # "IDLE"
        BY <1>4 DEF SendUserTask, TypeOK
    <2> QED BY <1>2, <2>1, <2>2
<1>5. ASSUME NEW p \in Peers, Receive(p) PROVE Shorter
    <2>1. chan[p] # <<>> /\ chan' = [chan EXCEPT ![p] = Tail(@)]
        BY <1>5 DEF Receive
    <2> QED BY <2>1 DEF TypeOK
<1>6. ASSUME NEW p \in Peers, CloseConn(p) \/ Die(p) PROVE Shorter
    <2>1. CASE Disconnect(p)
        <3>1. PICK rest \in (IF chan[p] = <<>> THEN {chan[Other(p)]} ELSE CutShort(chan[Other(p)])) :
                chan' = [chan EXCEPT ![p] = <<>>, ![Other(p)] = rest]
            BY <2>1 DEF Disconnect
        <3>2. chan[Other(p)] \in Seq(Message) /\ Other(p) \in Peers
            BY OtherPeer DEF TypeOK
        <3>3. chan[Other(p)] = <<>> => rest = <<>>
            BY <3>1, <3>2, CutOrder
        <3> QED BY <3>1, <3>2, <3>3 DEF TypeOK
    <2> QED BY <1>1, <1>6, <2>1 DEF CloseConn, Die
<1>7. ASSUME NEW p \in Peers,
             \/ NullDereference(p) \/ Crash(p) \/ CrashWhileUnpacking(p)
             \/ CrashBeforeExtension(p) \/ \E t \in Tasks : CrashWhileAdding(p, t)
      PROVE  Shorter
    BY <1>6, <1>7 DEF NullDereference, Crash, CrashWhileUnpacking, CrashBeforeExtension,
        CrashWhileAdding
<1>8. ASSUME NEW p \in Peers,
             \/ SendReplyFails(p) \/ ReceiveFails(p) \/ ReceiveTimesOut(p)
             \/ CheckFile(p) \/ ReportPosition(p) \/ AckPart(p) \/ ProcessMessage(p)
             \/ ProcessAnswer(p) \/ ProcessComplete(p)
             \/ \E t \in Tasks : SendUserTaskFails(p, t) \/ PackFails(p, t)
      PROVE  Shorter
    <2>1. UNCHANGED chan
        BY <1>8 DEF SendReplyFails, ReceiveFails, ReceiveTimesOut, CheckFile, ReportPosition,
            AckPart, ProcessMessage, ThenReply, ProcessAnswer, ProcessComplete,
            SendUserTaskFails, PackFails
    <2> QED BY <1>1, <2>1
<1>9. CASE User
    BY <1>1, <1>9 DEF User, AddTask, DeleteSend, DeleteReceive, DeleteAllSend
<1>10. CASE Connect
    BY <1>10 DEF Connect
<1>11. CASE Cut
    <2>1. ASSUME NEW r \in Peers PROVE chan'[r] \in CutShort(chan[r])
        BY <1>11, PeersAssumption DEF Cut, TypeOK, Peers
    <2> QED BY <2>1, CutOrder DEF TypeOK
<1>12. ASSUME NEW p \in Peers, PeerStep(p) PROVE Live' \/ Shorter
    BY <1>3, <1>4, <1>5, <1>6, <1>7, <1>8, <1>12 DEF PeerStep
<1>13. CASE Fault
    BY <1>7, <1>8, <1>11, <1>13 DEF Fault
<1> QED BY <1>9, <1>10, <1>12, <1>13 DEF Next

LEMMA TurnsInit == OrderlyUse /\ Init => TurnsInv
<1> SUFFICES ASSUME OrderlyUse, Init PROVE TurnsInv
    OBVIOUS
<1>1. AnswersInv
    BY AnswersInit
<1>2. AnswersFirst
    BY DEF Init, AnswersFirst, NewTask, NoTask, OrderlyUse
<1>3. ASSUME NEW p \in Peers PROVE InOrder(p) /\ PointFits(p)
    BY <1>3, EmptyOrder DEF Init, InOrder, PointFits, NoTask
<1>4. ~Live /\ HalfDuplex
    BY DEF Init, Live, HalfDuplex, Peers
<1> QED BY <1>1, <1>2, <1>3, <1>4 DEF TurnsInv

LEMMA TurnsNext == OrderlyUse /\ TurnsInv /\ [Next]_vars => TurnsInv'
<1> SUFFICES ASSUME OrderlyUse, TurnsInv, [Next]_vars PROVE TurnsInv'
    OBVIOUS
<1>1. AnswersInv'
    BY AnswersNext DEF TurnsInv
<1>2. ASSUME UNCHANGED <<reply_queue, chan, up, pc, loop, sending, received>> PROVE Goal
    BY <1>2 DEF Goal, TurnsInv, InOrder, PointFits, Fresh, OnlyOf, Only, Ordered,
        Live, InTurn, HandsOver, Talks, Asks, Heard, Leaves, Turn, LastIs, EndsIn, InHand
<1>3. CASE UNCHANGED vars
    <2>1. Goal
        BY <1>2, <1>3 DEF vars
    <2>2. AnswersFirst'
        BY <1>3 DEF vars, AnswersFirst, TurnsInv
    <2>3. HalfDuplex'
        BY <1>3 DEF vars, HalfDuplex, TurnsInv
    <2> QED BY <1>1, <2>1, <2>2, <2>3 DEF Goal, TurnsInv
<1>4. CASE Next
    <2>1. AnswersFirst'
        BY <1>4, PriorityNext DEF TurnsInv, AnswersInv
    <2>2. ASSUME Connect \/ Cut PROVE Goal
        BY <2>2, ConnectTurns, CutTurns
    <2>3. ASSUME NEW p \in Peers,
                 \/ CloseConn(p) \/ NullDereference(p) \/ Crash(p)
                 \/ CrashWhileUnpacking(p) \/ CrashBeforeExtension(p)
                 \/ \E t \in Tasks : CrashWhileAdding(p, t)
          PROVE  Goal
        BY <2>3, LeavingTurns DEF NullDereference, Crash, CrashWhileUnpacking,
            CrashBeforeExtension, CrashWhileAdding
    <2>4. ASSUME NEW p \in Peers,
                 \/ SendReply(p) \/ SendReplyFails(p)
                 \/ \E t \in Tasks : \/ SendUserTask(p, t) \/ SendUserTaskFails(p, t)
                                     \/ PackFails(p, t)
          PROVE  Goal
        BY <2>4, SendReplyTurns, SendErrorTurns, SendTaskTurns
    <2>5. ASSUME NEW p \in Peers,
                 \/ Receive(p) \/ ReceiveFails(p) \/ ReceiveTimesOut(p)
                 \/ CheckFile(p) \/ ReportPosition(p) \/ AckPart(p) \/ ProcessMessage(p)
                 \/ ProcessAnswer(p) \/ ProcessComplete(p)
          PROVE  Goal
        BY <2>5, ReceiveTurns, NoAnswerTurns, UserTaskTurns, ProcessAnswerTurns,
           ProcessCompleteTurns
    <2>6. ASSUME User PROVE Goal
        BY <1>2, <2>6
           DEF User, AddTask, DeleteSend, DeleteReceive, DeleteAllSend, OrderlyUse
    <2>7. ASSUME NEW p \in Peers, PeerStep(p) PROVE Goal
        BY <2>3, <2>4, <2>5, <2>7 DEF PeerStep
    <2>8. ASSUME Fault PROVE Goal
        BY <2>2, <2>3, <2>4, <2>5, <2>8 DEF Fault
    <2>9. Goal
        BY <1>4, <2>2, <2>6, <2>7, <2>8 DEF Next
    <2>10. HalfDuplex'
        <3>1. Live' => HalfDuplex'
            BY <2>9 DEF Goal, InTurn, HandsOver, Talks, Asks, Heard, Leaves, HalfDuplex,
                Peers, Other
        <3> QED BY <1>4, <3>1, LongerIfLive DEF TurnsInv, AnswersInv, HalfDuplex, Peers
    <2> QED BY <1>1, <2>1, <2>9, <2>10 DEF Goal, TurnsInv
<1> QED BY <1>3, <1>4

LEMMA Turns == ASSUME OrderlyUse PROVE Spec => []TurnsInv
<1>1. Init => TurnsInv
    BY TurnsInit
<1>2. TurnsInv /\ [Next]_vars => TurnsInv'
    BY TurnsNext
<1> QED BY <1>1, <1>2, PTL DEF Spec

\* Messages are never in flight both ways, whatever is cut, lost, late or left
\* over from an earlier session, as long as the user deletes nothing and asks
\* for no task to go before the answers.
THEOREM OneSpeakerAtATime == ASSUME OrderlyUse PROVE Spec => []HalfDuplex
<1>1. TurnsInv => HalfDuplex
    BY DEF TurnsInv
<1> QED BY <1>1, Turns, PTL

-----------------------------------------------------------------------------
(* What is left in a send queue.  A control task stays behind when its     *)
(* sending fails or when a COMPLETE_SIG is added to it in vain: for either *)
(* the connection must have gone, or the other end closed, under a peer    *)
(* that still had something to send, and only a fault does that to it.     *)

\* All but the answer about to be sent.
Backlog(p) == Len(reply_queue[p]) - IF pc[p] = "REPLY" THEN 1 ELSE 0

\* What p sends next may be refused, or is bound to fail.
Broken(p) == ~Open(p) \/ pc[Other(p)] = "CLOSE"

\* After these p sends something: a user task is answered, and with the
\* server's COMPLETE_SIG it is the client's turn.
Rousing(p) == DataTypes \cup UserTypes \cup IF p = Client THEN {"COMPLETE_SIG"} ELSE {}
CanFail(p) ==
    \/ pc[p] \in {"SEND", "REPLY", "AWAIT"}
    \/ loop[p] = "SEND" /\ pc[p] = "PROCESS"
    \/ InHand(p, Rousing(p))
    \/ pc[p] \in {"RECV", "PROCESS"} /\ \E m \in Items(chan[p]) : m.type \in Rousing(p)

Paid(p) ==
    /\ Backlog(p) <= faults
    /\ Broken(p) /\ CanFail(p) => Backlog(p) < faults

BacklogInv == TurnsInv /\ \A p \in Peers : Paid(p)

LEMMA BacklogNat ==
    ASSUME TypeOK, NEW p \in Peers
    PROVE  Len(reply_queue[p]) \in Nat /\ faults \in Nat
BY ConfigAssumption DEF TypeOK

LEMMA WithoutLen ==
    ASSUME NEW S, NEW seq \in Seq(S), NEW i \in 1..Len(seq)
    PROVE  Len(Without(seq, i)) = Len(seq) - 1
<1> DEFINE before == SubSeq(seq, 1, i - 1)
           after == SubSeq(seq, i + 1, Len(seq))
<1>1. before \in Seq(S) /\ after \in Seq(S)
    BY SubSeqInSeq
<1>2. Len(before) = i - 1
    BY SubSeqProperties
<1>3. Len(after) = Len(seq) - i
    BY <1>1, SubSeqProperties
<1> HIDE DEF before, after
<1>4. Len(before \o after) = Len(before) + Len(after)
    BY <1>1, ConcatProperties
<1>5. Without(seq, i) = before \o after
    BY DEF Without, before, after
<1>6. Len(seq) \in Nat
    OBVIOUS
<1> HIDE DEF Without
<1> QED BY <1>2, <1>3, <1>4, <1>5, <1>6

\* next_task adds at most one task, and none while there is an answer to send.
LEMMA PendingLen ==
    ASSUME TurnsInv, NEW p \in Peers, NEW replies \in PendingReplies(p)
    PROVE  /\ replies \in Seq(Control) /\ Len(replies) \in Nat
           /\ Len(replies) <= Len(reply_queue[p]) + 1
           /\ pc[p] = "REPLY" => replies = reply_queue[p]
<1> DEFINE c == NewControl(p, "COMPLETE_SIG", 0, 0)
<1>1. reply_queue[p] \in Seq(Control) /\ c \in Control
    BY MessageTypes DEF Peers, TurnsInv, AnswersInv, TypeOK
<1>2. pc[p] = "REPLY" => replies = reply_queue[p]
    BY FreshFirst DEF PointFits, TurnsInv
<1>3. replies = reply_queue[p] \/ replies = Append(reply_queue[p], c)
    BY DEF PendingReplies
<1> HIDE DEF c
<1>4. Len(Append(reply_queue[p], c)) = Len(reply_queue[p]) + 1
    BY <1>1, AppendProperties
<1>5. Append(reply_queue[p], c) \in Seq(Control)
    BY <1>1, AppendProperties
<1> QED BY <1>1, <1>2, <1>3, <1>4, <1>5

LEMMA KeptPaid ==
    ASSUME BacklogInv, TypeOK', NEW r \in Peers, Kept(r), faults' >= faults,
           \/ faults' > faults
           \/ Broken(r)' /\ CanFail(r)' => Broken(r) /\ CanFail(r)
    PROVE  Paid(r)'
<1>1. /\ Paid(r) /\ Backlog(r)' = Backlog(r) /\ Backlog(r) \in Int
      /\ faults \in Nat /\ faults' \in Nat
    BY BacklogNat, ConfigAssumption
       DEF BacklogInv, TurnsInv, AnswersInv, TypeOK, Backlog, Kept
<1> QED BY <1>1 DEF Paid

LEMMA KeptCanFail ==
    ASSUME NEW r \in Peers, Kept(r), Items(chan'[r]) \subseteq Items(chan[r]), CanFail(r)'
    PROVE  CanFail(r)
BY DEF CanFail, InHand, Rousing, Kept

\* A step of p takes the connection from the other only by leaving.
LEMMA KeptBroken ==
    ASSUME NEW p \in Peers, OnlyPeer(p), pc'[p] \notin {"IDLE", "CLOSE"}, pc[p] # "IDLE"
    PROVE  Broken(Other(p))' => Broken(Other(p))
BY TwoPeers DEF Broken, Open, OnlyPeer

LEMMA GoneBroken ==
    ASSUME NEW p \in Peers, pc[p] # "IDLE", ~Open(p)
    PROVE  Broken(Other(p)) \/ ~CanFail(Other(p))
BY TwoPeers DEF Broken, Open, CanFail, InHand

LEMMA LeavingPaid ==
    ASSUME BacklogInv, NEW p \in Peers, TypeOK', faults' >= faults,
           \/ CloseConn(p)
           \/ Die(p) /\ faults' > faults
    PROVE  \A r \in Peers : Paid(r)'
<1> DEFINE q == Other(p)
<1>1. /\ q \in Peers /\ q # p /\ TypeOK
      /\ \A r \in Peers : r = p \/ r = q
    BY TwoPeers DEF BacklogInv, TurnsInv, AnswersInv
<1>2. Kept(q)
    BY <1>1 DEF CloseConn, Die, Kept, TypeOK, queues
<1>3. pc'[p] = "IDLE"
    BY <1>1 DEF CloseConn, Die, TypeOK
<1>4. ~CanFail(p)'
    BY <1>3 DEF CanFail, InHand
<1>5. Paid(p)'
    <2>1. Backlog(p)' <= faults'
        <3>1. CASE CloseConn(p)
            <4>1. Len(reply_queue'[p]) = Len(reply_queue[p]) /\ pc[p] = "CLOSE" /\ faults' = faults
                BY <3>1 DEF CloseConn, queues
            <4> QED BY <1>1, <1>3, <4>1, BacklogNat DEF BacklogInv, Paid, Backlog
        <3>2. CASE Die(p)
            <4>1. reply_queue'[p] = <<>>
                BY <1>1, <3>2 DEF Die, TypeOK
            <4> QED BY <1>3, <4>1, ConfigAssumption DEF Backlog, TypeOK
        <3> QED BY <3>1, <3>2
    <2> QED BY <1>4, <2>1 DEF Paid
<1>6. Paid(q)'
    <2>1. CASE CloseConn(p)
        <3>1. Items(chan'[q]) \subseteq Items(chan[q])
            BY <1>1, <2>1, DisconnectItems DEF CloseConn
        <3>2. Broken(q)
            BY <2>1, TwoPeers DEF Broken, CloseConn, q
        <3> QED BY <1>1, <1>2, <3>1, <3>2, KeptCanFail, KeptPaid
    <2>2. CASE faults' > faults
        BY <1>1, <1>2, <2>2, KeptPaid
    <2> QED BY <2>1, <2>2
<1> QED BY <1>1, <1>5, <1>6

LEMMA SendReplyPaid ==
    ASSUME BacklogInv, NEW p \in Peers, TypeOK', SendReply(p)
    PROVE  \A r \in Peers : Paid(r)'
<1> DEFINE q == Other(p)
<1>1. /\ q \in Peers /\ q # p /\ TypeOK /\ Other(q) = p
      /\ \A r \in Peers : r = p \/ r = q
      /\ TurnsInv /\ InOrder(p) /\ PointFits(p) /\ Paid(p)
    BY TwoPeers DEF BacklogInv, TurnsInv, AnswersInv
<1>2. PICK replies \in PendingReplies(p) : \E i \in 1..Len(replies) :
        /\ reply_queue' = [reply_queue EXCEPT ![p] = Without(replies, i)]
        /\ Transmit(p, ReplyMessage(replies[i]))
        /\ AfterReplySent(p, replies[i].type)
    BY DEF SendReply
<1>3. PICK i \in 1..Len(replies) :
        /\ reply_queue' = [reply_queue EXCEPT ![p] = Without(replies, i)]
        /\ Transmit(p, ReplyMessage(replies[i]))
        /\ AfterReplySent(p, replies[i].type)
    BY <1>2
<1> DEFINE m == ReplyMessage(replies[i])
<1>4. m \in Message /\ m.type = replies[i].type /\ m.type \in ControlTypes
    <2>1. replies[i] \in Control
        BY <1>1, PendingItems, ElementOfSeq
    <2> QED BY <2>1, MessageTypes DEF ReplyMessage, Control
<1>5. /\ pc[p] \in {"SEND", "REPLY"}
      /\ OnlyPeer(p) /\ Kept(q) /\ faults' = faults
    BY <1>1, <1>3 DEF SendReply, OnlyPeer, Kept, AfterReplySent, TypeOK, queues, q
<1>6. /\ IF pc[p] = "SEND" /\ m.type = "COMPLETE_SIG"
         THEN IF p = Server THEN loop'[p] = "RECV" /\ pc'[p] = "RECV"
              ELSE loop'[p] = loop[p] /\ pc'[p] = "CLOSE"
         ELSE loop'[p] = loop[p] /\ pc'[p] = loop[p]
      /\ loop[p] \in {"SEND", "RECV"}
    BY <1>1, <1>3, <1>4 DEF AfterReplySent, TypeOK
<1>7. Backlog(p)' <= Backlog(p)
    <2>1. /\ replies \in Seq(Control)
          /\ Len(replies) <= Len(reply_queue[p]) + 1
          /\ pc[p] = "REPLY" => replies = reply_queue[p]
        BY <1>1, PendingLen
    <2>2. Len(reply_queue'[p]) = Len(replies) - 1
        BY <1>1, <1>3, <2>1, WithoutLen DEF TypeOK
    <2>3. pc'[p] # "REPLY"
        BY <1>6
    <2>4. Len(replies) \in Nat /\ Len(reply_queue[p]) \in Nat
        BY <1>1, <2>1, BacklogNat
    <2> QED BY <1>5, <2>1, <2>2, <2>3, <2>4 DEF Backlog
<1>8. Backlog(p) \in Int /\ Backlog(p)' \in Int /\ faults \in Nat
    BY <1>1, BacklogNat DEF Backlog, TypeOK
<1>9. CanFail(p)
    BY <1>5 DEF CanFail
<1>10. Broken(p)' => Broken(p)
    BY <1>1, <1>5 DEF Broken, Open, OnlyPeer, Kept
<1>11. Paid(p)'
    BY <1>1, <1>5, <1>7, <1>8, <1>9, <1>10 DEF Paid
<1>12. Paid(q)'
    <2>1. CASE ~Open(p)
        <3>1. UNCHANGED chan
            BY <1>3, <2>1 DEF Transmit
        <3>2. CanFail(q)' => CanFail(q)
            BY <1>1, <1>5, <3>1, KeptCanFail
        <3> QED BY <1>1, <1>5, <1>8, <2>1, <3>2, GoneBroken, KeptPaid
    <2>2. CASE Open(p) /\ pc'[p] # "CLOSE"
        <3>1. ~Broken(q)'
            <4>1. pc'[p] # "IDLE"
                BY <1>6
            <4>2. up'
                BY <1>5, <2>2 DEF Open, OnlyPeer
            <4> QED BY <1>1, <2>2, <4>1, <4>2 DEF Broken, Open
        <3> QED BY <1>1, <1>5, <1>8, <3>1, KeptPaid
    <2>3. CASE Open(p) /\ pc'[p] = "CLOSE"
        <3>1. m.type = "COMPLETE_SIG" /\ p # Server /\ pc[p] = "SEND"
            BY <1>6, <2>3
        <3>2. p = Client /\ q = Server
            BY <1>1, <3>1 DEF Peers
        <3>3. Talks(p)
            <4>1. InTurn
                BY <1>1, <1>5, <2>3, LiveOpen DEF TurnsInv
            <4> QED BY <1>1, <3>1, <4>1 DEF InTurn, HandsOver, Talks, Asks, Heard, Leaves, Peers
        <3>4. /\ loop[q] = "RECV" /\ pc[q] \in {"RECV", "PROCESS", "CLOSE"}
              /\ Only(chan[q], AnswerTypes)
              /\ pc[q] = "PROCESS" => received[q].type \in AnswerTypes
            BY <3>3 DEF Talks, Turn, OnlyOf
        <3>5. Only(chan'[q], ControlTypes)
            <4>1. chan'[q] = Append(chan[q], m)
                BY <1>1, <1>3, <2>3 DEF Transmit, TypeOK
            <4>2. Only(chan[q], ControlTypes) /\ chan[q] \in Seq(Message)
                BY <1>1, <3>4, AnswersAreControl DEF TypeOK
            <4> HIDE DEF m, q
            <4> QED BY <1>4, <4>1, <4>2, AppendOrder
        <3>6. Rousing(q) \cap ControlTypes = {}
            BY <3>2, PeersAssumption, AnswersAreControl DEF Rousing
        <3>7. ~CanFail(q)'
            <4>1. ~(\E x \in Items(chan'[q]) : x.type \in Rousing(q))
                BY <3>5, <3>6 DEF Only, Items
            <4>2. received[q].type \in AnswerTypes => received[q].type \notin Rousing(q)
                BY <3>6, AnswersAreControl
            <4> HIDE DEF q
            <4> QED BY <1>5, <3>4, <4>1, <4>2 DEF CanFail, InHand, Rousing, Kept
        <3> QED BY <1>1, <1>5, <1>8, <3>7, KeptPaid
    <2> QED BY <2>1, <2>2, <2>3
<1> QED BY <1>1, <1>11, <1>12

LEMMA SendErrorPaid ==
    ASSUME BacklogInv, NEW p \in Peers, TypeOK',
           \/ SendReplyFails(p)
           \/ \E t \in Tasks : SendUserTaskFails(p, t) \/ PackFails(p, t)
    PROVE  \A r \in Peers : Paid(r)'
<1> DEFINE q == Other(p)
<1>1. /\ q \in Peers /\ q # p /\ TypeOK /\ Other(q) = p
      /\ \A r \in Peers : r = p \/ r = q
      /\ TurnsInv /\ InOrder(p) /\ PointFits(p) /\ Paid(p)
    BY TwoPeers DEF BacklogInv, TurnsInv, AnswersInv
<1>2. /\ AfterSendError(p) /\ OnlyPeer(p) /\ Kept(q) /\ Quiet(p)
      /\ pc[p] \in {"SEND", "REPLY"}
      /\ \/ faults' = faults /\ ~Open(p)
         \/ faults' > faults
    <2>1. /\ AfterSendError(p) /\ Quiet(p) /\ pc[p] \in {"SEND", "REPLY"}
        BY DEF SendReplyFails, SendUserTaskFails, PackFails, Quiet
    <2>2. (faults' = faults /\ ~Open(p)) \/ faults' = faults + 1
        BY DEF SendReplyFails, SendUserTaskFails, PackFails
    <2>3. Kept(q) /\ OnlyPeer(p)
        BY <1>1 DEF SendReplyFails, SendUserTaskFails, PackFails, AfterSendError,
            OnlyPeer, Kept, TypeOK, queues
    <2> QED BY <1>1, <2>1, <2>2, <2>3, BacklogNat
<1>3. pc'[p] = IF pc[p] = "SEND" THEN "CLOSE" ELSE "RECV"
    BY <1>1, <1>2 DEF AfterSendError, PointFits, TypeOK
<1>4. PICK replies \in PendingReplies(p) : Len(reply_queue'[p]) = Len(replies)
    <2>1. CASE SendReplyFails(p)
        <3>1. PICK replies \in PendingReplies(p) : \E i, e :
                reply_queue' = [reply_queue EXCEPT ![p] = [replies EXCEPT ![i].error_count = e]]
            BY <2>1 DEF SendReplyFails
        <3>2. PICK i, e :
                reply_queue' = [reply_queue EXCEPT ![p] = [replies EXCEPT ![i].error_count = e]]
            BY <3>1
        <3>3. reply_queue'[p] = [replies EXCEPT ![i].error_count = e]
            BY <1>1, <3>2 DEF TypeOK
        <3>4. Len([replies EXCEPT ![i].error_count = e]) = Len(replies)
            BY <1>1, PendingLen
        <3> QED BY <3>3, <3>4
    <2>2. CASE \E t \in Tasks : SendUserTaskFails(p, t) \/ PackFails(p, t)
        <3>1. PICK replies \in PendingReplies(p) :
                reply_queue' = [reply_queue EXCEPT ![p] = replies]
            BY <2>2 DEF SendUserTaskFails, PackFails
        <3> QED BY <1>1, <3>1 DEF TypeOK
    <2> QED BY <2>1, <2>2
<1>5. /\ Len(replies) <= Len(reply_queue[p]) + 1
      /\ pc[p] = "REPLY" => replies = reply_queue[p]
      /\ Len(replies) \in Nat
    BY <1>1, PendingLen
<1>6. Backlog(p)' <= Backlog(p) + 1 /\ Backlog(p) \in Int /\ Backlog(p)' \in Int
    <2>1. /\ Len(reply_queue[p]) \in Nat /\ Len(reply_queue'[p]) \in Nat
          /\ Len(reply_queue'[p]) <= Len(reply_queue[p]) + 1
          /\ pc[p] = "REPLY" => Len(reply_queue'[p]) = Len(reply_queue[p])
        BY <1>1, <1>4, <1>5, BacklogNat
    <2>2. Backlog(p)' = Len(reply_queue'[p])
        <3>1. pc'[p] # "REPLY"
            BY <1>3
        <3> QED BY <2>1, <3>1 DEF Backlog
    <2>3. Backlog(p) = IF pc[p] = "REPLY" THEN Len(reply_queue[p]) - 1 ELSE Len(reply_queue[p])
        BY <2>1 DEF Backlog
    <2> HIDE DEF q
    <2> QED BY <2>1, <2>2, <2>3
<1>7. Backlog(p) < faults'
    <2>1. /\ Backlog(p) <= faults
          /\ ~Open(p) => Backlog(p) < faults
        BY <1>1, <1>2 DEF Paid, CanFail, Broken
    <2>2. faults \in Nat /\ faults' \in Nat
        BY <1>1, ConfigAssumption DEF TypeOK
    <2> HIDE DEF q
    <2> QED BY <1>2, <1>6, <2>1, <2>2
<1>8. ~CanFail(p)'
    <2>1. pc[p] = "REPLY" => Items(chan'[p]) = {}
        BY <1>1, <1>2 DEF InOrder, Quiet, Items
    <2> QED BY <1>2, <1>3, <2>1 DEF CanFail, InHand
<1>9. Paid(p)'
    BY <1>1, <1>6, <1>7, <1>8, ConfigAssumption DEF Paid, TypeOK
<1>10. Paid(q)'
    <2>1. CASE ~Open(p)
        <3>1. CanFail(q)' => CanFail(q)
            BY <1>1, <1>2, KeptCanFail DEF Quiet
        <3>2. faults' >= faults
            BY <1>1, <1>2, ConfigAssumption DEF TypeOK
        <3> QED BY <1>1, <1>2, <2>1, <3>1, <3>2, GoneBroken, KeptPaid
    <2>2. CASE faults' > faults
        <3>1. faults \in Nat /\ faults' \in Nat
            BY <1>1, <1>2, ConfigAssumption DEF TypeOK
        <3>2. faults' >= faults + 1
            BY <2>2, <3>1
        <3> QED BY <1>1, <1>2, <2>2, <3>1, <3>2, KeptPaid
    <2> QED BY <1>2, <2>1, <2>2
<1> QED BY <1>1, <1>9, <1>10

LEMMA SendTaskPaid ==
    ASSUME BacklogInv, NEW p \in Peers, TypeOK', NEW t \in Tasks, SendUserTask(p, t)
    PROVE  \A r \in Peers : Paid(r)'
<1> DEFINE q == Other(p)
<1>1. /\ q \in Peers /\ q # p /\ TypeOK /\ Other(q) = p
      /\ \A r \in Peers : r = p \/ r = q
      /\ TurnsInv /\ Paid(p)
    BY TwoPeers DEF BacklogInv, TurnsInv, AnswersInv
<1>2. pc[p] = "SEND"
    BY FreshFirst DEF SendUserTask, PointFits, BacklogInv, TurnsInv
<1>3. /\ OnlyPeer(p) /\ Kept(q) /\ faults' = faults /\ pc'[p] = "AWAIT"
      /\ ~Open(p) => Quiet(p)
    BY <1>1 DEF SendUserTask, Transmit, OnlyPeer, Kept, TypeOK, queues, Quiet
<1>4. reply_queue'[p] = reply_queue[p]
    <2>1. PICK replies \in PendingReplies(p) :
            PicksTask(p, replies, t) /\ reply_queue' = [reply_queue EXCEPT ![p] = replies]
        BY DEF SendUserTask
    <2>2. replies = reply_queue[p]
        BY <1>1, <2>1, TaskAfterReplies
    <2> QED BY <1>1, <2>1, <2>2 DEF TypeOK
<1>5. Backlog(p)' = Backlog(p) /\ CanFail(p)
    BY <1>2, <1>3, <1>4 DEF Backlog, CanFail
<1>6. Broken(p)' => Broken(p)
    BY <1>3 DEF Broken, Open, OnlyPeer, Kept
<1>7. Paid(p)'
    BY <1>1, <1>3, <1>5, <1>6 DEF Paid
<1>8. Paid(q)'
    <2>1. faults' >= faults
        BY <1>1, <1>3, BacklogNat
    <2>2. CASE ~Open(p)
        <3>1. CanFail(q)' => CanFail(q)
            BY <1>1, <1>3, <2>2, KeptCanFail DEF Quiet
        <3> QED BY <1>1, <1>2, <1>3, <2>1, <2>2, <3>1, GoneBroken, KeptPaid
    <2>3. CASE Open(p)
        <3>1. ~Broken(q)'
            BY <1>1, <1>3, <2>3 DEF Broken, Open, OnlyPeer
        <3> QED BY <1>1, <1>3, <2>1, <3>1, KeptPaid
    <2> QED BY <2>2, <2>3
<1> QED BY <1>1, <1>7, <1>8

\* Any other step of a peer that still has one to take: the answer that it
\* adds to its queue it is about to send.
LEMMA StepPaid ==
    ASSUME BacklogInv, NEW p \in Peers, TypeOK', OnlyPeer(p), faults' = faults,
           Backlog(p)' = Backlog(p), CanFail(p)' => CanFail(p),
           pc[p] # "IDLE", Items(chan'[Other(p)]) \subseteq Items(chan[Other(p)]),
           \/ pc'[p] \notin {"IDLE", "CLOSE"}
           \/ ~Open(p)
           \/ ~CanFail(Other(p))
    PROVE  \A r \in Peers : Paid(r)'
<1> DEFINE q == Other(p)
<1>1. /\ q \in Peers /\ q # p /\ TypeOK /\ Other(q) = p
      /\ \A r \in Peers : r = p \/ r = q
      /\ TurnsInv /\ Paid(p) /\ Kept(q)
    BY TwoPeers DEF BacklogInv, TurnsInv, AnswersInv, OnlyPeer
<1>2. Broken(p)' => Broken(p)
    BY DEF Broken, Open, OnlyPeer, Kept
<1>3. Paid(p)'
    BY <1>1, <1>2 DEF Paid
<1>4. CanFail(q)' => CanFail(q)
    BY <1>1, KeptCanFail
<1>5. Broken(q)' /\ CanFail(q)' => Broken(q)
    BY <1>4, KeptBroken, GoneBroken
<1>6. faults' >= faults
    BY <1>1, BacklogNat
<1>7. Paid(q)'
    BY <1>1, <1>4, <1>5, <1>6, KeptPaid
<1> QED BY <1>1, <1>3, <1>7

LEMMA ReceivePaid ==
    ASSUME BacklogInv, NEW p \in Peers, TypeOK', Receive(p)
    PROVE  \A r \in Peers : Paid(r)'
<1> DEFINE m == Head(chan[p])
           x == received'[p].type
<1>1. /\ Other(p) \in Peers /\ Other(p) # p /\ TypeOK /\ PointFits(p)
    BY TwoPeers DEF BacklogInv, TurnsInv, AnswersInv
<1>2. /\ pc[p] \in {"RECV", "AWAIT"} /\ chan[p] # <<>> /\ chan[p] \in Seq(Message)
      /\ m \in Message
    BY <1>1, CutShortInSeq DEF Receive, Waiting, TypeOK
<1>3. /\ chan'[p] = Tail(chan[p]) /\ chan'[Other(p)] = chan[Other(p)]
      /\ pc'[p] = "PROCESS" /\ loop'[p] = loop[p] /\ reply_queue' = reply_queue
    BY <1>1 DEF Receive, TypeOK
<1>4. /\ m.type \in ControlTypes => x = m.type
      /\ m.type \notin ControlTypes => m.type \in DataTypes \cup UserTypes
    BY <1>1, <1>2 DEF Receive, TypeOK, Message
<1>5. OnlyPeer(p) /\ faults' = faults
    BY <1>1 DEF Receive, OnlyPeer, Kept, TypeOK
<1>6. m \in Items(chan[p]) /\ Items(chan'[p]) \subseteq Items(chan[p])
    BY <1>2, <1>3, ItemsKept
<1> HIDE DEF m, x
<1>7. x \in Rousing(p) => m.type \in Rousing(p)
    BY <1>4 DEF Rousing
<1>8. CanFail(p)' => CanFail(p)
    BY <1>1, <1>2, <1>3, <1>6, <1>7 DEF CanFail, InHand, PointFits, Rousing, x
<1>9. Backlog(p)' = Backlog(p)
    BY <1>2, <1>3 DEF Backlog
<1> QED BY <1>2, <1>3, <1>5, <1>8, <1>9, StepPaid

LEMMA ProcessPaid ==
    ASSUME BacklogInv, NEW p \in Peers, TypeOK',
           \/ CheckFile(p) \/ ReportPosition(p) \/ AckPart(p) \/ ProcessMessage(p)
           \/ ProcessAnswer(p)
    PROVE  \A r \in Peers : Paid(r)'
<1>1. /\ Other(p) \in Peers /\ Other(p) # p /\ TypeOK /\ InOrder(p) /\ PointFits(p)
    BY TwoPeers DEF BacklogInv, TurnsInv, AnswersInv
<1>2. /\ OnlyPeer(p) /\ faults' = faults /\ chan' = chan /\ pc[p] = "PROCESS"
      /\ loop'[p] = loop[p]
    BY <1>1 DEF CheckFile, ReportPosition, AckPart, ProcessMessage, ProcessAnswer, Processing,
        ThenReply, AddReply, OnlyPeer, Kept, TypeOK
<1>3. CASE CheckFile(p) \/ ReportPosition(p) \/ AckPart(p) \/ ProcessMessage(p)
    <2>1. pc'[p] = "REPLY" /\ CanFail(p)
        <3>1. pc'[p] = "REPLY"
            BY <1>1, <1>3
               DEF CheckFile, ReportPosition, AckPart, ProcessMessage, ThenReply, TypeOK
        <3>2. received[p].type \in UserTypes
            BY <1>3 DEF CheckFile, ReportPosition, AckPart, ProcessMessage, Processing,
                FileTypes, UserTypes
        <3> QED BY <1>2, <3>1, <3>2 DEF CanFail, InHand, Rousing
    <2>2. PICK type, id, pos : AddReply(p, type, id, pos)
        BY <1>3 DEF CheckFile, ReportPosition, AckPart, ProcessMessage
    <2> DEFINE c == NewControl(p, type, id, pos)
    <2>3. reply_queue'[p] = Append(reply_queue[p], c)
        BY <1>1, <2>2 DEF AddReply, TypeOK
    <2> HIDE DEF c
    <2>4. reply_queue[p] \in Seq(Control) /\ reply_queue'[p] \in Seq(Control)
        BY <1>1 DEF TypeOK
    <2>5. Len(reply_queue'[p]) = Len(reply_queue[p]) + 1
        BY <2>3, <2>4
    <2>6. Len(reply_queue[p]) \in Nat
        BY <2>4
    <2>7. Backlog(p)' = Backlog(p)
        BY <1>2, <2>1, <2>5, <2>6 DEF Backlog
    <2>8. pc'[p] \notin {"IDLE", "CLOSE"} /\ pc[p] # "IDLE"
        BY <1>2, <2>1
    <2> QED BY <1>2, <2>1, <2>7, <2>8, StepPaid
<1>4. CASE ProcessAnswer(p)
    <2>1. pc'[p] = loop[p] /\ loop[p] \in {"SEND", "RECV"} /\ reply_queue' = reply_queue
        BY <1>1, <1>4 DEF ProcessAnswer, TypeOK
    <2>2. CanFail(p)' => CanFail(p)
        BY <1>2, <2>1 DEF CanFail, InHand, Rousing
    <2>3. Backlog(p)' = Backlog(p)
        BY <1>2, <2>1 DEF Backlog
    <2> QED BY <1>2, <2>1, <2>2, <2>3, StepPaid
<1> QED BY <1>3, <1>4

\* A peer whose COMPLETE_SIG has been seen has nothing more to send.
LEMMA ProcessCompletePaid ==
    ASSUME BacklogInv, NEW p \in Peers, TypeOK', ProcessComplete(p)
    PROVE  \A r \in Peers : Paid(r)'
<1> DEFINE q == Other(p)
<1>1. /\ q \in Peers /\ q # p /\ TypeOK /\ Other(q) = p
      /\ TurnsInv /\ InOrder(p) /\ PointFits(p)
      /\ \A r \in Peers : r = p \/ r = q
    BY TwoPeers DEF BacklogInv, TurnsInv, AnswersInv
<1>2. /\ OnlyPeer(p) /\ faults' = faults /\ chan' = chan /\ reply_queue' = reply_queue
      /\ pc[p] = "PROCESS" /\ received[p].type = "COMPLETE_SIG"
    BY <1>1 DEF ProcessComplete, NoAnswer, Processing, OnlyPeer, Kept, TypeOK
<1>3. /\ loop[p] = "RECV" /\ p = Client => pc'[p] = "SEND"
      /\ loop[p] # "RECV" \/ p # Client => pc'[p] = "CLOSE"
    BY <1>1, <1>2 DEF ProcessComplete, NoAnswer, PointFits, TypeOK
<1>4. CanFail(p)' => CanFail(p)
    <2>1. CASE pc'[p] = "CLOSE"
        BY <2>1 DEF CanFail, InHand
    <2>2. CASE p = Client
        BY <1>2, <2>2 DEF CanFail, InHand, Rousing
    <2> QED BY <1>3, <2>1, <2>2
<1>5. Backlog(p)' = Backlog(p)
    BY <1>2, <1>3 DEF Backlog
<1> HIDE DEF q
<1>6. pc'[p] \notin {"IDLE", "CLOSE"} \/ ~Open(p) \/ ~CanFail(q)
    <2> SUFFICES ASSUME pc'[p] = "CLOSE", Open(p) PROVE ~CanFail(q)
        BY <1>3
    <2>1. InTurn
        BY <1>1, <1>2, LiveOpen DEF TurnsInv
    <2>2. p # Client => p = Server /\ q = Client
        BY <1>1, PeersAssumption DEF Peers
    <2>3. "COMPLETE_SIG" \notin AnswerTypes /\ "COMPLETE_SIG" \notin DataTypes \cup UserTypes
        BY AnswersAreControl
    <2>4. chan[p] = <<>>
        BY <1>1, <1>2, <2>3 DEF InOrder
    <2>5. Heard(p) \/ Leaves(q)
        BY <1>1, <1>2, <1>3, <2>1, <2>2, <2>3, <2>4
           DEF InTurn, HandsOver, Talks, Asks, Heard, Leaves, OnlyOf, LastIs, EndsIn, InHand, Turn, Peers
    <2>6. pc[q] = "CLOSE" \/ (pc[q] = "RECV" /\ chan[q] = <<>>)
        BY <1>1, <2>5 DEF Heard, Leaves, q
    <2> QED BY <2>6 DEF CanFail, InHand, Items
<1> QED BY <1>2, <1>4, <1>5, <1>6, StepPaid DEF q

\* While there is a connection one of the two is not waiting.
LEMMA FailsIfGone ==
    ASSUME TurnsInv, NEW p \in Peers, ReceiveFails(p)
    PROVE  ~Open(p)
<1> DEFINE q == Other(p)
<1>1. /\ q \in Peers /\ q # p /\ Other(q) = p
      /\ \A r \in Peers : r = p \/ r = q
      /\ PointFits(p) /\ PointFits(q)
    BY TwoPeers DEF TurnsInv
<1> SUFFICES ASSUME Open(p) PROVE FALSE
    OBVIOUS
<1>2. /\ chan[p] = <<>> /\ chan[q] = <<>>
      /\ pc[p] \in {"RECV", "AWAIT"} /\ pc[q] \in {"RECV", "AWAIT"}
    BY DEF ReceiveFails, Waiting
<1> HIDE DEF q
<1>3. InTurn
    BY <1>2, LiveOpen DEF TurnsInv
<1>4. Len(<<>>) # 1
    OBVIOUS
<1>5. HandsOver \/ (\E r \in Peers : Asks(r) \/ Heard(r))
    BY <1>1, <1>2, <1>3 DEF InTurn, Talks, Leaves
<1>6. ~HandsOver
    BY <1>1, <1>2 DEF HandsOver, LastIs, EndsIn, InHand, Peers
<1>7. ~Asks(p) /\ ~Asks(q)
    BY <1>1, <1>2 DEF Asks, LastIs, EndsIn, InHand, q
<1>8. ~Heard(p) /\ ~Heard(q)
    <2>1. /\ loop[p] = "SEND" => pc[p] = "AWAIT"
          /\ loop[q] = "SEND" => pc[q] = "AWAIT"
        BY <1>1, <1>2 DEF PointFits
    <2> QED BY <1>1, <1>2, <1>4, <2>1 DEF Heard, Turn
<1> QED BY <1>1, <1>5, <1>6, <1>7, <1>8

\* Without a fault no wait fails while there is a connection.
LEMMA NoAnswerPaid ==
    ASSUME BacklogInv, NEW p \in Peers, TypeOK', ReceiveFails(p) \/ ReceiveTimesOut(p)
    PROVE  \A r \in Peers : Paid(r)'
<1> DEFINE q == Other(p)
<1>1. /\ q \in Peers /\ q # p /\ TypeOK /\ Other(q) = p
      /\ TurnsInv /\ PointFits(p) /\ Paid(p)
      /\ \A r \in Peers : r = p \/ r = q
    BY TwoPeers DEF BacklogInv, TurnsInv, AnswersInv
<1>2. /\ OnlyPeer(p) /\ Kept(q) /\ chan' = chan /\ reply_queue' = reply_queue
      /\ pc[p] \in {"RECV", "AWAIT"} /\ pc'[p] = "CLOSE"
    BY <1>1 DEF ReceiveFails, ReceiveTimesOut, NoAnswer, Waiting, OnlyPeer, Kept, PointFits, TypeOK
<1>3. ~CanFail(p)'
    BY <1>2 DEF CanFail, InHand
<1>4. Backlog(p)' = Backlog(p) /\ Backlog(p) \in Int /\ faults \in Nat
    <2>1. Backlog(p)' = Backlog(p)
        BY <1>2 DEF Backlog
    <2>2. Len(reply_queue[p]) \in Nat /\ faults \in Nat
        BY <1>1, BacklogNat
    <2>3. Backlog(p) \in Int
        BY <2>2 DEF Backlog
    <2> QED BY <2>1, <2>2, <2>3
<1> HIDE DEF q
<1>5. CASE ReceiveFails(p)
    <2>1. ~Open(p)
        BY <1>1, <1>5, FailsIfGone
    <2>2. faults' = faults
        BY <1>5 DEF ReceiveFails
    <2>3. Items(chan'[q]) \subseteq Items(chan[q])
        BY <1>2
    <2> QED BY <1>2, <1>3, <1>4, <2>1, <2>2, <2>3, StepPaid DEF q
<1>6. CASE ReceiveTimesOut(p)
    <2>1. faults' = faults + 1
        BY <1>6 DEF ReceiveTimesOut
    <2>2. Paid(p)'
        BY <1>1, <1>3, <1>4, <2>1 DEF Paid
    <2>3. Paid(q)'
        BY <1>1, <1>2, <1>4, <2>1, KeptPaid
    <2> QED BY <1>1, <2>2, <2>3
<1> QED BY <1>5, <1>6

LEMMA LinkPaid ==
    ASSUME BacklogInv, TypeOK', Connect \/ Cut
    PROVE  \A r \in Peers : Paid(r)'
<1> SUFFICES ASSUME NEW r \in Peers PROVE Paid(r)'
    OBVIOUS
<1>1. TypeOK /\ Paid(r) /\ Backlog(r) \in Int /\ faults \in Nat
    BY BacklogNat DEF BacklogInv, TurnsInv, AnswersInv, Backlog
<1>2. CASE Connect
    <2>1. /\ reply_queue' = reply_queue /\ faults' = faults /\ pc[r] = "IDLE"
          /\ \A s \in Peers : pc'[s] \in {"SEND", "RECV"}
          /\ up'
        BY <1>2 DEF Connect, queues
    <2>2. ~Broken(r)'
        BY <2>1, TwoPeers DEF Broken, Open
    <2>3. Backlog(r)' = Backlog(r)
        BY <2>1 DEF Backlog
    <2> QED BY <1>1, <2>1, <2>2, <2>3 DEF Paid
<1>3. CASE Cut
    <2>1. reply_queue' = reply_queue /\ pc' = pc /\ faults' = faults + 1
        BY <1>3 DEF Cut, queues
    <2>2. Backlog(r)' = Backlog(r)
        BY <2>1 DEF Backlog
    <2> QED BY <1>1, <2>1, <2>2 DEF Paid
<1> QED BY <1>2, <1>3

LEMMA BacklogInit == OrderlyUse /\ Init => BacklogInv
<1> SUFFICES ASSUME OrderlyUse, Init PROVE BacklogInv
    OBVIOUS
<1>1. TurnsInv
    BY TurnsInit
<1>2. ASSUME NEW p \in Peers PROVE Paid(p)
    BY <1>2 DEF Init, Paid, Backlog, CanFail, InHand
<1> QED BY <1>1, <1>2 DEF BacklogInv

LEMMA NoNull == ~UserDeletes /\ AnswersInv => \A p \in Peers : ~NullDereference(p)
BY NullNeedsDelete DEF NullDereference, NoNullDereference

LEMMA BacklogNext == OrderlyUse /\ BacklogInv /\ [Next]_vars => BacklogInv'
<1> SUFFICES ASSUME OrderlyUse, BacklogInv, [Next]_vars PROVE BacklogInv'
    OBVIOUS
<1> DEFINE AllPaid == \A r \in Peers : Paid(r)'
<1>1. TurnsInv' /\ TypeOK' /\ TypeOK /\ AnswersInv
    BY TurnsNext, TypeNext DEF BacklogInv, TurnsInv, AnswersInv
<1>2. ASSUME UNCHANGED <<reply_queue, chan, up, pc, loop, received, faults>> PROVE AllPaid
    BY <1>2 DEF BacklogInv, Paid, Backlog, Broken, Open, CanFail, InHand
<1>3. CASE UNCHANGED vars
    BY <1>1, <1>2, <1>3 DEF vars, BacklogInv
<1>4. CASE Next
    <2>1. ASSUME Connect \/ Cut PROVE AllPaid
        BY <1>1, <2>1, LinkPaid
    <2>2. ASSUME NEW p \in Peers,
                 \/ CloseConn(p) \/ Crash(p) \/ CrashWhileUnpacking(p)
                 \/ CrashBeforeExtension(p) \/ \E t \in Tasks : CrashWhileAdding(p, t)
          PROVE  AllPaid
        <3>1. (CloseConn(p) /\ faults' = faults) \/ (Die(p) /\ faults' = faults + 1)
            BY <2>2 DEF CloseConn, Crash, CrashWhileUnpacking, CrashBeforeExtension,
                CrashWhileAdding
        <3>2. faults' >= faults /\ (CloseConn(p) \/ (Die(p) /\ faults' > faults))
            BY <1>1, <3>1, BacklogNat
        <3> QED BY <1>1, <3>2, LeavingPaid
    <2>3. ASSUME NEW p \in Peers,
                 \/ SendReply(p) \/ SendReplyFails(p)
                 \/ \E t \in Tasks : \/ SendUserTask(p, t) \/ SendUserTaskFails(p, t)
                                     \/ PackFails(p, t)
          PROVE  AllPaid
        BY <1>1, <2>3, SendReplyPaid, SendErrorPaid, SendTaskPaid
    <2>4. ASSUME NEW p \in Peers,
                 \/ Receive(p) \/ ReceiveFails(p) \/ ReceiveTimesOut(p)
                 \/ CheckFile(p) \/ ReportPosition(p) \/ AckPart(p) \/ ProcessMessage(p)
                 \/ ProcessAnswer(p) \/ ProcessComplete(p)
          PROVE  AllPaid
        BY <1>1, <2>4, ReceivePaid, NoAnswerPaid, ProcessPaid, ProcessCompletePaid
    <2>5. ASSUME User PROVE AllPaid
        BY <1>2, <2>5
           DEF User, AddTask, DeleteSend, DeleteReceive, DeleteAllSend, OrderlyUse
    <2>6. ASSUME NEW p \in Peers, PeerStep(p) PROVE AllPaid
        <3>1. ~NullDereference(p)
            BY <1>1, NoNull DEF OrderlyUse
        <3> QED BY <2>2, <2>3, <2>4, <2>6, <3>1 DEF PeerStep
    <2>7. ASSUME Fault PROVE AllPaid
        BY <2>1, <2>2, <2>3, <2>4, <2>7 DEF Fault
    <2>8. AllPaid
        BY <1>4, <2>1, <2>5, <2>6, <2>7 DEF Next
    <2> QED BY <1>1, <2>8 DEF BacklogInv
<1> QED BY <1>3, <1>4

LEMMA Backlogs == ASSUME OrderlyUse PROVE Spec => []BacklogInv
<1>1. Init => BacklogInv
    BY BacklogInit
<1>2. BacklogInv /\ [Next]_vars => BacklogInv'
    BY BacklogNext
<1> QED BY <1>1, <1>2, PTL DEF Spec

\* The control tasks that failed exchanges leave in memory never outnumber
\* the faults by more than the one just queued: no session without a fault
\* adds to them, however many sessions there are.
THEOREM BacklogNeverOutgrows == ASSUME OrderlyUse PROVE Spec => []BacklogBounded
<1>1. BacklogInv => BacklogBounded
    <2> SUFFICES ASSUME BacklogInv, NEW p \in Peers PROVE Len(reply_queue[p]) <= faults + 1
        BY DEF BacklogBounded
    <2>1. Len(reply_queue[p]) \in Nat /\ faults \in Nat
        BY BacklogNat DEF BacklogInv, TurnsInv, AnswersInv
    <2>2. Backlog(p) <= faults
        BY DEF BacklogInv, Paid
    <2> QED BY <2>1, <2>2 DEF Backlog
<1> QED BY <1>1, Backlogs, PTL

-----------------------------------------------------------------------------
(***************************************************************************)
(* Clean exchanges                                                         *)
(*                                                                         *)
(* An exchange without faults, step by step: until a first fault, the task *)
(* that is sent, what is on its way, what the receiver has made of it and  *)
(* its answer agree, whatever the lengths of files and blocks; between     *)
(* exchanges the two queues agree on how far each file has got.            *)
(***************************************************************************)
-----------------------------------------------------------------------------
(* The inductive invariant *)

\* The receiver has the first pos bytes; the part at 0 starts the copy anew.
Reached(t, pos) ==
    /\ recv_queue[t].current_position = pos
    /\ pos > 0 => store[t] = pos

\* No exchange about t is under way ...
Rest(t) ==
    \/ send_queue[t].status \in {"NONE", "PENDING"} /\ send_queue[t].current_position = -1
    \/ /\ send_queue[t].status = "STARTED" /\ Kind[t] = "LARGE_FILE"
       /\ send_queue[t].current_position \in 0..FileSize[t] - 1
       /\ Reached(t, send_queue[t].current_position)
    \/ send_queue[t].status = "CHECKED"
    \/ send_queue[t].status = "COMPLETED" /\ Kind[t] = "MESSAGE"
\* ... or t has been sent and not been answered.
Underway(t) ==
    /\ send_queue[t].status = "TRANSING"
    /\ IsPart(t, send_queue[t]) => /\ send_queue[t].block_size > 0
                                   /\ send_queue[t].current_position < FileSize[t]
Tidy(t) ==
    /\ send_queue[t].error_count = 0
    /\ recv_queue[t].status # "INCONSIST"
    /\ IF sending[Owner[t]].id = t THEN Underway(t) ELSE Rest(t)

\* The receiver has what was sent of a large file, which goes on after it.
GoesOn(t) ==
    LET task == send_queue[t] IN
    /\ Kind[t] = "LARGE_FILE"
    /\ IF task.current_position < 0 THEN Reached(t, 0)
       ELSE /\ task.current_position + task.block_size < FileSize[t]
            /\ Reached(t, task.current_position + task.block_size)

\* A message with data for p, the task made of it, and an answer for p are
\* about the task that is being sent.
Sent(p, m) ==
    LET t == sending[Other(p)].id IN
    /\ t # 0 /\ m = PackedMessage(t, send_queue[t])
    /\ IsPart(t, send_queue[t]) => Reached(t, send_queue[t].current_position)
Arrived(p, task) ==
    LET t == sending[Other(p)].id IN
    /\ t # 0 /\ task.id = t /\ task.status = recv_queue[t].status
    /\ IF task.status = "COMPLETED" THEN Kind[t] = "MESSAGE" \/ store[t] = FileSize[t]
       ELSE GoesOn(t)
Right(p, answer) ==
    LET t == sending[p].id IN
    /\ t # 0 /\ answer.id = t
    /\ \/ answer.type = "CHECK_PASS"
       \/ answer.type = "REPLY" /\ (Kind[t] = "MESSAGE" \/ GoesOn(t))

ChanClean(p) == \A m \in Items(chan[p]) :
    /\ m.type \in DataTypes => Sent(p, m)
    /\ m.type \in AnswerTypes => Right(p, m)
    /\ m.type = "COMPLETE_SIG" => loop[p] = "RECV"
HandClean(p) == pc[p] = "PROCESS" =>
    /\ received[p].type \in UserTypes => Arrived(p, received[p])
    /\ received[p].type \in AnswerTypes => Right(p, received[p])
    /\ received[p].type = "COMPLETE_SIG" => loop[p] = "RECV"
QueueClean(p) == \A c \in Items(reply_queue[p]) :
    c.type \in AnswerTypes /\ Right(Other(p), c)

AllTidy ==
    /\ \A t \in Tasks : Tidy(t)
    /\ \A p \in Peers : ChanClean(p) /\ HandClean(p) /\ QueueClean(p)

CleanInv == BacklogInv /\ EntriesInv /\ (faults = 0 => AllTidy)

-----------------------------------------------------------------------------
(* What a step leaves alone.                                               *)

Same(t) ==
    send_queue'[t] = send_queue[t] /\ recv_queue'[t] = recv_queue[t] /\ store'[t] = store[t]

\* A step that is of no concern to the exchange that p has begun.
SameFor(p) ==
    sending'[p].id = sending[p].id /\ (sending[p].id # 0 => Same(sending[p].id))

LEMMA TidyKept ==
    ASSUME NEW t \in Tasks, Tidy(t), Same(t),
           sending'[Owner[t]].id = t <=> sending[Owner[t]].id = t
    PROVE  Tidy(t)'
BY DEF Tidy, Underway, Rest, Reached, Same, IsPart

LEMMA SentKept ==
    ASSUME NEW p \in Peers, NEW m, Sent(p, m), SameFor(Other(p))
    PROVE  Sent(p, m)'
BY DEF Sent, SameFor, Same, Reached, IsPart, PackedMessage

LEMMA ArrivedKept ==
    ASSUME NEW p \in Peers, NEW task, Arrived(p, task), SameFor(Other(p))
    PROVE  Arrived(p, task)'
BY DEF Arrived, GoesOn, SameFor, Same, Reached

LEMMA RightKept ==
    ASSUME NEW p \in Peers, NEW c, Right(p, c), SameFor(p)
    PROVE  Right(p, c)'
BY DEF Right, GoesOn, SameFor, Same, Reached

\* A step that concerns no exchange and adds nothing to what p has.
LEMMA ChanKept ==
    ASSUME NEW p \in Peers, ChanClean(p), SameFor(p), SameFor(Other(p)),
           Items(chan'[p]) \subseteq Items(chan[p]), loop'[p] = loop[p] \/ loop'[p] = "RECV"
    PROVE  ChanClean(p)'
<1> SUFFICES ASSUME NEW m \in Items(chan'[p])
             PROVE  /\ m.type \in DataTypes => Sent(p, m)'
                    /\ m.type \in AnswerTypes => Right(p, m)'
                    /\ m.type = "COMPLETE_SIG" => loop'[p] = "RECV"
    BY DEF ChanClean, Items
<1> QED BY SentKept, RightKept DEF ChanClean

LEMMA HandKept ==
    ASSUME NEW p \in Peers, HandClean(p), SameFor(p), SameFor(Other(p)),
           \/ pc'[p] # "PROCESS"
           \/ /\ pc[p] = "PROCESS" /\ received'[p] = received[p]
              /\ loop'[p] = loop[p] \/ loop'[p] = "RECV"
    PROVE  HandClean(p)'
BY ArrivedKept, RightKept DEF HandClean

LEMMA QueueKept ==
    ASSUME NEW p \in Peers, QueueClean(p), SameFor(Other(p)),
           Items(reply_queue'[p]) \subseteq Items(reply_queue[p])
    PROVE  QueueClean(p)'
BY TwoPeers, RightKept DEF QueueClean, Items

-----------------------------------------------------------------------------
(* Before a first fault: queues are empty but for an answer about to be    *)
(* sent, nobody is left alone while it still has something to send, and an *)
(* exchange is either under way or answered.                               *)

Perfect == CleanInv /\ faults = 0

LEMMA PerfectFacts ==
    ASSUME Perfect
    PROVE  /\ TypeOK /\ AnswersInv /\ TurnsInv /\ BacklogInv /\ EntriesInv /\ AllTidy
           /\ \A p \in Peers : /\ InOrder(p) /\ PointFits(p) /\ Paid(p)
                               /\ ChanClean(p) /\ HandClean(p) /\ QueueClean(p)
           /\ \A t \in Tasks : Tidy(t)
BY DEF Perfect, CleanInv, BacklogInv, TurnsInv, AnswersInv, AllTidy

LEMMA EmptyQueue ==
    ASSUME BacklogInv, faults = 0, NEW p \in Peers
    PROVE  /\ pc[p] # "REPLY" => reply_queue[p] = <<>> /\ Items(reply_queue[p]) = {}
           /\ Len(reply_queue[p]) <= 1
<1>1. reply_queue[p] \in Seq(Control)
    BY DEF BacklogInv, TurnsInv, AnswersInv, TypeOK
<1>2. Backlog(p) <= 0
    BY DEF BacklogInv, Paid
<1>3. Len(reply_queue[p]) \in Nat
    BY <1>1
<1>4. pc[p] # "REPLY" => Len(reply_queue[p]) = 0
    BY <1>2, <1>3 DEF Backlog
<1>5. Len(reply_queue[p]) = 0 => reply_queue[p] = <<>>
    BY <1>1, EmptySeq
<1>6. Len(reply_queue[p]) <= 1
    BY <1>2, <1>3 DEF Backlog
<1>7. Items(<<>>) = {}
    BY DEF Items
<1> QED BY <1>4, <1>5, <1>6, <1>7

LEMMA NotAlone ==
    ASSUME Perfect, NEW p \in Peers, CanFail(p), pc[p] # "IDLE"
    PROVE  Live /\ InTurn /\ Open(p) /\ pc[Other(p)] # "CLOSE"
<1>1. /\ Paid(p) /\ TypeOK /\ TurnsInv /\ faults = 0
    BY PerfectFacts DEF Perfect
<1>2. Backlog(p) >= 0
    <2>1. Len(reply_queue[p]) \in Nat
        BY <1>1, BacklogNat
    <2>2. pc[p] = "REPLY" => Len(reply_queue[p]) # 0
        BY <1>1 DEF TurnsInv, PointFits, Fresh
    <2> QED BY <2>1, <2>2 DEF Backlog
<1>3. Backlog(p) \in Int
    <2>1. Len(reply_queue[p]) \in Nat
        BY <1>1, BacklogNat
    <2> QED BY <2>1 DEF Backlog
<1>4. ~Broken(p)
    BY <1>1, <1>2, <1>3 DEF Paid
<1>5. Open(p) /\ pc[Other(p)] # "CLOSE"
    BY <1>4 DEF Broken
<1>6. Live
    BY <1>5, LiveOpen
<1> QED BY <1>1, <1>5, <1>6 DEF TurnsInv

\* While p waits for an answer the other has only what belongs to the exchange.
LEMMA InExchange ==
    ASSUME Perfect, NEW p \in Peers, sending[p].id # 0
    PROVE  /\ sending[p].id \in Tasks /\ Owner[sending[p].id] = p
           /\ Underway(sending[p].id)
           /\ pc[p] \in {"AWAIT", "PROCESS"} /\ loop[p] = "SEND" /\ loop[Other(p)] = "RECV"
           /\ Live /\ (Asks(p) \/ Heard(p)) /\ pc[Other(p)] # "CLOSE"
<1>1. /\ PointFits(p) /\ PointFits(Other(p)) /\ Tidy(sending[p].id)
      /\ sending[p].id \in Tasks /\ Owner[sending[p].id] = p
    BY PerfectFacts, TwoPeers DEF TypeOK, EntriesInv, CopyFits
<1>2. pc[p] \in {"AWAIT", "PROCESS"} /\ loop[p] = "SEND"
    BY <1>1 DEF PointFits
<1>3. Live /\ InTurn /\ pc[Other(p)] # "CLOSE"
    BY <1>2, NotAlone DEF CanFail
<1>4. Asks(p) \/ Heard(p)
    BY <1>2, <1>3, TwoPeers DEF InTurn, HandsOver, Talks, Asks, Heard, Leaves, Turn, Peers
<1>5. loop[Other(p)] = "RECV"
    BY <1>4 DEF Asks, Heard, Turn
<1> QED BY <1>1, <1>2, <1>3, <1>4, <1>5 DEF Tidy

\* Only one exchange at a time, and nothing of it where it is not.
LEMMA OtherIdle ==
    ASSUME Perfect, NEW p \in Peers, loop[p] = "RECV"
    PROVE  /\ sending[p].id = 0
           /\ \A m \in Items(chan[p]) : m.type \notin AnswerTypes
           /\ pc[p] = "PROCESS" => received[p].type \notin AnswerTypes
<1>1. PointFits(p) /\ ChanClean(p) /\ HandClean(p)
    BY PerfectFacts
<1>2. sending[p].id = 0
    BY <1>1 DEF PointFits
<1> QED BY <1>1, <1>2 DEF ChanClean, HandClean, Right

LEMMA UnchangedTidy ==
    ASSUME Perfect, UNCHANGED <<send_queue, recv_queue, store>>,
           \A p \in Peers : sending'[p].id = sending[p].id
    PROVE  (\A t \in Tasks : Tidy(t)') /\ \A p \in Peers : SameFor(p)
<1>1. \A t \in Tasks : Tidy(t) /\ Owner[t] \in Peers
    BY PerfectFacts, TasksAssumption
<1>2. \A t : Same(t)
    BY DEF Same
<1>3. \A t \in Tasks : Tidy(t)'
    BY <1>1, <1>2, TidyKept
<1> QED BY <1>2, <1>3 DEF SameFor

-----------------------------------------------------------------------------
(* The steps                                                               *)

LEMMA LinkClean ==
    ASSUME Perfect, Connect \/ (\E p \in Peers : CloseConn(p))
    PROVE  AllTidy'
<1>1. TypeOK
    BY PerfectFacts
<1>2. /\ UNCHANGED <<send_queue, recv_queue, store, reply_queue, sending, received>>
    BY DEF Connect, CloseConn, queues, files
<1>3. (\A t \in Tasks : Tidy(t)') /\ \A p \in Peers : SameFor(p)
    BY <1>2, UnchangedTidy
<1>4. ASSUME NEW p \in Peers PROVE ChanClean(p)' /\ HandClean(p)' /\ QueueClean(p)'
    <2>1. ChanClean(p) /\ HandClean(p) /\ QueueClean(p) /\ SameFor(p) /\ SameFor(Other(p))
        BY <1>3, PerfectFacts, TwoPeers
    <2>2. CASE Connect
        <3>1. Items(chan'[p]) = {} /\ pc'[p] # "PROCESS"
            BY <2>2 DEF Connect, Items
        <3>2. ChanClean(p)'
            BY <3>1 DEF ChanClean
        <3> QED BY <1>2, <2>1, <3>1, <3>2, ChanKept, HandKept, QueueKept
    <2>3. ASSUME NEW q \in Peers, CloseConn(q)
          PROVE  ChanClean(p)' /\ HandClean(p)' /\ QueueClean(p)'
        <3>1. Items(chan'[p]) \subseteq Items(chan[p])
            BY <1>1, <2>3, DisconnectItems DEF CloseConn
        <3>2. loop' = loop /\ (pc'[p] = pc[p] \/ pc'[p] = "IDLE")
            BY <1>1, <2>3 DEF CloseConn, TypeOK
        <3> QED BY <1>2, <2>1, <3>1, <3>2, ChanKept, HandKept, QueueKept
    <2> QED BY <2>2, <2>3
<1> QED BY <1>3, <1>4 DEF AllTidy

LEMMA SendReplyClean ==
    ASSUME Perfect, BacklogInv', faults' = 0, NEW p \in Peers, SendReply(p)
    PROVE  AllTidy'
<1> DEFINE q == Other(p)
<1>1. /\ q \in Peers /\ q # p /\ TypeOK /\ PointFits(p) /\ Other(q) = p
      /\ \A r \in Peers : r = p \/ r = q
      /\ ChanClean(p) /\ HandClean(p) /\ QueueClean(p)
      /\ ChanClean(q) /\ HandClean(q) /\ QueueClean(q)
    BY TwoPeers, PerfectFacts
<1>2. PICK replies \in PendingReplies(p) : \E i \in 1..Len(replies) :
        /\ Transmit(p, ReplyMessage(replies[i]))
        /\ AfterReplySent(p, replies[i].type)
    BY DEF SendReply
<1>3. PICK i \in 1..Len(replies) :
        /\ Transmit(p, ReplyMessage(replies[i]))
        /\ AfterReplySent(p, replies[i].type)
    BY <1>2
<1> DEFINE c == replies[i]
           m == ReplyMessage(c)
<1>4. /\ UNCHANGED <<send_queue, recv_queue, store, received>>
      /\ pc[p] \in {"SEND", "REPLY"}
    BY DEF SendReply, files
<1>5. /\ sending'[p] = NoTask /\ sending'[q] = sending[q]
      /\ pc'[q] = pc[q] /\ loop'[q] = loop[q] /\ reply_queue'[q] = reply_queue[q]
      /\ pc'[p] \in {"SEND", "RECV", "CLOSE"} /\ (loop'[p] = loop[p] \/ loop'[p] = "RECV")
    BY <1>1, <1>3 DEF SendReply, AfterReplySent, TypeOK
<1>6. \A r \in Peers : sending'[r].id = sending[r].id
    BY <1>1, <1>4, <1>5 DEF PointFits, NoTask
<1>7. (\A t \in Tasks : Tidy(t)') /\ \A r \in Peers : SameFor(r)
    BY <1>4, <1>6, UnchangedTidy
<1>8. chan'[p] = chan[p] /\ Items(chan'[q]) \subseteq Items(chan[q]) \cup {m}
    <2>1. c \in Control
        BY PerfectFacts, PendingItems, ElementOfSeq
    <2>2. m \in Message
        BY <2>1, MessageTypes
    <2> QED BY <1>1, <1>3, <2>2, TransmitItems DEF Transmit, TypeOK
<1>9. m.type = c.type /\ m.id = c.id
    BY DEF ReplyMessage
<1>10. \/ c \in Items(reply_queue[p]) /\ pc[p] = "REPLY"
       \/ c.type = "COMPLETE_SIG" /\ pc[p] = "SEND"
    <2>1. c \in Items(reply_queue[p]) \/ c.type = "COMPLETE_SIG"
        <3>1. c \in Items(replies)
            BY DEF Items
        <3> QED BY <1>1, <3>1, PendingItems
    <2>2. CASE pc[p] = "REPLY"
        <3>1. replies = reply_queue[p]
            BY <2>2, PerfectFacts, PendingLen
        <3> QED BY <2>2, <3>1 DEF Items
    <2>3. CASE pc[p] = "SEND"
        <3>1. Items(reply_queue[p]) = {}
            BY <2>3, EmptyQueue DEF Perfect, CleanInv
        <3> QED BY <2>1, <2>3, <3>1
    <2> QED BY <1>4, <2>2, <2>3
<1> HIDE DEF q, m, c
<1>11. ChanClean(p)' /\ HandClean(p)'
    BY <1>1, <1>4, <1>5, <1>7, <1>8, ChanKept, HandKept DEF q
<1>12. QueueClean(p)'
    <2>1. Items(reply_queue'[p]) = {}
        <3>1. BacklogInv' /\ faults' = 0 /\ pc'[p] # "REPLY"
            BY <1>5
        <3>2. Len(reply_queue'[p]) <= 0 /\ reply_queue'[p] \in Seq(Control)
            <4>1. Paid(p)' /\ TypeOK'
                BY <3>1 DEF BacklogInv, TurnsInv, AnswersInv
            <4>2. Len(reply_queue'[p]) \in Nat
                BY <4>1 DEF TypeOK
            <4> QED BY <3>1, <4>1, <4>2 DEF Paid, Backlog, TypeOK
        <3>3. 1..Len(reply_queue'[p]) = {}
            BY <3>2
        <3> QED BY <3>3 DEF Items
    <2> QED BY <2>1 DEF QueueClean
<1>13. HandClean(q)' /\ QueueClean(q)'
    BY <1>1, <1>4, <1>5, <1>7, HandKept, QueueKept
<1>14. ChanClean(q)'
    <2>1. CASE c \in Items(reply_queue[p]) /\ pc[p] = "REPLY"
        <3>1. c.type \in AnswerTypes /\ Right(q, c)
            BY <1>1, <2>1 DEF QueueClean, q
        <3>2. Right(q, m)
            BY <1>9, <3>1 DEF Right
        <3>3. m.type \in AnswerTypes /\ m.type \notin DataTypes /\ m.type # "COMPLETE_SIG"
            BY <1>9, <3>1, AnswersAreControl
        <3> SUFFICES ASSUME NEW x \in Items(chan'[q])
                     PROVE  /\ x.type \in DataTypes => Sent(q, x)'
                            /\ x.type \in AnswerTypes => Right(q, x)'
                            /\ x.type = "COMPLETE_SIG" => loop'[q] = "RECV"
            BY DEF ChanClean, Items
        <3>4. /\ x.type \in DataTypes => Sent(q, x)
              /\ x.type \in AnswerTypes => Right(q, x)
              /\ x.type = "COMPLETE_SIG" => loop[q] = "RECV"
            BY <1>1, <1>8, <3>2, <3>3 DEF ChanClean
        <3> QED BY <1>1, <1>5, <1>7, <3>4, SentKept, RightKept
    <2>2. CASE c.type = "COMPLETE_SIG" /\ pc[p] = "SEND"
        <3>1. loop[q] = "RECV"
            <4>1. InTurn
                BY <2>2, NotAlone DEF CanFail
            <4> QED BY <1>1, <2>2, <4>1
                    DEF InTurn, HandsOver, Talks, Asks, Heard, Leaves, Turn, Peers, q
        <3>2. m.type \notin AnswerTypes /\ m.type \notin DataTypes
            BY <1>9, <2>2, AnswersAreControl DEF DataTypes
        <3> SUFFICES ASSUME NEW x \in Items(chan'[q])
                     PROVE  /\ x.type \in DataTypes => Sent(q, x)'
                            /\ x.type \in AnswerTypes => Right(q, x)'
                            /\ x.type = "COMPLETE_SIG" => loop'[q] = "RECV"
            BY DEF ChanClean, Items
        <3>3. /\ x.type \in DataTypes => Sent(q, x)
              /\ x.type \in AnswerTypes => Right(q, x)
            BY <1>1, <1>8, <3>2 DEF ChanClean
        <3> QED BY <1>1, <1>5, <1>7, <3>1, <3>3, SentKept, RightKept
    <2> QED BY <1>10, <2>1, <2>2
<1> QED BY <1>1, <1>7, <1>11, <1>12, <1>13, <1>14 DEF AllTidy

LEMMA QuietClean ==
    ASSUME Perfect, NEW p \in Peers, ReceiveFails(p) \/ ProcessComplete(p)
    PROVE  AllTidy'
<1> DEFINE q == Other(p)
<1>1. /\ q \in Peers /\ q # p /\ TypeOK /\ PointFits(p) /\ Other(q) = p
      /\ \A r \in Peers : r = p \/ r = q
      /\ ChanClean(p) /\ HandClean(p) /\ QueueClean(p)
      /\ ChanClean(q) /\ HandClean(q) /\ QueueClean(q)
    BY TwoPeers, PerfectFacts
<1>2. sending[p].id = 0
    <2>1. CASE ReceiveFails(p)
        <3>1. ~Open(p) /\ pc[p] \in {"RECV", "AWAIT"}
            BY <2>1, PerfectFacts, FailsIfGone DEF ReceiveFails, Waiting
        <3>2. pc[p] # "AWAIT"
            BY <3>1, NotAlone DEF CanFail
        <3> QED BY <1>1, <3>1, <3>2 DEF PointFits
    <2>2. CASE ProcessComplete(p)
        <3>1. loop[p] = "RECV"
            BY <1>1, <2>2 DEF ProcessComplete, Processing, HandClean
        <3> QED BY <3>1, OtherIdle
    <2> QED BY <2>1, <2>2
<1>3. /\ UNCHANGED <<send_queue, recv_queue, store, chan, reply_queue>>
      /\ sending'[p].id = 0 /\ sending'[q] = sending[q]
      /\ pc'[q] = pc[q] /\ loop'[q] = loop[q] /\ received'[q] = received[q]
      /\ pc'[p] # "PROCESS"
    <2>1. ASSUME NoAnswer(p)
          PROVE  /\ send_queue' = send_queue /\ sending'[p].id = 0 /\ sending'[q] = sending[q]
                 /\ pc'[q] = pc[q] /\ pc'[p] # "PROCESS"
        BY <1>1, <1>2, <2>1 DEF NoAnswer, NoTask, TypeOK
    <2>2. CASE ReceiveFails(p)
        BY <1>1, <2>1, <2>2 DEF ReceiveFails, files
    <2>3. CASE ProcessComplete(p)
        BY <1>1, <1>2, <2>1, <2>3 DEF ProcessComplete, TypeOK, files
    <2> QED BY <2>2, <2>3
<1>4. loop'[p] = loop[p] \/ chan[p] = <<>>
    <2>1. CASE ReceiveFails(p)
        BY <2>1 DEF ReceiveFails
    <2>2. CASE ProcessComplete(p)
        BY <2>2, PerfectFacts, AnswersAreControl DEF ProcessComplete, Processing, InOrder
    <2> QED BY <2>1, <2>2
<1> HIDE DEF q
<1>5. \A r \in Peers : sending'[r].id = sending[r].id
    BY <1>1, <1>2, <1>3
<1>6. (\A t \in Tasks : Tidy(t)') /\ \A r \in Peers : SameFor(r)
    BY <1>3, <1>5, UnchangedTidy
<1>7. ChanClean(p)'
    <2>1. CASE chan[p] = <<>>
        BY <1>3, <2>1 DEF ChanClean, Items
    <2> QED BY <1>1, <1>3, <1>4, <1>6, <2>1, ChanKept DEF q
<1>8. HandClean(p)' /\ QueueClean(p)'
    BY <1>1, <1>3, <1>6, HandKept, QueueKept DEF q
<1>9. ChanClean(q)' /\ HandClean(q)' /\ QueueClean(q)'
    BY <1>1, <1>3, <1>6, ChanKept, HandKept, QueueKept
<1> QED BY <1>1, <1>6, <1>7, <1>8, <1>9 DEF AllTidy

LEMMA AddTaskClean ==
    ASSUME Perfect, NEW t \in Tasks, AddTask(t)
    PROVE  AllTidy'
<1>1. /\ TypeOK /\ \A u \in Tasks : Tidy(u) /\ Owner[u] \in Peers
      /\ send_queue[t].status = "NONE"
      /\ send_queue' = [send_queue EXCEPT ![t] = NewTask(t, "PENDING")]
    BY PerfectFacts, TasksAssumption DEF AddTask
<1>2. UNCHANGED <<recv_queue, reply_queue, store, chan, pc, loop, sending, received>>
    BY DEF AddTask, files
<1>3. ASSUME NEW p \in Peers PROVE sending[p].id # t
    <2>1. sending[p].id # 0 => send_queue[sending[p].id].status = "TRANSING"
        BY InExchange DEF Underway
    <2> QED BY <1>1, <2>1, TasksAssumption
<1>4. ASSUME NEW u \in Tasks, u # t PROVE Same(u)
    BY <1>1, <1>2, <1>4 DEF Same, TypeOK
<1>5. ASSUME NEW p \in Peers PROVE SameFor(p)
    <2>1. sending[p].id # 0 => sending[p].id \in Tasks
        BY <1>1 DEF TypeOK
    <2> QED BY <1>2, <1>3, <1>4, <2>1 DEF SameFor
<1>6. ASSUME NEW u \in Tasks PROVE Tidy(u)'
    <2>1. CASE u # t
        BY <1>1, <1>2, <1>4, <2>1, TidyKept
    <2>2. CASE u = t
        <3>1. /\ send_queue'[t].status = "PENDING" /\ send_queue'[t].current_position = -1
              /\ send_queue'[t].error_count = 0
            BY <1>1 DEF NewTask, TypeOK
        <3>2. sending'[Owner[t]].id # t
            BY <1>1, <1>2, <1>3
        <3>3. recv_queue'[t].status # "INCONSIST"
            BY <1>1, <1>2 DEF Tidy
        <3> QED BY <2>2, <3>1, <3>2, <3>3 DEF Tidy, Rest
    <2> QED BY <2>1, <2>2
<1>7. ASSUME NEW p \in Peers PROVE ChanClean(p)' /\ HandClean(p)' /\ QueueClean(p)'
    <2>1. ChanClean(p) /\ HandClean(p) /\ QueueClean(p) /\ SameFor(p) /\ SameFor(Other(p))
        BY <1>5, PerfectFacts, TwoPeers
    <2> QED BY <1>2, <2>1, ChanKept, HandKept, QueueKept
<1> QED BY <1>6, <1>7 DEF AllTidy
LEMMA SendTaskClean ==
    ASSUME Perfect, NEW p \in Peers, NEW t \in Tasks, SendUserTask(p, t)
    PROVE  AllTidy'
<1> DEFINE q == Other(p)
           task == Packed(t, send_queue[t])
<1>1. /\ q \in Peers /\ q # p /\ TypeOK /\ Other(q) = p
      /\ \A r \in Peers : r = p \/ r = q
      /\ PointFits(p) /\ Tidy(t) /\ TurnsInv /\ BacklogInv /\ faults = 0
    BY TwoPeers, PerfectFacts DEF Perfect
<1>2. PICK replies \in PendingReplies(p) :
        PicksTask(p, replies, t) /\ reply_queue' = [reply_queue EXCEPT ![p] = replies]
    BY DEF SendUserTask
<1>3. pc[p] = "SEND"
    BY <1>1, FreshFirst DEF SendUserTask, PointFits
<1>4. Talks(p) /\ Open(p) /\ sending[p].id = 0
    <2>1. InTurn /\ Open(p)
        BY <1>3, NotAlone DEF CanFail
    <2>2. Talks(p)
        BY <1>1, <1>3, <2>1 DEF InTurn, HandsOver, Talks, Asks, Heard, Leaves, Peers
    <2> QED BY <1>1, <1>3, <2>1, <2>2 DEF PointFits
<1>5. /\ chan[p] = <<>> /\ Items(chan[q]) = {} /\ sending[q].id = 0
      /\ pc[q] \notin {"PROCESS", "REPLY"}
    <2>1. loop[q] = "RECV" /\ OnlyOf(q, AnswerTypes)
        BY <1>4 DEF Talks, Turn
    <2>2. /\ sending[q].id = 0
          /\ \A x \in Items(chan[q]) : x.type \notin AnswerTypes
          /\ pc[q] = "PROCESS" => received[q].type \notin AnswerTypes
        BY <1>1, <2>1, OtherIdle
    <2>3. Items(chan[q]) = {}
        BY <2>1, <2>2 DEF OnlyOf, Only, Items
    <2> QED BY <1>4, <2>1, <2>2, <2>3 DEF Talks, OnlyOf
<1>6. /\ reply_queue' = reply_queue
      /\ Items(reply_queue[p]) = {} /\ Items(reply_queue[q]) = {}
    <2>1. replies = reply_queue[p]
        BY <1>1, <1>2, TaskAfterReplies
    <2>2. reply_queue' = reply_queue
        BY <1>1, <1>2, <2>1 DEF TypeOK
    <2> QED BY <1>1, <1>3, <1>5, <2>2, EmptyQueue
<1>7. /\ task \in SendTask /\ task.status = "TRANSING"
      /\ task.current_position = send_queue[t].current_position
      /\ task.error_count = send_queue[t].error_count
      /\ IsPart(t, send_queue[t]) => task.block_size > 0
    <2>1. send_queue[t] \in SendTask
        BY <1>1 DEF TypeOK
    <2>2. task.error_count = send_queue[t].error_count
        BY <2>1 DEF Packed, SendTask
    <2> QED BY <2>1, <2>2, PackedType
<1>8. PICK m \in Message : m = PackedMessage(t, task)
    BY <1>7, PackedMessageType DEF IsPart
<1>9. m.type \in DataTypes
    BY <1>8, TasksAssumption DEF PackedMessage, DataTypes, UserTypes
<1> HIDE DEF q, task
<1>10. /\ Owner[t] = p /\ send_queue[t].status \in {"PENDING", "STARTED", "TRANSING", "ERROR"}
       /\ Rest(t) /\ t # 0 /\ 0 \notin Tasks
    <2>1. Owner[t] = p /\ send_queue[t].status \in {"PENDING", "STARTED", "TRANSING", "ERROR"}
        BY <1>2 DEF PicksTask, Candidates
    <2> QED BY <1>1, <1>4, <2>1, TasksAssumption DEF Tidy
<1>11. IsPart(t, send_queue[t]) => /\ send_queue[t].current_position < FileSize[t]
                                   /\ Reached(t, send_queue[t].current_position)
    BY <1>10, TasksAssumption DEF Rest, IsPart
<1>12. /\ send_queue' = [send_queue EXCEPT ![t] = task]
       /\ sending'[p].id = t /\ sending'[q] = sending[q]
       /\ chan'[p] = chan[p] /\ Items(chan'[q]) \subseteq {m}
       /\ pc'[p] = "AWAIT" /\ pc'[q] = pc[q] /\ loop' = loop
       /\ recv_queue' = recv_queue /\ store' = store
    <2>1. /\ send_queue' = UpdateSend(t, task) /\ Transmit(p, m)
          /\ sending' = [sending EXCEPT ![p] = [id |-> t, nested |-> pc[p] = "REPLY", task |-> task]]
          /\ pc' = [pc EXCEPT ![p] = "AWAIT"] /\ loop' = loop
          /\ recv_queue' = recv_queue /\ store' = store
        BY <1>8 DEF SendUserTask, files, task
    <2>2. send_queue' = [send_queue EXCEPT ![t] = task]
        BY <1>10, <2>1 DEF UpdateSend, Absent
    <2>3. Items(chan'[q]) \subseteq {m}
        BY <1>1, <1>5, <2>1, TransmitItems DEF q
    <2>4. chan'[p] = chan[p]
        BY <1>1, <2>1 DEF Transmit, TypeOK, q
    <2> QED BY <1>1, <2>1, <2>2, <2>3, <2>4 DEF TypeOK
<1>13. send_queue'[t] = task /\ \A u \in Tasks : u # t => Same(u)
    BY <1>1, <1>12 DEF Same, TypeOK
<1>14. Tidy(t)'
    <2>1. Underway(t)'
        BY <1>7, <1>11, <1>13 DEF Underway, IsPart
    <2> QED BY <1>1, <1>7, <1>10, <1>12, <1>13, <2>1 DEF Tidy
<1>15. ASSUME NEW u \in Tasks, u # t PROVE Tidy(u)'
    <2>1. sending[Owner[u]].id # u /\ sending'[Owner[u]].id # u
        <3>1. Owner[u] \in Peers /\ u # 0
            BY TasksAssumption
        <3>2. Owner[u] = p \/ Owner[u] = q
            BY <1>1, <3>1
        <3> QED BY <1>4, <1>5, <1>12, <1>15, <3>1, <3>2
    <2> QED BY <1>13, <1>15, <2>1, TidyKept, PerfectFacts
<1>16. Sent(q, m)'
    <2>1. m = PackedMessage(t, send_queue'[t])
        BY <1>8, <1>13
    <2>2. IsPart(t, send_queue[t])' => Reached(t, send_queue[t].current_position)'
        BY <1>7, <1>11, <1>12, <1>13 DEF IsPart, Reached
    <2> QED BY <1>1, <1>10, <1>12, <2>1, <2>2 DEF Sent, PackedMessage, IsPart
<1>17. ChanClean(p)' /\ HandClean(p)' /\ QueueClean(p)'
    <2>1. Items(chan'[p]) = {} /\ Items(reply_queue'[p]) = {}
        <3>1. Items(<<>>) = {}
            BY DEF Items
        <3> QED BY <1>5, <1>6, <1>12, <3>1
    <2> QED BY <1>12, <2>1 DEF ChanClean, HandClean, QueueClean
<1>18. ChanClean(q)' /\ HandClean(q)' /\ QueueClean(q)'
    <2>1. m.type \notin AnswerTypes /\ m.type # "COMPLETE_SIG"
        BY <1>9, AnswersAreControl
    <2>2. ChanClean(q)'
        <3>1. \A x \in Items(chan'[q]) : x = m
            BY <1>12
        <3> QED BY <1>16, <2>1, <3>1 DEF ChanClean
    <2> QED BY <1>5, <1>6, <1>12, <2>2 DEF HandClean, QueueClean
<1> QED BY <1>1, <1>14, <1>15, <1>17, <1>18 DEF AllTidy
\* What unpack_data makes of the message that was sent last.
LEMMA UnpackedRight ==
    ASSUME TypeOK, NEW t \in Tasks, Underway(t), NEW m \in Message,
           m = PackedMessage(t, send_queue[t]), m.type \in DataTypes,
           IsPart(t, send_queue[t]) => Reached(t, send_queue[t].current_position),
           recv_queue'[t] = Unpacked(m), store'[t] = Written(m, m.len),
           send_queue' = send_queue
    PROVE  /\ recv_queue'[t].status # "INCONSIST"
           /\ IF recv_queue'[t].status = "COMPLETED"
              THEN Kind[t] = "MESSAGE" \/ store'[t] = FileSize[t]
              ELSE GoesOn(t)'
<1> DEFINE task == send_queue[t]
           c == task.current_position
<1>1. /\ task \in SendTask /\ FileSize[t] \in Nat /\ Kind[t] \in UserTypes
      /\ c \in Int /\ task.block_size \in Int /\ store[t] \in Int
    BY TasksAssumption DEF TypeOK, SendTask, Position
<1>2. m.id = t
    BY DEF PackedMessage
<1>3. CASE IsPart(t, task)
    <2> DEFINE len == Lesser(task.block_size, FileSize[t] - c)
    <2>1. /\ m.type = "LARGE_FILE_PART" /\ m.pos = c /\ m.len = len
          /\ Kind[t] = "LARGE_FILE" /\ c >= 0 /\ c < FileSize[t] /\ task.block_size > 0
          /\ recv_queue[t].current_position = c /\ (c > 0 => store[t] = c)
        BY <1>3 DEF PackedMessage, IsPart, Underway, Reached
    <2>2. /\ len > 0 /\ len \in Int /\ (c + len >= FileSize[t] => c + len = FileSize[t])
          /\ c + len < FileSize[t] => len = task.block_size
        BY <1>1, <2>1 DEF Lesser
    <2> HIDE DEF len, c
    <2>3. /\ recv_queue'[t].status = IF c + len >= FileSize[t] THEN "COMPLETED" ELSE "TRANSING"
          /\ recv_queue'[t].current_position = c + len
        BY <1>2, <2>1 DEF Unpacked
    <2>4. store'[t] = c + len
        <3>1. store'[t] = IF c = 0 THEN len
                          ELSE IF len = 0 THEN store[t]
                          ELSE IF store[t] = c THEN c + len ELSE Corrupt
            BY <1>2, <2>1 DEF Written
        <3> QED BY <1>1, <2>1, <2>2, <3>1 DEF c
    <2>5. CASE c + len >= FileSize[t]
        BY <2>2, <2>3, <2>4, <2>5
    <2>6. CASE ~(c + len >= FileSize[t])
        <3>1. c + task.block_size < FileSize[t] /\ len = task.block_size
            BY <1>1, <2>2, <2>6 DEF c
        <3>2. GoesOn(t)'
            BY <1>1, <2>1, <2>3, <2>4, <3>1 DEF GoesOn, Reached, c
        <3> QED BY <2>3, <2>6, <3>2
    <2> QED BY <2>5, <2>6
<1>4. CASE ~IsPart(t, task)
    <2>1. m.type = IF Kind[t] = "LARGE_FILE" THEN "LARGE_FILE_BEGIN" ELSE Kind[t]
        BY <1>4 DEF PackedMessage
    <2>2. CASE Kind[t] = "SMALL_FILE"
        <3>1. recv_queue'[t].status = "COMPLETED" /\ store'[t] = FileSize[t]
            BY <1>2, <2>1, <2>2 DEF Unpacked, Written
        <3> QED BY <3>1
    <2>3. CASE Kind[t] = "MESSAGE"
        <3>1. recv_queue'[t].status = "COMPLETED"
            BY <1>2, <2>1, <2>3 DEF Unpacked
        <3> QED BY <2>3, <3>1
    <2>4. CASE Kind[t] = "LARGE_FILE"
        <3>1. recv_queue'[t].status = "STARTED" /\ recv_queue'[t].current_position = 0
            BY <1>2, <2>1, <2>4 DEF Unpacked
        <3>2. c < 0
            BY <1>1, <1>4, <2>4 DEF IsPart
        <3>3. GoesOn(t)'
            BY <2>4, <3>1, <3>2 DEF GoesOn, Reached
        <3> QED BY <3>1, <3>3
    <2> QED BY <1>1, <2>2, <2>3, <2>4 DEF UserTypes
<1> QED BY <1>3, <1>4

\* While the receiver works on a task, there is nothing else anywhere.
LEMMA Alone ==
    ASSUME Perfect, NEW p \in Peers, pc[p] \in {"RECV", "PROCESS"}, loop[p] = "RECV",
           sending[Other(p)].id # 0, chan[p] # <<>> \/ pc[p] = "PROCESS"
    PROVE  /\ Asks(Other(p)) /\ pc[Other(p)] = "AWAIT" /\ sending[p].id = 0
           /\ Items(chan[Other(p)]) = {}
           /\ Items(reply_queue[p]) = {} /\ Items(reply_queue[Other(p)]) = {}
<1> DEFINE q == Other(p)
<1>1. q \in Peers /\ Other(q) = p /\ BacklogInv /\ faults = 0
    BY TwoPeers, PerfectFacts DEF Perfect
<1>2. Asks(q) \/ Heard(q)
    BY <1>1, InExchange
<1>3. Asks(q)
    BY <1>1, <1>2 DEF Heard
<1>4. pc[q] = "AWAIT" /\ chan[q] = <<>>
    BY <1>1, <1>3, InExchange DEF Asks
<1>5. Items(<<>>) = {}
    BY DEF Items
<1> QED BY <1>1, <1>3, <1>4, <1>5, EmptyQueue, OtherIdle

LEMMA ReceiveControlClean ==
    ASSUME Perfect, NEW p \in Peers, Receive(p), Head(chan[p]).type \in ControlTypes
    PROVE  AllTidy'
<1> DEFINE q == Other(p)
           m == Head(chan[p])
<1>1. /\ q \in Peers /\ q # p /\ TypeOK /\ Other(q) = p
      /\ \A r \in Peers : r = p \/ r = q
      /\ ChanClean(p) /\ QueueClean(p) /\ ChanClean(q) /\ HandClean(q) /\ QueueClean(q)
    BY TwoPeers, PerfectFacts
<1>2. /\ received' = [received EXCEPT ![p] =
                    [type |-> m.type, id |-> m.id, status |-> "COMPLETED", pos |-> m.pos]]
      /\ UNCHANGED <<send_queue, recv_queue, store, reply_queue, loop, sending>>
      /\ chan' = [chan EXCEPT ![p] = Tail(@)] /\ pc' = [pc EXCEPT ![p] = "PROCESS"]
      /\ chan[p] # <<>>
    BY DEF Receive
<1>3. (\A t \in Tasks : Tidy(t)') /\ \A r \in Peers : SameFor(r)
    BY <1>2, UnchangedTidy
<1>4. m \in Items(chan[p]) /\ Items(chan'[p]) \subseteq Items(chan[p])
    BY <1>1, <1>2, ItemsKept DEF TypeOK
<1>5. /\ received'[p].type = m.type /\ received'[p].id = m.id /\ received'[q] = received[q]
      /\ chan'[q] = chan[q] /\ pc'[q] = pc[q]
    BY <1>1, <1>2 DEF TypeOK
<1>6. ChanClean(p)' /\ QueueClean(p)'
    BY <1>1, <1>2, <1>3, <1>4, ChanKept, QueueKept
<1>7. HandClean(p)'
    <2>1. /\ m.type \notin UserTypes
          /\ m.type \in AnswerTypes => Right(p, m)
          /\ m.type = "COMPLETE_SIG" => loop[p] = "RECV"
        BY <1>1, <1>4, AnswersAreControl DEF ChanClean
    <2>2. PICK r : r = received'[p]
        OBVIOUS
    <2>3. r.type \in AnswerTypes => Right(p, r)
        BY <1>5, <2>1, <2>2 DEF Right
    <2>4. r.type \in AnswerTypes => Right(p, r)'
        BY <1>3, <2>3, RightKept
    <2> QED BY <1>2, <1>5, <2>1, <2>2, <2>4 DEF HandClean
<1>8. ChanClean(q)' /\ HandClean(q)' /\ QueueClean(q)'
    BY <1>1, <1>2, <1>3, <1>5, ChanKept, HandKept, QueueKept
<1> QED BY <1>1, <1>3, <1>6, <1>7, <1>8 DEF AllTidy

LEMMA ReceiveDataClean ==
    ASSUME Perfect, NEW p \in Peers, Receive(p), Head(chan[p]).type \notin ControlTypes
    PROVE  AllTidy'
<1> DEFINE q == Other(p)
<1>1. /\ q \in Peers /\ q # p /\ TypeOK /\ Other(q) = p
      /\ \A r \in Peers : r = p \/ r = q
      /\ ChanClean(p) /\ InOrder(p) /\ PointFits(p)
    BY TwoPeers, PerfectFacts
<1>2. chan[p] # <<>> /\ pc[p] \in {"RECV", "AWAIT"} /\ chan[p] \in Seq(Message)
    BY <1>1 DEF Receive, Waiting, TypeOK
<1>3. PICK m \in Message : m = Head(chan[p]) /\ m \in Items(chan[p])
    BY <1>2, CutShortInSeq, ItemsKept
<1>4. m.type \in DataTypes
    BY <1>3 DEF Message
<1>5. /\ received' = [received EXCEPT ![p] =
                    [type |-> UserType(m), id |-> m.id, status |-> Unpacked(m).status,
                     pos |-> Unpacked(m).current_position]]
      /\ recv_queue' = [recv_queue EXCEPT ![m.id] = Unpacked(m)]
      /\ store' = [store EXCEPT ![m.id] = Written(m, m.len)]
      /\ chan' = [chan EXCEPT ![p] = Tail(@)] /\ pc' = [pc EXCEPT ![p] = "PROCESS"]
      /\ UNCHANGED <<send_queue, reply_queue, loop, sending>>
    BY <1>3 DEF Receive
<1>6. Sent(p, m)
    BY <1>1, <1>3, <1>4 DEF ChanClean
<1>7. PICK t : t = sending[q].id
    OBVIOUS
<1>8. /\ t # 0 /\ m = PackedMessage(t, send_queue[t]) /\ m.id = t
      /\ IsPart(t, send_queue[t]) => Reached(t, send_queue[t].current_position)
    BY <1>6, <1>7 DEF Sent, PackedMessage
<1>9. t \in Tasks /\ Owner[t] = q /\ Underway(t) /\ loop[p] = "RECV"
    BY <1>1, <1>8, <1>7, InExchange
<1>10. pc[p] = "RECV"
    BY <1>1, <1>2, <1>9 DEF PointFits
<1>11. /\ pc[q] = "AWAIT" /\ sending[p].id = 0
       /\ Items(chan[q]) = {} /\ Items(reply_queue[p]) = {} /\ Items(reply_queue[q]) = {}
    BY <1>2, <1>8, <1>9, <1>10, <1>7, Alone
<1>12. Items(chan'[p]) = {} /\ chan'[q] = chan[q] /\ pc'[p] = "PROCESS" /\ pc'[q] = pc[q]
    <2>1. Tail(chan[p]) = <<>>
        BY <1>1, <1>2, <1>3, <1>4, TailOrder, AnswersAreControl DEF InOrder
    <2>2. Items(<<>>) = {}
        BY DEF Items
    <2> QED BY <1>1, <1>5, <2>1, <2>2 DEF TypeOK
<1> HIDE DEF q
<1>13. recv_queue'[t] = Unpacked(m) /\ store'[t] = Written(m, m.len) /\ send_queue' = send_queue
    BY <1>1, <1>5, <1>8, <1>9 DEF TypeOK
<1>14. /\ recv_queue'[t].status # "INCONSIST"
       /\ IF recv_queue'[t].status = "COMPLETED"
          THEN Kind[t] = "MESSAGE" \/ store'[t] = FileSize[t]
          ELSE GoesOn(t)'
    BY <1>1, <1>4, <1>8, <1>9, <1>13, UnpackedRight
<1>15. ASSUME NEW u \in Tasks PROVE Tidy(u)'
    <2>1. Tidy(u)
        BY PerfectFacts
    <2>2. CASE u = t
        BY <1>5, <1>8, <1>9, <1>14, <1>7, <2>1, <2>2 DEF Tidy, Underway
    <2>3. CASE u # t
        <3>1. Same(u)
            BY <1>1, <1>5, <1>8, <2>3 DEF Same, TypeOK
        <3> QED BY <1>5, <2>1, <3>1, TidyKept
    <2> QED BY <2>2, <2>3
<1>16. HandClean(p)'
    <2>1. PICK r : r = received'[p]
        OBVIOUS
    <2>2. /\ r.type = UserType(m) /\ r.id = t /\ r.status = Unpacked(m).status
        BY <1>1, <1>5, <1>8, <2>1 DEF TypeOK
    <2>3. UserType(m) \in UserTypes
        BY <1>4 DEF UserType, DataTypes, UserTypes
    <2>4. Arrived(p, r)'
        <3>1. sending'[Other(p)].id = t
            BY <1>5, <1>7 DEF q
        <3>2. r.status = recv_queue'[t].status
            BY <1>13, <2>2
        <3> QED BY <1>8, <1>14, <2>2, <3>1, <3>2 DEF Arrived
    <2>5. r.type \notin AnswerTypes /\ r.type # "COMPLETE_SIG"
        BY <2>2, <2>3, AnswersAreControl
    <2> QED BY <2>1, <2>4, <2>5 DEF HandClean
<1>17. ChanClean(p)' /\ QueueClean(p)'
    BY <1>5, <1>11, <1>12 DEF ChanClean, QueueClean
<1>18. ChanClean(q)' /\ HandClean(q)' /\ QueueClean(q)'
    BY <1>5, <1>11, <1>12 DEF ChanClean, HandClean, QueueClean
<1> QED BY <1>1, <1>15, <1>16, <1>17, <1>18 DEF AllTidy
LEMMA UserTaskClean ==
    ASSUME Perfect, NEW p \in Peers,
           CheckFile(p) \/ ReportPosition(p) \/ AckPart(p) \/ ProcessMessage(p)
    PROVE  AllTidy'
<1> DEFINE q == Other(p)
<1>1. /\ q \in Peers /\ q # p /\ TypeOK /\ Other(q) = p /\ AnswersInv
      /\ \A r \in Peers : r = p \/ r = q
      /\ HandClean(p) /\ InOrder(p)
    BY TwoPeers, PerfectFacts
<1>2. /\ pc[p] = "PROCESS" /\ received[p].type \in UserTypes
      /\ Processing(p, UserTypes)
    BY DEF CheckFile, ReportPosition, AckPart, ProcessMessage, Processing, FileTypes, UserTypes
<1>3. PICK t : t = sending[q].id
    OBVIOUS
<1>4. /\ Arrived(p, received[p]) /\ t # 0
      /\ received[p].id = t /\ received[p].status = recv_queue[t].status
    BY <1>1, <1>2, <1>3 DEF HandClean, Arrived
<1>5. t \in Tasks /\ Owner[t] = q /\ Underway(t) /\ loop[p] = "RECV" /\ Tidy(t)
    BY <1>1, <1>3, <1>4, InExchange, PerfectFacts
<1>6. /\ pc[q] = "AWAIT" /\ Items(chan[q]) = {}
      /\ Items(reply_queue[p]) = {} /\ Items(reply_queue[q]) = {}
    BY <1>2, <1>3, <1>4, <1>5, Alone
<1>7. Items(chan[p]) = {}
    <2>1. chan[p] = <<>>
        BY <1>1, <1>2, AnswersAreControl DEF InOrder
    <2> QED BY <2>1 DEF Items
<1>8. Kind[t] = received[p].type
    BY <1>1, <1>2, <1>4, ProcessingGood
<1>9. /\ UNCHANGED <<send_queue, store, chan, loop, sending>>
      /\ pc'[p] = "REPLY" /\ pc'[q] = pc[q]
    BY <1>1 DEF CheckFile, ReportPosition, AckPart, ProcessMessage, ThenReply, TypeOK, files
<1>10. PICK type \in AnswerTypes :
        /\ AddReply(p, type, t, 0)
        /\ \A u \in Tasks \ {t} : recv_queue'[u] = recv_queue[u]
        /\ recv_queue'[t].status # "INCONSIST"
        /\ \/ type = "CHECK_PASS"
           \/ type = "REPLY" /\ (Kind[t] = "MESSAGE" \/ GoesOn(t)')
    <2>1. CASE CheckFile(p)
        <3>1. CheckPassed(p)
            BY <1>4, <1>8, <2>1 DEF CheckFile, CheckPassed, Processing, FileTypes, Arrived
        <3>2. /\ AddReply(p, "CHECK_PASS", t, 0)
              /\ recv_queue' = UpdateRecv(t, "CHECKED", received[p].pos)
            BY <1>4, <2>1, <3>1 DEF CheckFile
        <3>3. /\ \A u \in Tasks \ {t} : recv_queue'[u] = recv_queue[u]
              /\ recv_queue'[t].status # "INCONSIST"
            <4>1. recv_queue \in [Tasks -> RecvTask]
                BY <1>1 DEF TypeOK
            <4>2. CASE recv_queue[t].status = "NONE"
                BY <3>2, <4>2 DEF UpdateRecv
            <4>3. CASE recv_queue[t].status # "NONE"
                BY <1>5, <3>2, <4>1, <4>3 DEF UpdateRecv
            <4> QED BY <4>2, <4>3
        <3>4. "CHECK_PASS" \in AnswerTypes
            BY DEF AnswerTypes, ControlTypes
        <3> QED BY <3>2, <3>3, <3>4
    <2>2. CASE AckPart(p)
        <3>1. AddReply(p, "REPLY", t, 0) /\ recv_queue' = recv_queue
            BY <1>4, <2>2 DEF AckPart
        <3>2. GoesOn(t)
            BY <1>3, <1>4, <2>2 DEF AckPart, Arrived
        <3>3. GoesOn(t)'
            BY <1>9, <3>1, <3>2 DEF GoesOn, Reached
        <3> QED BY <1>5, <3>1, <3>3 DEF AnswerTypes, ControlTypes, Tidy
    <2>3. CASE ProcessMessage(p)
        <3>1. /\ AddReply(p, "REPLY", t, 0) /\ recv_queue' = recv_queue
              /\ Kind[t] = "MESSAGE"
            BY <1>4, <1>8, <2>3 DEF ProcessMessage, Processing
        <3> QED BY <1>5, <3>1 DEF AnswerTypes, ControlTypes, Tidy
    <2>4. CASE ReportPosition(p)
        BY <1>4, <1>5, <2>4 DEF ReportPosition, Tidy
    <2> QED BY <2>1, <2>2, <2>3, <2>4
<1> HIDE DEF q
<1>11. PICK c : c = NewControl(p, type, t, 0)
    OBVIOUS
<1>12. /\ Items(reply_queue'[p]) \subseteq {c} /\ reply_queue'[q] = reply_queue[q]
       /\ c.type = type /\ c.id = t
    <2>1. reply_queue' = [reply_queue EXCEPT ![p] = Append(@, c)]
        BY <1>10, <1>11 DEF AddReply
    <2>2. c.type = type /\ c.id = t
        BY <1>11 DEF NewControl
    <2>3. reply_queue[p] = <<>>
        <3>1. pc[p] # "REPLY"
            BY <1>2
        <3> QED BY <3>1, EmptyQueue, PerfectFacts DEF Perfect
    <2>4. reply_queue'[p] = Append(<<>>, c) /\ reply_queue'[q] = reply_queue[q]
        BY <1>1, <2>1, <2>3 DEF TypeOK
    <2>5. Append(<<>>, c) = <<c>>
        OBVIOUS
    <2>6. Items(<<c>>) = {c}
        BY DEF Items
    <2> QED BY <2>2, <2>4, <2>5, <2>6
<1>13. ASSUME NEW u \in Tasks PROVE Tidy(u)'
    <2>1. Tidy(u)
        BY PerfectFacts
    <2>2. CASE u = t
        BY <1>3, <1>4, <1>5, <1>9, <1>10, <2>1, <2>2 DEF Tidy, Underway
    <2>3. CASE u # t
        <3>1. Same(u)
            BY <1>9, <1>10, <2>3 DEF Same
        <3> QED BY <1>9, <2>1, <3>1, TidyKept
    <2> QED BY <2>2, <2>3
<1>14. QueueClean(p)'
    <2>1. Right(q, c)'
        <3>1. sending'[q].id = t
            BY <1>3, <1>9
        <3> QED BY <1>4, <1>10, <1>12, <3>1 DEF Right
    <2>2. c.type \in AnswerTypes
        BY <1>12
    <2>3. \A x \in Items(reply_queue'[p]) : x = c
        BY <1>12
    <2> QED BY <2>1, <2>2, <2>3 DEF QueueClean, q
<1>15. ChanClean(p)' /\ HandClean(p)'
    BY <1>7, <1>9 DEF ChanClean, HandClean
<1>16. ChanClean(q)' /\ HandClean(q)' /\ QueueClean(q)'
    BY <1>6, <1>9, <1>12 DEF ChanClean, HandClean, QueueClean
<1> QED BY <1>1, <1>13, <1>14, <1>15, <1>16 DEF AllTidy

LEMMA ProcessAnswerClean ==
    ASSUME Perfect, NEW p \in Peers, ProcessAnswer(p)
    PROVE  AllTidy'
<1> DEFINE q == Other(p)
<1>1. /\ q \in Peers /\ q # p /\ TypeOK /\ Other(q) = p /\ BacklogInv /\ faults = 0
      /\ \A r \in Peers : r = p \/ r = q
      /\ HandClean(p)
    BY TwoPeers, PerfectFacts DEF Perfect
<1>2. pc[p] = "PROCESS" /\ received[p].type \in AnswerTypes
    BY DEF ProcessAnswer, Processing
<1>3. PICK t : t = sending[p].id
    OBVIOUS
<1>4. /\ t # 0 /\ received[p].id = t
      /\ \/ received[p].type = "CHECK_PASS"
         \/ received[p].type = "REPLY" /\ (Kind[t] = "MESSAGE" \/ GoesOn(t))
    BY <1>1, <1>2, <1>3 DEF HandClean, Right
<1>5. t \in Tasks /\ Owner[t] = p /\ Underway(t) /\ Tidy(t) /\ Heard(p)
    BY <1>1, <1>2, <1>3, <1>4, InExchange, PerfectFacts DEF Asks
<1>6. /\ Items(chan[p]) = {} /\ Items(chan[q]) = {} /\ pc[q] \in {"RECV", "CLOSE"}
      /\ sending[q].id = 0
    <2>1. chan[p] = <<>> /\ chan[q] = <<>> /\ pc[q] \in {"RECV", "CLOSE"} /\ loop[q] = "RECV"
        BY <1>2, <1>5 DEF Heard, Turn
    <2>2. Items(<<>>) = {}
        BY DEF Items
    <2> QED BY <1>1, <2>1, <2>2, OtherIdle
<1>7. Items(reply_queue[p]) = {} /\ Items(reply_queue[q]) = {}
    BY <1>1, <1>2, <1>6, EmptyQueue
<1> DEFINE task == send_queue[t]
<1>8. task \in SendTask /\ task.status = "TRANSING" /\ FileSize[t] \in Nat
      /\ (Kind[t] = "LARGE_FILE" => FileSize[t] > 0)
    BY <1>1, <1>5, TasksAssumption DEF Underway, TypeOK
<1>9. /\ send_queue' = UpdateSend(t,
            CASE received[p].type = "LASTPOS" ->
                    [task EXCEPT !.current_position = received[p].pos,
                                 !.error_count = Lesser(@ + 1, MaxErrorCount + 1),
                                 !.status = "PENDING"]
              [] received[p].type = "CHECK_PASS" -> [task EXCEPT !.status = "CHECKED"]
              [] received[p].type = "CHECK_FAILED" ->
                    [task EXCEPT !.current_position = 0, !.status = "PENDING"]
              [] received[p].type = "REPLY" -> Success(t, task))
      /\ pc' = [pc EXCEPT ![p] = loop[p]]
      /\ sending' = [sending EXCEPT ![p] = NoTask]
      /\ UNCHANGED <<recv_queue, reply_queue, store, chan, loop>>
    BY <1>4 DEF ProcessAnswer, files
<1>10. send_queue' = [send_queue EXCEPT ![t] =
                        IF received[p].type = "CHECK_PASS"
                        THEN [task EXCEPT !.status = "CHECKED"] ELSE Success(t, task)]
    <2>1. send_queue[t].status \notin Absent
        BY <1>8 DEF Absent
    <2>2. CASE received[p].type = "CHECK_PASS"
        BY <1>9, <2>1, <2>2 DEF UpdateSend
    <2>3. CASE received[p].type = "REPLY"
        BY <1>9, <2>1, <2>3 DEF UpdateSend
    <2> QED BY <1>4, <2>2, <2>3
<1>11. /\ \A u \in Tasks : u # t => Same(u)
       /\ sending'[p].id = 0 /\ sending'[q] = sending[q]
       /\ pc'[p] # "PROCESS" /\ pc'[q] = pc[q]
    BY <1>1, <1>9, <1>10 DEF Same, NoTask, TypeOK
<1> HIDE DEF q
<1>12. Rest(t)' /\ send_queue'[t].error_count = 0
    <2>1. task.error_count = 0
        BY <1>5 DEF Tidy
    <2>2. CASE received[p].type = "CHECK_PASS"
        <3>1. send_queue'[t] = [task EXCEPT !.status = "CHECKED"]
            BY <1>1, <1>5, <1>10, <2>2 DEF TypeOK
        <3>2. send_queue'[t].status = "CHECKED" /\ send_queue'[t].error_count = task.error_count
            BY <1>8, <3>1 DEF SendTask
        <3> QED BY <2>1, <3>2 DEF Rest
    <2>3. CASE received[p].type = "REPLY"
        <3>1. send_queue'[t] = Success(t, task)
            BY <1>1, <1>5, <1>10, <2>3 DEF TypeOK
        <3>2. Success(t, task).error_count = task.error_count
            BY <1>8 DEF Success, SendTask
        <3>3. CASE Kind[t] = "MESSAGE"
            <4>1. send_queue'[t].status = "COMPLETED"
                BY <1>8, <3>1, <3>3 DEF Success, SendTask
            <4> QED BY <2>1, <3>1, <3>2, <3>3, <4>1 DEF Rest
        <3>4. CASE GoesOn(t)
            <4> DEFINE pos == IF task.current_position < 0 THEN 0
                              ELSE task.current_position + task.block_size
            <4>1. /\ Kind[t] = "LARGE_FILE" /\ Reached(t, pos)
                  /\ task.current_position >= 0 => pos < FileSize[t]
                BY <1>8, <3>4 DEF GoesOn, SendTask, Position
            <4>2. task.current_position >= 0 =>
                    task.block_size > 0 /\ task.current_position < FileSize[t]
                BY <1>5, <4>1 DEF Underway, IsPart
            <4>3. pos \in 0..FileSize[t] - 1
                BY <1>8, <4>1, <4>2 DEF SendTask, Position
            <4>4. /\ Success(t, task).status = "STARTED"
                  /\ Success(t, task).current_position = pos
                BY <1>8, <4>1, <4>2 DEF Success, SendTask, Position
            <4> HIDE DEF pos
            <4>5. send_queue'[t].status = "STARTED" /\ send_queue'[t].current_position = pos
                BY <3>1, <4>4
            <4>6. Reached(t, send_queue[t].current_position)'
                BY <1>9, <4>1, <4>5 DEF Reached
            <4>7. Rest(t)'
                BY <4>1, <4>3, <4>5, <4>6 DEF Rest
            <4> QED BY <2>1, <3>1, <3>2, <4>7
        <3> QED BY <1>4, <2>3, <3>3, <3>4
    <2> QED BY <1>4, <2>2, <2>3
<1>13. ASSUME NEW u \in Tasks PROVE Tidy(u)'
    <2>1. Tidy(u) /\ Owner[u] \in Peers /\ u # 0
        BY PerfectFacts, TasksAssumption
    <2>2. CASE u = t
        BY <1>4, <1>5, <1>9, <1>11, <1>12, <2>1, <2>2 DEF Tidy
    <2>3. CASE u # t
        <3>1. sending[Owner[u]].id # u /\ sending'[Owner[u]].id # u
            BY <1>1, <1>3, <1>6, <1>11, <2>1, <2>3
        <3> QED BY <1>11, <2>1, <2>3, <3>1, TidyKept
    <2> QED BY <2>2, <2>3
<1>14. ChanClean(p)' /\ HandClean(p)' /\ QueueClean(p)'
    BY <1>6, <1>7, <1>9, <1>11 DEF ChanClean, HandClean, QueueClean
<1>15. ChanClean(q)' /\ HandClean(q)' /\ QueueClean(q)'
    BY <1>6, <1>7, <1>9, <1>11 DEF ChanClean, HandClean, QueueClean
<1> QED BY <1>1, <1>13, <1>14, <1>15 DEF AllTidy
-----------------------------------------------------------------------------
(* The theorem                                                             *)

LEMMA CleanInit == OrderlyUse /\ Init => CleanInv
<1> SUFFICES ASSUME OrderlyUse, Init
             PROVE  CleanInv
    OBVIOUS
<1>1. BacklogInv /\ EntriesInv
    BY BacklogInit, EntriesInit
<1>2. Items(<<>>) = {}
    BY DEF Items
<1>3. ASSUME NEW p \in Peers PROVE ChanClean(p) /\ HandClean(p) /\ QueueClean(p)
    BY <1>2 DEF Init, ChanClean, HandClean, QueueClean
<1>4. ASSUME NEW t \in Tasks PROVE Tidy(t)
    <2>1. /\ send_queue[t].status = "NONE" /\ send_queue[t].current_position = -1
          /\ send_queue[t].error_count = 0 /\ recv_queue[t].status = "NONE"
        BY DEF Init, NewTask
    <2>2. sending[Owner[t]].id # t
        BY TasksAssumption DEF Init, NoTask
    <2> QED BY <2>1, <2>2 DEF Tidy, Rest
<1> QED BY <1>1, <1>3, <1>4 DEF CleanInv, AllTidy

LEMMA CleanNext == OrderlyUse /\ CleanInv /\ [Next]_vars => CleanInv'
<1> SUFFICES ASSUME OrderlyUse, CleanInv, [Next]_vars
             PROVE  CleanInv'
    OBVIOUS
<1>1. BacklogInv' /\ EntriesInv'
    BY BacklogNext, EntriesNext DEF CleanInv
<1>2. faults \in Nat /\ faults' \in Nat
    BY <1>1, BacklogNat, TypeNext, ConfigAssumption
       DEF CleanInv, BacklogInv, TurnsInv, AnswersInv, TypeOK
<1> SUFFICES ASSUME faults' = 0
             PROVE  AllTidy'
    BY <1>1 DEF CleanInv
<1>3. CASE UNCHANGED vars
    <2>1. faults = 0
        BY <1>3 DEF vars
    <2>2. Perfect
        BY <2>1 DEF Perfect
    <2>3. (\A t \in Tasks : Tidy(t)') /\ \A p \in Peers : SameFor(p)
        BY <1>3, <2>2, UnchangedTidy DEF vars, queues, files
    <2>4. ASSUME NEW p \in Peers PROVE ChanClean(p)' /\ HandClean(p)' /\ QueueClean(p)'
        <3>1. /\ ChanClean(p) /\ HandClean(p) /\ QueueClean(p)
              /\ SameFor(p) /\ SameFor(Other(p))
            BY <2>2, <2>3, PerfectFacts, TwoPeers
        <3> QED BY <1>3, <3>1, ChanKept, HandKept, QueueKept DEF vars, queues
    <2> QED BY <2>3, <2>4 DEF AllTidy
<1>4. CASE Next
    <2>1. faults = 0 /\ ~Fault
        <3>1. ASSUME NEW p \in Peers, PeerStep(p) PROVE faults' = faults
            BY <3>1 DEF PeerStep, CloseConn, SendReply, SendReplyFails, SendUserTask,
                SendUserTaskFails, Receive, ReceiveFails, CheckFile, ReportPosition, AckPart,
                ProcessMessage, ProcessAnswer, ProcessComplete, NullDereference
        <3>2. ASSUME Fault PROVE faults' = faults + 1
            BY <3>2 DEF Fault, Cut, ReceiveTimesOut, Crash, CrashWhileUnpacking,
                CrashBeforeExtension, PackFails, CrashWhileAdding
        <3>3. ASSUME User \/ Connect PROVE faults' = faults
            BY <3>3 DEF User, AddTask, DeleteSend, DeleteReceive, DeleteAllSend, Connect
        <3> QED BY <1>2, <1>4, <3>1, <3>2, <3>3 DEF Next
    <2>2. Perfect /\ AnswersInv
        BY <2>1, PerfectFacts DEF Perfect
    <2>3. ASSUME NEW p \in Peers, PeerStep(p) PROVE AllTidy'
        <3>1. ~NullDereference(p)
            BY <2>2, NoNull DEF OrderlyUse
        <3>2. ~SendReplyFails(p) /\ \A t \in Tasks : ~SendUserTaskFails(p, t)
            <4>1. pc[p] \in {"SEND", "REPLY"} => Open(p)
                BY <2>2, NotAlone DEF CanFail
            <4> QED BY <4>1 DEF SendReplyFails, SendUserTaskFails
        <3>3. CASE CloseConn(p)
            BY <2>2, <3>3, LinkClean
        <3>4. CASE SendReply(p)
            BY <1>1, <2>2, <3>4, SendReplyClean
        <3>5. CASE \E t \in Tasks : SendUserTask(p, t)
            BY <2>2, <3>5, SendTaskClean
        <3>6. CASE Receive(p)
            BY <2>2, <3>6, ReceiveControlClean, ReceiveDataClean
        <3>7. CASE CheckFile(p) \/ ReportPosition(p) \/ AckPart(p) \/ ProcessMessage(p)
            BY <2>2, <3>7, UserTaskClean
        <3>8. CASE ProcessAnswer(p)
            BY <2>2, <3>8, ProcessAnswerClean
        <3>9. CASE ReceiveFails(p) \/ ProcessComplete(p)
            BY <2>2, <3>9, QuietClean
        <3> QED BY <2>3, <3>1, <3>2, <3>3, <3>4, <3>5, <3>6, <3>7, <3>8, <3>9 DEF PeerStep
    <2>4. CASE User
        <3>1. \E t \in Tasks : AddTask(t)
            BY <2>4 DEF User, DeleteSend, DeleteReceive, DeleteAllSend, OrderlyUse
        <3> QED BY <2>2, <3>1, AddTaskClean
    <2>5. CASE Connect
        BY <2>2, <2>5, LinkClean
    <2> QED BY <1>4, <2>1, <2>3, <2>4, <2>5 DEF Next
<1> QED BY <1>3, <1>4

LEMMA Cleanness == ASSUME OrderlyUse PROVE Spec => []CleanInv
<1>1. OrderlyUse /\ Init => CleanInv
    BY CleanInit
<1>2. OrderlyUse /\ CleanInv /\ [Next]_vars => CleanInv'
    BY CleanNext
<1> QED BY <1>1, <1>2, PTL DEF Spec

\* CleanWithoutFaults, communication.cpp:27-60 and taskop.cpp:164: as long as
\* nothing has failed, a task counts no error, no part arrives out of order,
\* and a file is CHECKED and never merely COMPLETED, for files and blocks of
\* any length: the answer a sender takes for its own is its own.
THEOREM NoFaultNoTrouble == ASSUME OrderlyUse PROVE Spec => []CleanWithoutFaults
<1>1. CleanInv => CleanWithoutFaults
    <2> SUFFICES ASSUME CleanInv, faults = 0, NEW t \in Tasks
                 PROVE  /\ send_queue[t].error_count = 0
                        /\ recv_queue[t].status # "INCONSIST"
                        /\ send_queue[t].status = "COMPLETED" => Kind[t] = "MESSAGE"
        BY DEF CleanWithoutFaults
    <2>1. Tidy(t)
        BY DEF CleanInv, AllTidy
    <2> QED BY <2>1 DEF Tidy, Underway, Rest
<1> QED BY <1>1, Cleanness, PTL

=============================================================================
