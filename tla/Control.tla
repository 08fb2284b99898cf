------------------------------- MODULE Control -------------------------------
(***************************************************************************)
(* One nbftp process and the commands given to it: the thread of main,     *)
(* which runs sessions with the peer, the thread of the control port,      *)
(* which serves one nbftp command after the other, and those commands.     *)
(*                                                                         *)
(* The threads share the send queue, without any lock, and the variable    *)
(* status: 1 while the service runs, 0 when it has been told to stop, -1   *)
(* when main has left its loop.  A session is modelled by where it looks   *)
(* at status and where it touches the queue; its protocol is that of       *)
(* Communication, the bytes of a request are those of Transfer, the file   *)
(* of the queue is that of TaskFile.                                       *)
(***************************************************************************)
EXTENDS Integers, Sequences

CONSTANTS
    Clients,    \* runs of the nbftp command
    Nobody,
    Tasks,      \* bound: the user tasks there may be
    Signal,     \* a control task: a reply or a COMPLETE_SIG
    Requests,   \* what commands ask for
    Polls,      \* looks that STOP_SERVER takes at status
    Backlog     \* connections that wait to be accepted

AllRequests ==
    {"GET_STATUS", "STOP_SERVER", "ADD_MESSAGE", "ADD_FILE", "GET_RECEIVED", "DELETE_SEND", "LIST_SEND"}

ASSUME ControlAssumption ==
    /\ Nobody \notin Clients
    /\ Signal \notin Tasks
    /\ Requests \subseteq AllRequests
    /\ Polls \in Nat \ {0}
    /\ Backlog \in Nat \ {0}

VARIABLES
    status,
    process,    \* "alive", "exited" or "crashed"
    list,       \* the tasks that the head of the send queue leads to
    state,      \* per task, what has become of it
    node,       \* per thread, the task it is adding to the list or deleting
    saw,        \* per thread, the list as it was when it read the head
    main,       \* where the thread of main is
    back,       \* where it goes on when the task is added
    control,    \* where the thread of the control port is
    serving,    \* the client it is serving
    polls,
    reply,      \* the response it has packed
    backlog,    \* clients that are connected and not accepted
    kind,       \* per client, its request once it is sent
    sent,       \* per client: 1 if its length is sent, 2 if its request is
    cli         \* per client: "idle", "waiting", what it was told, or "left"

mainVars == <<main, back>>
controlVars == <<control, serving, polls, reply>>
cliVars == <<backlog, kind, sent, cli>>
queue == <<list, state>>
access == <<node, saw>>
vars == <<status, process, queue, access, mainVars, controlVars, cliVars>>

Nodes == Tasks \cup {Signal}
NodeStates == {"none", "INITIAL", "PENDING", "resting", "freed"}
TaskThreads == {"main", "control"}

MainPoints ==
    {"LOOP", "MONITORS", "TASKS", "PICK", "PICK AGAIN", "CALL", "WORK", "PAUSE", "INSERT", "PUBLISH", "UPDATE",
     "ENDED"}
ControlPoints ==
    {"LOOP", "PROTECT", "ACCEPT", "LENGTH", "DATA", "PROCESS", "POLL", "VERDICT", "ANSWER", "INSERT", "PUBLISH",
     "CONFIG", "UPDATE", "UNLINK", "ENDED"}

\* "silent" is a response of return value 0 without any message.
StopReplies == {"stopped", "silent", "cannot stop"}
Replies == StopReplies \cup {"done"}

ClientStates == Replies \cup {"idle", "waiting", "nothing", "left"}

QueueTypes ==
    /\ list \subseteq Nodes
    /\ state \in [Nodes -> NodeStates]
    /\ node \in [TaskThreads -> Nodes \cup {Nobody}]
    /\ saw \in [TaskThreads -> SUBSET Nodes]

ThreadTypes ==
    /\ status \in {1, 0, -1}
    /\ process \in {"alive", "exited", "crashed"}
    /\ main \in MainPoints
    /\ back \in {"MONITORS", "PICK", "PICK AGAIN"}
    /\ control \in ControlPoints
    /\ serving \in Clients \cup {Nobody}
    /\ polls \in 0..Polls
    /\ reply \in Replies

CommandTypes ==
    /\ backlog \in Seq(Clients) /\ Len(backlog) <= Backlog
    /\ kind \in [Clients -> Requests \cup {"none"}]
    /\ sent \in [Clients -> 0..2]
    /\ cli \in [Clients -> ClientStates]

TypeOK == QueueTypes /\ ThreadTypes /\ CommandTypes

Init ==
    /\ status = 1
    /\ process = "alive"
    /\ list \in SUBSET Tasks
    /\ state = [n \in Nodes |-> IF n \in list THEN "PENDING" ELSE "none"]
    /\ node = [th \in TaskThreads |-> Nobody] /\ saw = [th \in TaskThreads |-> {}]
    /\ main = "LOOP" /\ back = "PICK"
    /\ control = "LOOP" /\ serving = Nobody /\ polls = 0 /\ reply = "done"
    /\ backlog = << >>
    /\ kind = [c \in Clients |-> "none"]
    /\ sent = [c \in Clients |-> 0]
    /\ cli = [c \in Clients |-> "idle"]

\* The connections of these clients are closed before they have an answer.
HangUp(S) == cli' = [c \in Clients |-> IF c \in S /\ cli[c] = "waiting" THEN "nothing" ELSE cli[c]]

\* The process ends, and with it every connection.
Die(how) ==
    /\ process' = how
    /\ HangUp(Clients)
    /\ backlog' = << >>
    /\ UNCHANGED <<status, queue, access, mainVars, controlVars, kind, sent>>

-----------------------------------------------------------------------------
(* The send queue.  A task is inserted in two steps: the new node points to *)
(* the head, and the head to it; a walk along the list is one step.         *)

\* new_task has made the task, the head is read.
ReadHead(th) ==
    /\ saw' = [saw EXCEPT ![th] = list]
    /\ UNCHANGED <<queue, node>>

\* The new node becomes the head.  What was inserted since is lost.
PublishNode(th) ==
    /\ list' = saw[th] \cup {node[th]}
    /\ state' = [state EXCEPT ![node[th]] = "INITIAL"]
    /\ saw' = [saw EXCEPT ![th] = {}]
    /\ UNCHANGED node

\* update_task, which ignores a task that is not on the list.
UpdateNode(th) ==
    /\ state' = IF node[th] \in list THEN [state EXCEPT ![node[th]] = "PENDING"] ELSE state
    /\ node' = [node EXCEPT ![th] = Nobody]
    /\ UNCHANGED <<list, saw>>

\* The new node would lead into freed memory.
Dangles(th) == \E n \in saw[th] : state[n] = "freed"

-----------------------------------------------------------------------------
(* The thread of main: start_server or start_client, send_tasks,           *)
(* receive_tasks.                                                          *)

Goto(pc) == main' = pc /\ UNCHANGED <<status, process, back, controlVars, cliVars>>

\* It begins to add a task and goes on at a place when it is done.
AddThen(n, pc) ==
    /\ node' = [node EXCEPT !["main"] = n]
    /\ main' = "INSERT" /\ back' = pc
    /\ UNCHANGED <<status, process, queue, saw, controlVars, cliVars>>

MainInserts ==
    \/ main = "INSERT" /\ Goto("PUBLISH") /\ ReadHead("main")
    \/ main = "PUBLISH" /\ Goto("UPDATE") /\ PublishNode("main")
    \/ main = "PUBLISH" /\ Dangles("main") /\ Die("crashed")
    \/ /\ main = "UPDATE" /\ UpdateNode("main")
       /\ main' = back /\ back' = "PICK"
       /\ UNCHANGED <<status, process, controlVars, cliVars>>

\* A bug for the mutation runs: the loop is left only when something fails.
BeginRoundAlways ==
    /\ main = "LOOP"
    /\ Goto("MONITORS")
    /\ UNCHANGED <<queue, access>>

BeginRound ==
    /\ main = "LOOP" /\ status = 1
    /\ Goto("MONITORS")
    /\ UNCHANGED <<queue, access>>

NewTask(t) == t \in Tasks /\ state[t] = "none"

\* check_monitors adds files; one that cannot be copied ends the process.  Then
\* there is a connection to the peer, or none this time.
CheckMonitors ==
    /\ main = "MONITORS"
    /\ \/ \E t \in Tasks : NewTask(t) /\ node["control"] # t /\ AddThen(t, "MONITORS")
       \/ Die("exited")
       \/ (Goto("TASKS") \/ Goto("PAUSE")) /\ UNCHANGED <<queue, access>>

\* The loops of send_tasks and receive_tasks: a task to send, or one to receive.
NextTask ==
    /\ main = "TASKS" /\ status = 1
    /\ Goto("PICK") \/ Goto("CALL")
    /\ UNCHANGED <<queue, access>>

EndSession ==
    /\ main = "TASKS" /\ status # 1
    /\ Goto("PAUSE")
    /\ UNCHANGED <<queue, access>>

Waiting == \E n \in list : state[n] = "PENDING"

\* Tasks are done, or put off until their resume_interval is over; or they are
\* to be sent again.
Rests(S) == state' = [n \in Nodes |-> IF n \in S THEN "resting" ELSE state[n]]
Resumes(S) == state' = [n \in Nodes |-> IF n \in S THEN "PENDING" ELSE state[n]]
Listed(how) == {n \in list : state[n] = how}

\* get_pending_task: a task is found, or a COMPLETE_SIG is added ...
Pick ==
    /\ main = "PICK"
    /\ \/ Waiting /\ Goto("CALL") /\ UNCHANGED <<queue, access>>
       \/ ~Waiting /\ AddThen(Signal, "PICK AGAIN")

\* ... and looked for.  send_task prints the task before it looks for NULL.
PickAgain ==
    /\ main = "PICK AGAIN"
    /\ IF Waiting THEN Goto("CALL") /\ UNCHANGED <<queue, access>> ELSE Die("crashed")

\* A call of the connection, which fails within a tenth of a second of the
\* stop.  What was sent may be done.
CallReturns ==
    /\ main = "CALL" /\ status = 1
    /\ Goto("TASKS") \/ Goto("WORK")
    /\ state' = state \/ \E n \in Listed("PENDING") : Rests({n})
    /\ UNCHANGED <<list, access>>

\* What was to be sent is put off.
CallFails ==
    /\ main = "CALL"
    /\ Goto("PAUSE")
    /\ state' = state \/ \E n \in Listed("PENDING") : Rests({n})
    /\ UNCHANGED <<list, access>>

\* process_task: an md5, an extension command and a reply to be sent next, or
\* the answer to a task of this side, which may have to be sent again.  One to a
\* task that the list has lost crashes.  Nothing of it looks at status.
Work ==
    /\ main = "WORK"
    /\ \/ AddThen(Signal, "PICK")
       \/ /\ Goto("TASKS")
          /\ \/ state' = state
             \/ \E n \in Listed("PENDING") : Rests({n})
             \/ \E n \in Listed("resting") : Resumes({n})
          /\ UNCHANGED <<list, access>>
       \/ (\E t \in Tasks \ list : ~NewTask(t)) /\ Die("crashed")

\* A bug for the mutation runs: status is -1 as soon as the stop is seen.
PauseEnded ==
    /\ main = "PAUSE"
    /\ main' = "LOOP"
    /\ status' = IF status = 1 THEN 1 ELSE -1
    /\ UNCHANGED <<process, queue, access, back, controlVars, cliVars>>

\* The connection is closed; a server sleeps a second, a client its interval,
\* which a stop cuts short.  What was put off may be tried again.
Pause ==
    /\ main = "PAUSE"
    /\ Goto("LOOP")
    /\ \E S \in SUBSET Listed("resting") : Resumes(S)
    /\ UNCHANGED <<list, access>>

EndMain ==
    /\ main = "LOOP" /\ status # 1
    /\ main' = "ENDED"
    /\ status' = -1
    /\ UNCHANGED <<process, queue, access, back, controlVars, cliVars>>

\* pthread_join, then the rest of main.
Exit == main = "ENDED" /\ control = "ENDED" /\ Die("exited")

-----------------------------------------------------------------------------
(* The thread of the control port: Control::server_routine.                *)

ControlMoves(pc) == control' = pc /\ UNCHANGED <<status, process, mainVars, kind, sent>>
ControlGoto(pc) == ControlMoves(pc) /\ UNCHANGED <<queue, access>>

\* The first look at status is followed by check_protect, which asks for two
\* parameters and may start the protecting process.
CallProtect ==
    /\ control = "LOOP" /\ status = 1
    /\ ControlGoto("PROTECT")
    /\ UNCHANGED <<serving, polls, reply, backlog, cli>>

\* config.get_int looks for changes of the configuration file.  Its read blocks
\* when main has taken the events in between: there is no saying that it ends.
GetInt ==
    /\ \/ control = "PROTECT" /\ ControlGoto("ACCEPT")
       \/ control = "CONFIG" /\ ControlGoto("UPDATE")
    /\ UNCHANGED <<serving, polls, reply, backlog, cli>>

Accept ==
    /\ control = "ACCEPT"
    /\ IF backlog # << >>
       THEN /\ serving' = Head(backlog)
            /\ backlog' = Tail(backlog)
            /\ ControlGoto("LENGTH")
       ELSE ControlGoto("LOOP") /\ UNCHANGED <<serving, backlog>>
    /\ UNCHANGED <<polls, reply, cli>>

\* has_data: the length is there, or nothing comes for ten seconds, or the
\* client has left.
HasData ==
    /\ control = "LENGTH"
    /\ \/ /\ sent[serving] > 0
          /\ ControlGoto("DATA")
          /\ UNCHANGED <<serving, cli>>
       \/ /\ sent[serving] = 0
          /\ ControlGoto("LOOP")
          /\ HangUp({serving})
          /\ serving' = Nobody
    /\ UNCHANGED <<polls, reply, backlog>>

\* recv_data.  For a client that is silent or leaves after the length it
\* returns NULL, and process reads from it all the same.
RecvData ==
    /\ control = "DATA"
    /\ IF sent[serving] = 2
       THEN ControlGoto("PROCESS") /\ UNCHANGED <<serving, polls, reply, backlog, cli>>
       ELSE Die("crashed")

Answer(text) == reply' = text /\ UNCHANGED <<serving, backlog, cli>>

\* Control::process.  The lists are walked in one step; a file of the receive
\* queue that cannot be copied ends the process, as one to be sent does.
Read ==
    /\ control = "PROCESS"
    /\ \/ /\ kind[serving] \in {"GET_STATUS", "LIST_SEND", "GET_RECEIVED"}
          /\ ControlGoto("ANSWER")
          /\ Answer("done")
          /\ UNCHANGED polls
       \/ kind[serving] \in {"GET_RECEIVED", "ADD_FILE"} /\ Die("exited")

\* A message may be too long, which is not told to the user.
Add ==
    /\ control = "PROCESS" /\ kind[serving] \in {"ADD_MESSAGE", "ADD_FILE"}
    /\ \/ \E t \in Tasks :
              /\ NewTask(t) /\ node["main"] # t
              /\ node' = [node EXCEPT !["control"] = t]
          /\ ControlMoves("INSERT")
          /\ UNCHANGED <<queue, saw>>
       \/ ControlGoto("ANSWER")
    /\ Answer("done")
    /\ UNCHANGED polls

\* Between new_task and update_task a file asks for the size of a large one.
ControlInserts ==
    /\ \/ control = "INSERT" /\ ControlMoves("PUBLISH") /\ ReadHead("control")
       \/ /\ control = "PUBLISH"
          /\ ControlMoves(IF kind[serving] = "ADD_FILE" THEN "CONFIG" ELSE "UPDATE")
          /\ PublishNode("control")
       \/ control = "UPDATE" /\ ControlMoves("ANSWER") /\ UpdateNode("control")
    /\ UNCHANGED <<serving, polls, reply, backlog, cli>>

\* del_all_tasks frees the list.  del_task reads the head if that is the task,
\* and unlinks it from its predecessor otherwise, without freeing it.
Delete ==
    /\ control = "PROCESS" /\ kind[serving] = "DELETE_SEND"
    /\ \/ /\ ControlMoves("ANSWER")
          /\ list' = {}
          /\ state' = [n \in Nodes |-> IF n \in list THEN "freed" ELSE state[n]]
          /\ UNCHANGED access
       \/ \E t \in list \cap Tasks :
              /\ ControlMoves("UNLINK")
              /\ node' = [node EXCEPT !["control"] = t]
              /\ saw' = [saw EXCEPT !["control"] = list]
              /\ UNCHANGED queue
       \/ \E t \in list \cap Tasks :
              /\ ControlMoves("ANSWER")
              /\ list' = list \ {t}
              /\ saw' = [saw EXCEPT !["main"] = @ \ {t}]
              /\ UNCHANGED <<state, node>>
       \/ ControlGoto("ANSWER")
    /\ Answer("done")
    /\ UNCHANGED polls

\* The head becomes what the old one led to, and the old one is freed.  If main
\* has inserted a task meanwhile, that is lost, or the freed one stays on the
\* list.
Unlink ==
    /\ control = "UNLINK"
    /\ \/ /\ ControlMoves("ANSWER")
          /\ list' = saw["control"] \ {node["control"]}
          /\ state' = [state EXCEPT ![node["control"]] = "freed"]
          /\ node' = [node EXCEPT !["control"] = Nobody]
          /\ saw' = [saw EXCEPT !["control"] = {}]
          /\ UNCHANGED <<serving, polls, reply, backlog, cli>>
       \/ list # saw["control"] /\ Die("crashed")

\* A bug for the mutation runs: status says that main has ended.
StopAtOnce ==
    /\ control = "PROCESS" /\ kind[serving] = "STOP_SERVER"
    /\ status' = -1
    /\ control' = "POLL" /\ polls' = 0
    /\ UNCHANGED <<process, queue, access, mainVars, serving, reply, cliVars>>

Stop ==
    /\ control = "PROCESS" /\ kind[serving] = "STOP_SERVER"
    /\ status' = 0
    /\ control' = "POLL" /\ polls' = 0
    /\ UNCHANGED <<process, queue, access, mainVars, serving, reply, cliVars>>

\* Bugs for the mutation runs: it sleeps until main has ended, or counts one
\* sleep too many.
PollForever ==
    /\ control = "POLL"
    /\ status = -1
    /\ ControlGoto("VERDICT") /\ UNCHANGED polls
    /\ Answer("stopped")

PollPast ==
    /\ control = "POLL"
    /\ IF polls > Polls \/ status = -1
       THEN ControlGoto("VERDICT") /\ UNCHANGED polls
       ELSE ControlGoto("POLL") /\ polls' = polls + 1
    /\ Answer(IF status = -1 THEN "stopped" ELSE "silent")

\* STOP_SERVER sleeps and looks at status, Polls times ...
Poll ==
    /\ control = "POLL"
    /\ IF polls = Polls \/ status = -1
       THEN ControlGoto("VERDICT") /\ UNCHANGED polls
       ELSE ControlGoto("POLL") /\ polls' = polls + 1
    /\ Answer(IF polls < Polls /\ status = -1 THEN "stopped" ELSE "silent")

\* ... and looks once more to decide on its return value.
Verdict ==
    /\ control = "VERDICT"
    /\ ControlGoto("ANSWER")
    /\ Answer(IF status # -1 THEN "cannot stop" ELSE reply)
    /\ UNCHANGED polls

\* send_data ignores status; then the connection is closed.
SendAnswer ==
    /\ control = "ANSWER"
    /\ cli' = [cli EXCEPT ![serving] = IF @ = "waiting" THEN reply ELSE @]
    /\ kind' = [kind EXCEPT ![serving] = "none"] /\ sent' = [sent EXCEPT ![serving] = 0]
    /\ control' = "LOOP" /\ serving' = Nobody /\ polls' = 0 /\ reply' = "done"
    /\ UNCHANGED <<status, process, queue, access, mainVars, backlog>>

\* The socket is closed, and what waits to be accepted is refused.
EndControl ==
    /\ control = "LOOP" /\ status # 1
    /\ ControlGoto("ENDED")
    /\ HangUp({backlog[i] : i \in DOMAIN backlog})
    /\ backlog' = << >>
    /\ UNCHANGED <<serving, polls, reply>>

-----------------------------------------------------------------------------
(* The nbftp command: Control::remote.                                     *)

Listening == process = "alive" /\ control # "ENDED"

Become(c, step) ==
    /\ cli' = [cli EXCEPT ![c] = step]
    /\ UNCHANGED <<status, process, queue, access, mainVars, controlVars, kind, sent>>

\* There is one second to connect.
ConnectClient(c) ==
    /\ cli[c] = "idle"
    /\ IF Listening /\ Len(backlog) < Backlog
       THEN Become(c, "waiting") /\ backlog' = Append(backlog, c)
       ELSE Become(c, "nothing") /\ UNCHANGED backlog

SendLength(c) ==
    /\ cli[c] = "waiting" /\ sent[c] = 0
    /\ sent' = [sent EXCEPT ![c] = 1]
    /\ UNCHANGED <<status, process, queue, access, mainVars, controlVars, backlog, kind, cli>>

SendRequest(c) ==
    /\ cli[c] = "waiting" /\ sent[c] = 1
    /\ sent' = [sent EXCEPT ![c] = 2]
    /\ \E request \in Requests : kind' = [kind EXCEPT ![c] = request]
    /\ UNCHANGED <<status, process, queue, access, mainVars, controlVars, backlog, cli>>

\* get_status waits ten seconds for its answer, the others for ever.
GiveUp(c) ==
    /\ cli[c] = "waiting" /\ sent[c] = 2 /\ kind[c] = "GET_STATUS"
    /\ Become(c, "nothing")
    /\ UNCHANGED backlog

\* The command is interrupted.
Leave(c) == cli[c] = "waiting" /\ Become(c, "left") /\ UNCHANGED backlog

-----------------------------------------------------------------------------

\* Nothing moves in a process that has ended.
MainStep ==
    /\ process = "alive"
    /\ \/ MainInserts \/ BeginRound \/ CheckMonitors \/ NextTask \/ EndSession \/ Pick \/ PickAgain
       \/ CallReturns \/ CallFails \/ Work \/ Pause \/ EndMain \/ Exit

ControlStep ==
    /\ process = "alive"
    /\ \/ CallProtect \/ Accept \/ HasData \/ RecvData \/ Read \/ Add \/ ControlInserts \/ Delete \/ Unlink
       \/ Stop \/ Poll \/ Verdict \/ SendAnswer \/ EndControl

ConfigStep == process = "alive" /\ GetInt

Next ==
    \/ MainStep
    \/ ControlStep
    \/ ConfigStep
    \/ \E c \in Clients : ConnectClient(c) \/ SendLength(c) \/ SendRequest(c) \/ GiveUp(c) \/ Leave(c)

Spec == Init /\ [][Next]_vars

\* The thread of the control port and the commands go on by themselves, but for
\* the reads of the configuration; main may hang, in an extension command for
\* one.
FairSpec == Spec /\ WF_vars(ControlStep) /\ \A c \in Clients : WF_vars(SendLength(c) \/ SendRequest(c))

\* Main goes on too: its calls time out, its extension commands end.
MainGoesOn == WF_vars(MainStep)

\* No read of the configuration blocks the control port for ever.
ConfigReturns == WF_vars(ConfigStep)

-----------------------------------------------------------------------------
(* Properties. *)

Told(c) == cli[c] \in {"stopped", "silent"}

\* A command that returns 0 from a stop returns when main has left its loop:
\* no session is under way then, and none follows.
StoppedIsTrue == \A c \in Clients : Told(c) => main = "ENDED" /\ status = -1

\* Then the queue no longer changes, neither by a reply that was still to be
\* sent nor by another command that waited.
QuietOnceStopped == [][(\E c \in Clients : Told(c)) => UNCHANGED queue]_vars

\* A connected command is answered or hung up on, whatever main does: not even
\* a stop that main is too busy to see holds it; unless a read of the
\* configuration blocks.
EveryoneIsAnswered ==
    ConfigReturns => \A c \in Clients : cli[c] = "waiting" ~> cli[c] # "waiting"

\* Who has told the service to stop may rely on it, also when the answer was
\* that it cannot stop: main leaves its session and the process ends.
StopHappens == MainGoesOn => (status = 0 ~> process # "alive")

\* communication.cpp:25: if nothing is left to be sent, a task that says so is
\* added, and that is what the second look of get_pending_task finds.
SecondLookFinds == main = "PICK AGAIN" => Waiting
=============================================================================
