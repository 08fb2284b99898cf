----------------------------- MODULE ControlProofs -----------------------------
(***************************************************************************)
(* What a stop tells its user is true, proved for every number of commands *)
(* and of looks at status.                                                 *)
(***************************************************************************)
EXTENDS Control, SequenceTheorems, TLAPS

\* status is -1 from the end of main on, and a request is served only while it
\* is 1: STOP_SERVER cannot set a -1 back to 0.
StatusInv ==
    /\ main = "ENDED" <=> status = -1
    /\ control \notin {"LOOP", "POLL", "VERDICT", "ANSWER", "ENDED"} => status = 1
    /\ control = "ANSWER" /\ reply \in {"stopped", "silent"} => status = -1
    /\ control \in {"INSERT", "PUBLISH", "CONFIG", "UPDATE", "UNLINK"} => reply = "done"
    /\ \A c \in Clients : Told(c) => status = -1

\* Being hung up on tells a command nothing, and types are kept.
LEMMA HangUpTells ==
    ASSUME NEW S, CommandTypes, HangUp(S)
    PROVE  /\ cli' \in [Clients -> ClientStates]
           /\ \A c \in Clients : Told(c)' => Told(c)
BY DEF HangUp, CommandTypes, Told, ClientStates

\* A thread that is about to insert has a task to insert.
NodeInv ==
    /\ main \in {"INSERT", "PUBLISH"} => node["main"] \in Nodes
    /\ control \in {"INSERT", "PUBLISH"} => node["control"] \in Nodes

\* Each access to the queue keeps its types.
LEMMA AccessTypes ==
    ASSUME QueueTypes, NEW th \in TaskThreads
    PROVE  /\ ReadHead(th) => QueueTypes'
           /\ PublishNode(th) /\ node[th] \in Nodes => QueueTypes'
           /\ UpdateNode(th) => QueueTypes'
<1> USE DEF QueueTypes, NodeStates, TaskThreads
<1>1. ReadHead(th) => QueueTypes'
  BY DEF ReadHead, queue
<1>2. PublishNode(th) /\ node[th] \in Nodes => QueueTypes'
  BY DEF PublishNode
<1>3. UpdateNode(th) => QueueTypes'
  BY DEF UpdateNode
<1> QED
  BY <1>1, <1>2, <1>3

LEMMA StateTypes ==
    ASSUME QueueTypes, NEW S, Rests(S) \/ Resumes(S)
    PROVE  state' \in [Nodes -> NodeStates]
BY DEF QueueTypes, Rests, Resumes, NodeStates

LEMMA MainQueueTypes == QueueTypes /\ NodeInv /\ MainStep => QueueTypes'
<1> SUFFICES ASSUME QueueTypes, NodeInv, MainStep PROVE QueueTypes'
  OBVIOUS
<1>1. ASSUME UNCHANGED <<queue, access>> PROVE QueueTypes'
  BY <1>1 DEF queue, access, QueueTypes
<1>2. ASSUME NEW how, Die(how) PROVE QueueTypes'
  BY <1>1, <1>2 DEF Die
<1>3. ASSUME NEW n \in Nodes, NEW pc, AddThen(n, pc) PROVE QueueTypes'
  BY <1>3 DEF AddThen, queue, QueueTypes, TaskThreads
<1>4. ASSUME state' \in [Nodes -> NodeStates], UNCHANGED <<list, access>> PROVE QueueTypes'
  BY <1>4 DEF QueueTypes, access
<1>5. CASE MainInserts
  BY <1>2, <1>5, AccessTypes DEF MainInserts, NodeInv, TaskThreads
<1>6. CASE BeginRound \/ NextTask \/ EndSession \/ EndMain
  BY <1>1, <1>6 DEF BeginRound, NextTask, EndSession, EndMain
<1>7. CASE CheckMonitors
  BY <1>1, <1>2, <1>3, <1>7 DEF CheckMonitors, Nodes
<1>8. CASE Pick \/ PickAgain \/ Exit
  BY <1>1, <1>2, <1>3, <1>8 DEF Pick, PickAgain, Exit, Nodes
<1>9. CASE CallReturns \/ CallFails
  <2>1. state' = state \/ \E n \in Listed("PENDING") : Rests({n})
    BY <1>9 DEF CallReturns, CallFails
  <2>2. state' \in [Nodes -> NodeStates]
    BY <2>1, StateTypes DEF QueueTypes
  <2> QED
    BY <1>4, <1>9, <2>2 DEF CallReturns, CallFails
<1>10. CASE Work
  <2>1. CASE AddThen(Signal, "PICK")
    BY <1>3, <2>1 DEF Nodes
  <2>2. CASE ~AddThen(Signal, "PICK") /\ ~Die("crashed")
    <3>1. /\ UNCHANGED <<list, access>>
          /\ state' = state \/ \E n : Rests({n}) \/ Resumes({n})
      BY <1>10, <2>2 DEF Work
    <3>2. state' \in [Nodes -> NodeStates]
      BY <3>1, StateTypes DEF QueueTypes
    <3> QED
      BY <1>4, <3>1, <3>2
  <2>3. CASE Die("crashed")
    BY <1>2, <2>3
  <2> QED
    BY <2>1, <2>2, <2>3
<1>11. CASE Pause
  BY <1>4, <1>11, StateTypes DEF Pause
<1> QED
  BY <1>5, <1>6, <1>7, <1>8, <1>9, <1>10, <1>11 DEF MainStep

LEMMA ControlQueueTypes == QueueTypes /\ NodeInv /\ (ControlStep \/ ConfigStep) => QueueTypes'
<1> SUFFICES ASSUME QueueTypes, NodeInv, ControlStep \/ ConfigStep PROVE QueueTypes'
  OBVIOUS
<1>1. ASSUME UNCHANGED <<queue, access>> PROVE QueueTypes'
  BY <1>1 DEF queue, access, QueueTypes
<1>2. ASSUME NEW how, Die(how) PROVE QueueTypes'
  BY <1>1, <1>2 DEF Die
<1>3. CASE CallProtect \/ Accept \/ HasData \/ Stop \/ Poll \/ Verdict \/ SendAnswer \/ EndControl \/ GetInt
  BY <1>1, <1>3 DEF CallProtect, Accept, HasData, Stop, Poll, Verdict, SendAnswer, EndControl, GetInt, ControlGoto
<1>4. CASE RecvData \/ Read
  BY <1>1, <1>2, <1>4 DEF RecvData, Read, ControlGoto
<1>5. CASE Add
  <2>1. CASE ControlGoto("ANSWER")
    BY <1>1, <2>1 DEF ControlGoto
  <2>2. CASE \E t \in Tasks : node' = [node EXCEPT !["control"] = t] /\ UNCHANGED <<queue, saw>>
    BY <2>2 DEF QueueTypes, queue, Nodes, TaskThreads
  <2> QED
    BY <1>5, <2>1, <2>2 DEF Add
<1>6. CASE ControlInserts
  BY <1>6, AccessTypes DEF ControlInserts, NodeInv, TaskThreads
<1>7. CASE Delete
  <2>1. CASE list' = {} /\ UNCHANGED access /\ state' = [n \in Nodes |-> IF n \in list THEN "freed" ELSE state[n]]
    BY <2>1 DEF QueueTypes, access, NodeStates
  <2>2. CASE \E t \in Tasks : /\ node' = [node EXCEPT !["control"] = t]
                             /\ saw' = [saw EXCEPT !["control"] = list]
                             /\ UNCHANGED queue
    BY <2>2 DEF QueueTypes, queue, Nodes, TaskThreads
  <2>3. CASE \E t \in Tasks : /\ list' = list \ {t}
                             /\ saw' = [saw EXCEPT !["main"] = @ \ {t}]
                             /\ UNCHANGED <<state, node>>
    BY <2>3 DEF QueueTypes, TaskThreads
  <2>4. CASE ControlGoto("ANSWER")
    BY <1>1, <2>4 DEF ControlGoto
  <2> QED
    BY <1>7, <2>1, <2>2, <2>3, <2>4 DEF Delete
<1>8. CASE Unlink
  <2>1. CASE Die("crashed")
    BY <1>2, <2>1
  <2>2. CASE ~Die("crashed")
    <3>1. /\ list' = saw["control"] \ {node["control"]}
          /\ state' = [state EXCEPT ![node["control"]] = "freed"]
          /\ node' = [node EXCEPT !["control"] = Nobody]
          /\ saw' = [saw EXCEPT !["control"] = {}]
      BY <1>8, <2>2 DEF Unlink
    <3> QED
      BY <3>1 DEF QueueTypes, TaskThreads, NodeStates
  <2> QED
    BY <2>1, <2>2
<1> QED
  BY <1>3, <1>4, <1>5, <1>6, <1>7, <1>8 DEF ControlStep, ConfigStep

LEMMA ClientQueueTypes ==
    ASSUME NEW c, ConnectClient(c) \/ SendLength(c) \/ SendRequest(c) \/ GiveUp(c) \/ Leave(c)
    PROVE  UNCHANGED <<status, process, queue, access, mainVars, controlVars>>
BY DEF ConnectClient, SendLength, SendRequest, GiveUp, Leave, Become

LEMMA QueueTypesKept == TypeOK /\ NodeInv /\ [Next]_vars => QueueTypes'
<1> SUFFICES ASSUME QueueTypes, NodeInv, [Next]_vars PROVE QueueTypes'
  BY DEF TypeOK
<1>1. ASSUME UNCHANGED <<queue, access>> PROVE QueueTypes'
  BY <1>1 DEF queue, access, QueueTypes
<1> QED
  BY <1>1, MainQueueTypes, ControlQueueTypes, ClientQueueTypes DEF Next, vars

LEMMA ThreadTypesKept == TypeOK /\ [Next]_vars => ThreadTypes'
<1> SUFFICES ASSUME ThreadTypes, CommandTypes, [Next]_vars PROVE ThreadTypes'
  BY DEF TypeOK
<1>1. ASSUME NEW how \in {"exited", "crashed"}, Die(how) PROVE ThreadTypes'
  <2>1. /\ process' = how /\ status' = status /\ main' = main /\ back' = back
        /\ control' = control /\ serving' = serving /\ polls' = polls /\ reply' = reply
    BY <1>1 DEF Die, mainVars, controlVars
  <2> QED
    BY <2>1 DEF ThreadTypes
<1>2. CASE MainStep
  <2>1. ASSUME NEW pc \in {"LOOP", "MONITORS", "TASKS", "PICK", "PICK AGAIN", "CALL", "WORK", "PAUSE",
                           "PUBLISH", "UPDATE"}, Goto(pc)
        PROVE  ThreadTypes'
    <3>1. /\ main' = pc /\ status' = status /\ process' = process /\ back' = back
          /\ control' = control /\ serving' = serving /\ polls' = polls /\ reply' = reply
      BY <2>1 DEF Goto, controlVars
    <3>2. main' \in MainPoints
      BY <3>1 DEF MainPoints
    <3> QED
      BY <3>1, <3>2 DEF ThreadTypes
  <2>2. ASSUME NEW n, NEW pc \in {"MONITORS", "PICK", "PICK AGAIN"}, AddThen(n, pc) PROVE ThreadTypes'
    BY <2>2 DEF AddThen, controlVars, ThreadTypes, MainPoints, ControlPoints
  <2>3. CASE MainInserts
    <3>1. CASE main = "UPDATE" /\ main' = back /\ back' = "PICK" /\ UNCHANGED <<status, process, controlVars>>
      <4>1. UNCHANGED <<control, serving, polls, reply>>
        BY <3>1 DEF controlVars
      <4> QED
        BY <3>1, <4>1 DEF ThreadTypes, MainPoints
    <3> QED
      BY <1>1, <2>1, <2>3, <3>1 DEF MainInserts
  <2>4. CASE BeginRound \/ NextTask \/ EndSession \/ CallReturns \/ CallFails \/ Pause
    BY <2>1, <2>4 DEF BeginRound, NextTask, EndSession, CallReturns, CallFails, Pause
  <2>5. CASE CheckMonitors \/ Pick \/ PickAgain \/ Work \/ Exit
    BY <1>1, <2>1, <2>2, <2>5 DEF CheckMonitors, Pick, PickAgain, Work, Exit
  <2>6. CASE EndMain
    BY <2>6 DEF EndMain, controlVars, ThreadTypes, MainPoints, ControlPoints
  <2> QED
    BY <1>2, <2>3, <2>4, <2>5, <2>6 DEF MainStep
<1>3. CASE ControlStep \/ ConfigStep
  <2>1. ASSUME NEW pc \in {"LOOP", "PROTECT", "ACCEPT", "LENGTH", "DATA", "PROCESS", "POLL", "VERDICT", "ANSWER",
                           "INSERT", "PUBLISH", "CONFIG", "UPDATE", "UNLINK", "ENDED"}, ControlMoves(pc),
               serving' \in Clients \cup {Nobody}, polls' \in 0..Polls, reply' \in Replies
        PROVE  ThreadTypes'
    BY <2>1 DEF ControlMoves, mainVars, ThreadTypes, MainPoints, ControlPoints
  <2>2. /\ serving \in Clients \cup {Nobody} /\ polls \in 0..Polls /\ reply \in Replies
        /\ Polls \in Nat /\ Nobody \in Clients \cup {Nobody}
    BY ControlAssumption DEF ThreadTypes
  <2>3. CASE CallProtect \/ GetInt \/ ControlInserts \/ EndControl
    <3>1. UNCHANGED <<serving, polls, reply>>
      BY <2>3 DEF CallProtect, GetInt, ControlInserts, EndControl
    <3> QED
      BY <2>1, <2>2, <2>3, <3>1, Zenon DEF CallProtect, GetInt, ControlInserts, EndControl, ControlGoto
  <2>4. CASE Accept
    <3>1. backlog # << >> => Head(backlog) \in Clients
      BY HeadTailProperties DEF CommandTypes
    <3>2. serving' \in Clients \cup {Nobody} /\ UNCHANGED <<polls, reply>>
      BY <2>2, <2>4, <3>1 DEF Accept
    <3>3. ControlMoves("LENGTH") \/ ControlMoves("LOOP")
      BY <2>4 DEF Accept, ControlGoto
    <3> QED
      BY <2>1, <2>2, <3>2, <3>3
  <2>5. CASE HasData
    <3>1. serving' \in Clients \cup {Nobody} /\ UNCHANGED <<polls, reply>>
      BY <2>2, <2>5 DEF HasData
    <3>2. ControlMoves("DATA") \/ ControlMoves("LOOP")
      BY <2>5 DEF HasData, ControlGoto
    <3> QED
      BY <2>1, <2>2, <3>1, <3>2
  <2>6. CASE RecvData
    <3>1. CASE sent[serving] = 2
      BY <2>1, <2>2, <2>6, <3>1 DEF RecvData, ControlGoto
    <3> QED
      BY <1>1, <2>6, <3>1 DEF RecvData
  <2>7. CASE Read \/ Add \/ Delete
    <3>1. CASE Die("exited")
      BY <1>1, <3>1
    <3>2. CASE ~Die("exited")
      <4>1. UNCHANGED <<serving, polls>> /\ reply' \in Replies
        BY <2>7, <3>2 DEF Read, Add, Delete, Answer, Replies
      <4>2. ControlMoves("ANSWER") \/ ControlMoves("INSERT") \/ ControlMoves("UNLINK")
        BY <2>7, <3>2 DEF Read, Add, Delete, ControlGoto
      <4> QED
        BY <2>1, <2>2, <4>1, <4>2
    <3> QED
      BY <3>1, <3>2
  <2>8. CASE Unlink
    BY <1>1, <2>1, <2>2, <2>8 DEF Unlink
  <2>9. CASE Stop
    <3>1. /\ status' = 0 /\ control' = "POLL" /\ polls' = 0
          /\ UNCHANGED <<process, main, back, serving, reply>>
      BY <2>9 DEF Stop, mainVars
    <3>2. polls' \in 0..Polls /\ status' \in {1, 0, -1}
      BY <2>2, <3>1
    <3> QED
      BY <3>1, <3>2 DEF ThreadTypes, MainPoints, ControlPoints
  <2>10. CASE Poll
    <3>1. UNCHANGED serving /\ reply' \in Replies
      BY <2>10 DEF Poll, Answer, Replies, StopReplies
    <3>2. \/ polls' = polls /\ ControlMoves("VERDICT")
          \/ polls # Polls /\ polls' = polls + 1 /\ ControlMoves("POLL")
      BY <2>10, Zenon DEF Poll, ControlGoto
    <3>3. polls' \in 0..Polls
      BY <2>2, <3>2
    <3> QED
      BY <2>1, <2>2, <3>1, <3>2, <3>3
  <2>11. CASE Verdict
    <3>1. reply' \in Replies /\ UNCHANGED <<serving, polls>>
      BY <2>2, <2>11 DEF Verdict, Answer, Replies, StopReplies
    <3> QED
      BY <2>1, <2>2, <2>11, <3>1 DEF Verdict, ControlGoto
  <2>12. CASE SendAnswer
    <3>1. /\ UNCHANGED <<status, process, main, back>>
          /\ control' = "LOOP" /\ serving' = Nobody /\ polls' = 0 /\ reply' = "done"
      BY <2>12 DEF SendAnswer, mainVars
    <3>2. 0 \in 0..Polls
      BY <2>2
    <3> QED
      BY <2>2, <3>1, <3>2 DEF ThreadTypes, ControlPoints, Replies
  <2> QED
    BY <1>3, <2>3, <2>4, <2>5, <2>6, <2>7, <2>8, <2>9, <2>10, <2>11, <2>12 DEF ControlStep, ConfigStep
<1>4. ASSUME NEW c \in Clients,
             ConnectClient(c) \/ SendLength(c) \/ SendRequest(c) \/ GiveUp(c) \/ Leave(c)
       PROVE  ThreadTypes'
  BY <1>4, ClientQueueTypes DEF mainVars, controlVars, ThreadTypes
<1>5. CASE UNCHANGED vars
  <2>1. /\ status' = status /\ process' = process /\ main' = main /\ back' = back
        /\ control' = control /\ serving' = serving /\ polls' = polls /\ reply' = reply
    BY <1>5 DEF vars, mainVars, controlVars
  <2> QED
    BY <2>1 DEF ThreadTypes
<1> QED
  BY <1>2, <1>3, <1>4, <1>5 DEF Next

LEMMA CommandTypesKept == TypeOK /\ [Next]_vars => CommandTypes'
<1> SUFFICES ASSUME ThreadTypes, CommandTypes, [Next]_vars PROVE CommandTypes'
  BY DEF TypeOK
<1>1. ASSUME UNCHANGED cliVars PROVE CommandTypes'
  BY <1>1 DEF CommandTypes, cliVars
<1>2. ASSUME NEW how, Die(how) PROVE CommandTypes'
  <2>1. backlog' \in Seq(Clients) /\ Len(backlog') <= Backlog
    BY <1>2, EmptySeq, ControlAssumption DEF Die
  <2> QED
    BY <1>2, <2>1, HangUpTells DEF Die, CommandTypes
<1>3. CASE MainStep
  <2>1. UNCHANGED cliVars \/ \E how : Die(how)
    BY <1>3 DEF MainStep, MainInserts, BeginRound, CheckMonitors, NextTask, EndSession, Pick, PickAgain,
       CallReturns, CallFails, Work, Pause, EndMain, Exit, Goto, AddThen
  <2> QED
    BY <1>1, <1>2, <2>1
<1>4. CASE CallProtect \/ GetInt \/ Read \/ Add \/ ControlInserts \/ Delete \/ Unlink \/ Stop \/ Poll \/ Verdict
  <2>1. UNCHANGED cliVars \/ \E how : Die(how)
    BY <1>4 DEF CallProtect, GetInt, Read, Add, ControlInserts, Delete, Unlink, Stop, Poll, Verdict,
       Answer, ControlMoves, ControlGoto, cliVars
  <2> QED
    BY <1>1, <1>2, <2>1
<1>5. CASE Accept
  <2>1. CASE backlog = << >>
    <3>1. UNCHANGED cliVars
      BY <1>5, <2>1 DEF Accept, ControlGoto, ControlMoves, cliVars
    <3> QED
      BY <1>1, <3>1
  <2>2. CASE backlog # << >>
    <3>1. Tail(backlog) \in Seq(Clients) /\ Len(Tail(backlog)) = Len(backlog) - 1 /\ Len(backlog) \in Nat
      BY <2>2, HeadTailProperties DEF CommandTypes
    <3>2. Tail(backlog) \in Seq(Clients) /\ Len(Tail(backlog)) <= Backlog
      BY <3>1, ControlAssumption DEF CommandTypes
    <3> QED
      BY <1>5, <2>2, <3>2 DEF Accept, ControlGoto, ControlMoves, CommandTypes
  <2> QED
    BY <2>1, <2>2
<1>6. CASE HasData
  <2>1. cli' \in [Clients -> ClientStates]
    BY <1>6, HangUpTells DEF HasData, CommandTypes
  <2> QED
    BY <1>6, <2>1 DEF HasData, ControlGoto, ControlMoves, CommandTypes
<1>7. CASE RecvData
  <2>1. CASE sent[serving] = 2
    BY <1>7, <2>1 DEF RecvData, ControlGoto, ControlMoves, CommandTypes
  <2> QED
    BY <1>2, <1>7, <2>1 DEF RecvData
<1>9. CASE SendAnswer
  <2>1. cli' \in [Clients -> ClientStates]
    BY <1>9 DEF SendAnswer, CommandTypes, ThreadTypes, ClientStates
  <2> QED
    BY <1>9, <2>1 DEF SendAnswer, ControlGoto, ControlMoves, CommandTypes
<1>10. CASE EndControl
  <2>1. backlog' \in Seq(Clients) /\ Len(backlog') <= Backlog
    BY <1>10, EmptySeq, ControlAssumption DEF EndControl
  <2> QED
    BY <1>10, <2>1, HangUpTells DEF EndControl, ControlGoto, ControlMoves, CommandTypes
<1>11. ASSUME NEW c \in Clients, ConnectClient(c) \/ GiveUp(c) \/ Leave(c) PROVE CommandTypes'
  <2>1. backlog' \in Seq(Clients) /\ Len(backlog') <= Backlog
    BY <1>11, ControlAssumption DEF ConnectClient, GiveUp, Leave, CommandTypes
  <2>2. PICK step \in {"waiting", "nothing", "left"} : Become(c, step)
    BY <1>11 DEF ConnectClient, GiveUp, Leave
  <2> QED
    BY <2>1, <2>2 DEF Become, CommandTypes, ClientStates
<1>12. ASSUME NEW c \in Clients, SendLength(c) \/ SendRequest(c) PROVE CommandTypes'
  BY <1>12 DEF SendLength, SendRequest, CommandTypes
<1>13. CASE UNCHANGED vars
  BY <1>1, <1>13 DEF vars
<1> QED
  BY <1>3, <1>4, <1>5, <1>6, <1>7, <1>9, <1>10, <1>11, <1>12, <1>13
  DEF Next, ControlStep, ConfigStep

LEMMA InitTypes == Init => TypeOK /\ NodeInv
<1> SUFFICES ASSUME Init PROVE QueueTypes /\ ThreadTypes /\ CommandTypes /\ NodeInv
  BY DEF TypeOK
<1>1. backlog \in Seq(Clients) /\ Len(backlog) <= Backlog
  BY EmptySeq, ControlAssumption DEF Init
<1>2. CommandTypes
  BY <1>1 DEF Init, CommandTypes, ClientStates
<1>3. QueueTypes
  BY DEF Init, QueueTypes, Nodes, NodeStates, TaskThreads
<1>4. polls \in 0..Polls /\ reply \in Replies
  BY ControlAssumption DEF Init, Replies
<1>5. ThreadTypes /\ NodeInv
  BY <1>4 DEF Init, ThreadTypes, NodeInv, MainPoints, ControlPoints
<1> QED
  BY <1>2, <1>3, <1>5

LEMMA MainNode ==
    ASSUME QueueTypes, ThreadTypes, NodeInv, MainStep
    PROVE  /\ main' \in {"INSERT", "PUBLISH"} => node'["main"] \in Nodes
           /\ control' = control /\ node'["control"] = node["control"]
<1>1. ASSUME NEW how, Die(how) PROVE UNCHANGED <<main, control, node>>
  BY <1>1 DEF Die, mainVars, controlVars, access
<1>2. ASSUME NEW n \in Nodes, NEW pc, AddThen(n, pc)
      PROVE  control' = control /\ node'["main"] = n /\ node'["control"] = node["control"]
  BY <1>2 DEF AddThen, controlVars, QueueTypes, TaskThreads
<1>3. ASSUME NEW pc, Goto(pc) PROVE main' = pc /\ control' = control
  BY <1>3 DEF Goto, controlVars
<1>4. CASE MainInserts
  <2>1. CASE main = "INSERT" /\ Goto("PUBLISH") /\ ReadHead("main")
    BY <1>3, <2>1 DEF ReadHead, NodeInv
  <2>2. CASE main = "PUBLISH" /\ Goto("UPDATE") /\ PublishNode("main")
    BY <1>3, <2>2 DEF PublishNode
  <2>3. CASE main = "PUBLISH" /\ Die("crashed")
    BY <1>1, <2>3 DEF NodeInv
  <2>4. CASE main = "UPDATE" /\ UpdateNode("main") /\ main' = back /\ UNCHANGED controlVars
    <3>1. node' = [node EXCEPT !["main"] = Nobody]
      BY <2>4 DEF UpdateNode
    <3>2. main' = back /\ control' = control
      BY <2>4 DEF controlVars
    <3> QED
      BY <3>1, <3>2 DEF QueueTypes, TaskThreads, ThreadTypes
  <2> QED
    BY <1>4, <2>1, <2>2, <2>3, <2>4 DEF MainInserts
<1>5. CASE BeginRound \/ NextTask \/ EndSession \/ CallReturns \/ CallFails \/ Pause \/ EndMain
  <2>1. UNCHANGED <<control, node>> /\ main' \notin {"INSERT", "PUBLISH"}
    BY <1>5 DEF BeginRound, NextTask, EndSession, CallReturns, CallFails, Pause, EndMain, Goto, access, controlVars
  <2> QED
    BY <2>1
<1>6. CASE CheckMonitors \/ Pick \/ PickAgain \/ Work \/ Exit
  <2>1. CASE \E how : Die(how)
    BY <1>1, <2>1 DEF NodeInv
  <2>2. CASE \E n \in Nodes : \E pc : AddThen(n, pc)
    BY <1>2, <2>2
  <2>3. CASE ~(\E how : Die(how)) /\ ~(\E n \in Nodes : \E pc : AddThen(n, pc))
    <3>1. UNCHANGED <<control, node>> /\ main' \notin {"INSERT", "PUBLISH"}
      BY <1>6, <2>3 DEF CheckMonitors, Pick, PickAgain, Work, Exit, Goto, access, controlVars, Nodes
    <3> QED
      BY <3>1
  <2> QED
    BY <2>1, <2>2, <2>3
<1> QED
  BY <1>4, <1>5, <1>6 DEF MainStep

LEMMA ControlNode ==
    ASSUME QueueTypes, NodeInv, ControlStep \/ ConfigStep
    PROVE  /\ control' \in {"INSERT", "PUBLISH"} => node'["control"] \in Nodes
           /\ main' = main /\ node'["main"] = node["main"]
<1>1. ASSUME NEW how, Die(how) PROVE UNCHANGED <<main, control, node>>
  BY <1>1 DEF Die, mainVars, controlVars, access
<1>2. ASSUME NEW pc, ControlGoto(pc) PROVE main' = main /\ control' = pc /\ UNCHANGED node
  BY <1>2 DEF ControlGoto, ControlMoves, mainVars, access
<1>3. ASSUME NEW pc, ControlMoves(pc) PROVE main' = main /\ control' = pc
  BY <1>3 DEF ControlMoves, mainVars
<1>4. CASE CallProtect \/ Accept \/ HasData \/ Poll \/ Verdict \/ SendAnswer \/ EndControl \/ GetInt
  <2>1. CASE SendAnswer
    BY <2>1 DEF SendAnswer, mainVars, access
  <2>2. CASE ~SendAnswer
    <3>1. \E pc : pc \notin {"INSERT", "PUBLISH"} /\ ControlGoto(pc)
      BY <1>4, <2>2 DEF CallProtect, Accept, HasData, Poll, Verdict, EndControl, GetInt
    <3> QED
      BY <1>2, <3>1
  <2> QED
    BY <2>1, <2>2
<1>5. CASE Stop
  BY <1>5 DEF Stop, mainVars, access
<1>6. CASE RecvData \/ Read
  <2>1. \/ \E how : Die(how)
        \/ \E pc : pc \notin {"INSERT", "PUBLISH"} /\ ControlGoto(pc)
    BY <1>6 DEF RecvData, Read
  <2> QED
    BY <1>1, <1>2, <2>1 DEF NodeInv
<1>7. CASE Add
  <2>1. \/ ControlGoto("ANSWER")
        \/ ControlMoves("INSERT") /\ \E t \in Tasks : node' = [node EXCEPT !["control"] = t]
    BY <1>7 DEF Add
  <2> QED
    BY <1>2, <1>3, <2>1 DEF QueueTypes, TaskThreads, Nodes
<1>8. CASE ControlInserts
  <2>1. CASE control = "INSERT" /\ ControlMoves("PUBLISH") /\ ReadHead("control")
    BY <1>3, <2>1 DEF ReadHead, NodeInv
  <2>2. CASE (ControlMoves("CONFIG") \/ ControlMoves("UPDATE")) /\ PublishNode("control")
    BY <1>3, <2>2 DEF PublishNode
  <2>3. CASE ControlMoves("ANSWER") /\ UpdateNode("control")
    BY <1>3, <2>3 DEF UpdateNode, QueueTypes, TaskThreads
  <2> QED
    BY <1>8, <2>1, <2>2, <2>3 DEF ControlInserts
<1>9. CASE Delete
  <2>1. \/ ControlMoves("ANSWER") /\ UNCHANGED node
        \/ ControlMoves("UNLINK") /\ \E t \in Tasks : node' = [node EXCEPT !["control"] = t]
    BY <1>9 DEF Delete, ControlGoto, access
  <2> QED
    BY <1>3, <2>1 DEF QueueTypes, TaskThreads
<1>10. CASE Unlink
  <2>1. CASE Die("crashed")
    BY <1>1, <2>1 DEF NodeInv
  <2>2. CASE ~Die("crashed")
    <3>1. ControlMoves("ANSWER") /\ node' = [node EXCEPT !["control"] = Nobody]
      BY <1>10, <2>2 DEF Unlink
    <3> QED
      BY <1>3, <3>1 DEF QueueTypes, TaskThreads
  <2> QED
    BY <2>1, <2>2
<1> QED
  BY <1>4, <1>5, <1>6, <1>7, <1>8, <1>9, <1>10 DEF ControlStep, ConfigStep

LEMMA NodeKept == TypeOK /\ NodeInv /\ [Next]_vars => NodeInv'
<1> SUFFICES ASSUME QueueTypes, ThreadTypes, NodeInv, [Next]_vars PROVE NodeInv'
  BY DEF TypeOK
<1>1. CASE MainStep
  BY <1>1, MainNode DEF NodeInv
<1>2. CASE ControlStep \/ ConfigStep
  BY <1>2, ControlNode DEF NodeInv
<1>3. ASSUME UNCHANGED <<access, mainVars, controlVars>> PROVE NodeInv'
  BY <1>3 DEF NodeInv, access, mainVars, controlVars
<1> QED
  BY <1>1, <1>2, <1>3, ClientQueueTypes DEF Next, vars

LEMMA TypesAlways == Spec => [](TypeOK /\ NodeInv)
<1>1. TypeOK /\ NodeInv /\ [Next]_vars => TypeOK' /\ NodeInv'
  BY QueueTypesKept, ThreadTypesKept, CommandTypesKept, NodeKept DEF TypeOK
<1> QED
  BY <1>1, InitTypes, PTL DEF Spec

\* Every variable keeps its type, for every number of commands that are given
\* at once and of tasks.
THEOREM ControlTypes == Spec => []TypeOK
BY TypesAlways, PTL

-----------------------------------------------------------------------------

\* The threads change status, the place of main, the port and what commands
\* are told together.
LEMMA StatusKept == TypeOK /\ StatusInv /\ [Next]_vars => StatusInv'
<1> SUFFICES ASSUME ThreadTypes, CommandTypes, StatusInv, [Next]_vars PROVE StatusInv'
  BY DEF TypeOK
<1>1. ASSUME UNCHANGED <<status, controlVars>>, main' = "ENDED" <=> main = "ENDED",
             \A c \in Clients : Told(c)' => Told(c)
      PROVE  StatusInv'
  BY <1>1 DEF StatusInv, controlVars
<1>2. ASSUME UNCHANGED cli PROVE \A c \in Clients : Told(c)' => Told(c)
  BY <1>2 DEF Told
<1>3. ASSUME NEW how, Die(how) PROVE StatusInv'
  BY <1>1, <1>3, HangUpTells DEF Die, mainVars
<1>4. CASE MainStep
  <2>1. CASE EndMain
    BY <1>2, <2>1 DEF EndMain, StatusInv, controlVars, cliVars
  <2>2. CASE \E how : Die(how)
    BY <1>3, <2>2
  <2>3. CASE ~EndMain /\ ~(\E how : Die(how))
    <3>1. main # "ENDED"
      BY <1>4, <2>3 DEF MainStep, MainInserts, BeginRound, CheckMonitors, NextTask, EndSession, Pick, PickAgain,
         CallReturns, CallFails, Work, Pause, Exit
    <3>2. UNCHANGED <<status, controlVars, cli>> /\ main' # "ENDED"
      BY <1>4, <2>3 DEF MainStep, MainInserts, BeginRound, CheckMonitors, NextTask, EndSession, Pick, PickAgain,
         CallReturns, CallFails, Work, Pause, Exit, Goto, AddThen, cliVars, ThreadTypes
    <3> QED
      BY <1>1, <1>2, <3>1, <3>2
  <2> QED
    BY <2>1, <2>2, <2>3
<1>5. CASE ~(\E how : Die(how)) /\ (CallProtect \/ Accept \/ RecvData \/ Read \/ Add \/ ControlInserts
                                  \/ Delete \/ Unlink \/ GetInt)
  <2>1. status = 1
    BY <1>5 DEF CallProtect, Accept, RecvData, Read, Add, ControlInserts, Delete, Unlink, GetInt, StatusInv
  <2>2. UNCHANGED <<status, main, cli>>
    BY <1>5 DEF CallProtect, Accept, RecvData, Read, Add, ControlInserts, Delete, Unlink, GetInt,
       Answer, ControlGoto, ControlMoves, mainVars
  <2>3. control' \in {"PROTECT", "ACCEPT", "LOOP", "LENGTH", "PROCESS"} \/ reply' = "done"
    BY <1>5 DEF CallProtect, Accept, RecvData, Read, Add, ControlInserts, Delete, Unlink, GetInt,
       Answer, ControlGoto, ControlMoves, StatusInv
  <2> QED
    BY <1>2, <2>1, <2>2, <2>3 DEF StatusInv
<1>9. CASE HasData
  <2>1. /\ status = 1 /\ UNCHANGED <<status, main>> /\ control' \in {"DATA", "LOOP"}
        /\ UNCHANGED cli \/ HangUp({serving})
    BY <1>9 DEF HasData, ControlGoto, ControlMoves, mainVars, StatusInv
  <2> QED
    BY <1>2, <2>1, HangUpTells DEF StatusInv
<1>12. CASE Stop
  <2>1. status = 1 /\ status' = 0 /\ UNCHANGED <<main, cli>> /\ control' = "POLL"
    BY <1>12 DEF Stop, StatusInv, mainVars, cliVars
  <2> QED
    BY <1>2, <2>1 DEF StatusInv
<1>13. CASE Poll
  <2>1. UNCHANGED <<status, main, cli>> /\ control' \in {"POLL", "VERDICT"}
    BY <1>13 DEF Poll, ControlGoto, ControlMoves, Answer, mainVars
  <2> QED
    BY <1>2, <2>1 DEF StatusInv
<1>14. CASE Verdict
  <2>1. /\ UNCHANGED <<status, main, cli>> /\ control' = "ANSWER"
        /\ status # -1 => reply' = "cannot stop"
    BY <1>14 DEF Verdict, ControlGoto, ControlMoves, Answer, mainVars
  <2> QED
    BY <1>2, <2>1 DEF StatusInv
<1>15. CASE SendAnswer
  <2>1. UNCHANGED <<status, main>> /\ control' = "LOOP" /\ control = "ANSWER"
    BY <1>15 DEF SendAnswer, ControlGoto, ControlMoves, mainVars
  <2>2. \A c \in Clients : Told(c)' => Told(c) \/ reply \in {"stopped", "silent"}
    BY <1>15 DEF SendAnswer, Told, CommandTypes
  <2> QED
    BY <2>1, <2>2 DEF StatusInv
<1>16. CASE EndControl
  <2>1. UNCHANGED <<status, main>> /\ control' = "ENDED"
    BY <1>16 DEF EndControl, ControlGoto, ControlMoves, mainVars
  <2>2. \A c \in Clients : Told(c)' => Told(c)
    BY <1>16, HangUpTells DEF EndControl
  <2> QED
    BY <2>1, <2>2 DEF StatusInv
<1>17. ASSUME NEW d \in Clients, ConnectClient(d) \/ SendLength(d) \/ SendRequest(d) \/ GiveUp(d) \/ Leave(d)
       PROVE  StatusInv'
  <2>1. UNCHANGED <<status, main, controlVars>>
    BY <1>17, ClientQueueTypes DEF mainVars
  <2>2. UNCHANGED cli \/ \E step \in {"waiting", "nothing", "left"} : cli' = [cli EXCEPT ![d] = step]
    BY <1>17 DEF ConnectClient, SendLength, SendRequest, GiveUp, Leave, Become
  <2>3. \A c \in Clients : Told(c)' => Told(c)
    BY <2>2 DEF Told, CommandTypes
  <2> QED
    BY <1>1, <2>1, <2>3
<1>18. CASE UNCHANGED vars
  BY <1>1, <1>2, <1>18 DEF vars, mainVars, cliVars
<1> QED
  BY <1>3, <1>4, <1>5, <1>9, <1>12, <1>13, <1>14, <1>15, <1>16, <1>17, <1>18
  DEF Next, ControlStep, ConfigStep

LEMMA StatusAlways == Spec => [](TypeOK /\ StatusInv)
<1>1. Init => StatusInv
  BY DEF Init, StatusInv, Told
<1> QED
  BY <1>1, StatusKept, ControlTypes, PTL DEF Spec

\* A stop that returns 0 returns when main has left its loop, however many
\* commands ask for one at once and however the polls and main interleave.
THEOREM StopIsTrue == Spec => []StoppedIsTrue
<1>1. StatusInv => StoppedIsTrue
  BY DEF StatusInv, StoppedIsTrue
<1> QED
  BY <1>1, StatusAlways, PTL

\* What writes to the queue needs a service that is not stopped.
LEMMA QueueStep ==
    ASSUME TypeOK, StatusInv, [Next]_vars, status = -1
    PROVE  UNCHANGED queue
<1>1. main = "ENDED" /\ control \in {"LOOP", "POLL", "VERDICT", "ANSWER", "ENDED"} /\ status # 1
  BY DEF StatusInv
<1>2. CASE MainStep
  BY <1>1, <1>2 DEF MainStep, MainInserts, BeginRound, CheckMonitors, NextTask, EndSession, Pick, PickAgain,
     CallReturns, CallFails, Work, Pause, EndMain, Exit, Die
<1>3. CASE ControlStep \/ ConfigStep
  BY <1>1, <1>3 DEF ControlStep, ConfigStep, CallProtect, Accept, HasData, RecvData, Read, Add, ControlInserts,
     Delete, Unlink, Stop, Poll, Verdict, SendAnswer, EndControl, GetInt, ControlGoto
<1> QED
  BY <1>2, <1>3, ClientQueueTypes DEF Next, vars

\* Nothing changes the queue once a command was told that the service has
\* stopped.
THEOREM StopIsQuiet == Spec => QuietOnceStopped
<1>1. TypeOK /\ StatusInv /\ [Next]_vars
        => [(\E c \in Clients : Told(c)) => UNCHANGED queue]_vars
  BY QueueStep DEF StatusInv
<1> QED
  BY <1>1, StatusAlways, PTL DEF Spec, QuietOnceStopped
=============================================================================
