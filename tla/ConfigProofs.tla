----------------------------- MODULE ConfigProofs -----------------------------
(***************************************************************************)
(* Theorems about Config, for any number of edits and any broken versions: *)
(* types with any threads, and with one thread, as in the protect process, *)
(* that no get finds less than what was reported when it was called.       *)
(***************************************************************************)
EXTENDS Config, SequenceTheorems, TLAPS

-----------------------------------------------------------------------------
(* The invariant *)

OneThread == \E t \in Threads : Threads = {t}

\* An edit that has begun is counted; a report is of a version there was.
EditsCounted ==
    /\ writing => version < MaxVersion
    /\ reported <= version
    /\ \A t \in Threads : due[t] <= reported

\* Before the watch nothing is reported.
FirstRead(t) ==
    ~watched => /\ reported = 0 /\ events = << >>
                /\ at[t] \in {"PARSE", "STORE", "WATCH"} /\ batch[t] = 0

\* The events that were there when the thread asked are still there to be read,
\* and each that it has read has it reread the file.
Reading(t) ==
    /\ at[t] = "READ" => 1 <= want[t] /\ want[t] <= Len(events)
    /\ at[t] \notin {"NOTIFY", "PARSE", "STORE"} => batch[t] = 0

\* If no event waits, this is as new as what was reported, and if nothing has
\* changed since, it is what the file says.
Settled(c) ==
    events = << >> =>
        /\ c.version >= reported
        /\ ~writing /\ reported = version => c = [version |-> version, text |-> Text(version)]

\* Not about to reread the file.
Rests(t) == at[t] \in {"IDLE", "FIND", "USE", "WATCH"} \/ (at[t] = "NOTIFY" /\ batch[t] = 0)

Found(t) ==
    /\ at[t] = "STORE" => Settled(draft[t]) /\ draft[t].version >= due[t]
    /\ Rests(t) => Settled(config)
    /\ Rests(t) /\ at[t] \in {"NOTIFY", "FIND"} => config.version >= due[t]
    /\ at[t] = "USE" => value[t].version >= due[t]

AloneInv(t) == FirstRead(t) /\ Reading(t) /\ Found(t)

ConfigInv ==
    /\ TypeOK
    /\ EditsCounted
    /\ \A t \in Threads : Threads = {t} => AloneInv(t)

-----------------------------------------------------------------------------
(* Types and edits, for any threads *)

LEMMA ContentsFields ==
    /\ Cleared \in Contents
    /\ \A v \in Versions : \A x \in {"whole", "part", "defaults"} :
          [version |-> v, text |-> x] \in Contents
    /\ \A v \in Versions : Text(v) \in {"whole", "part", "defaults"}
BY DEF Cleared, Contents, Text

\* The thread's place, what it reads and what it has found.
ThreadTypes ==
    /\ at \in [Threads -> {"IDLE", "READ", "NOTIFY", "PARSE", "STORE", "WATCH", "FIND", "USE"}]
    /\ want \in [Threads -> Nat] /\ batch \in [Threads -> Nat]
    /\ draft \in [Threads -> Contents] /\ value \in [Threads -> Contents]
    /\ due \in [Threads -> Versions]

\* What the threads share.
SharedTypes ==
    /\ version \in Versions
    /\ writing \in BOOLEAN /\ watched \in BOOLEAN
    /\ events \in Seq({"IN_CLOSE_WRITE", "IN_MOVED_TO"})
    /\ reported \in Versions
    /\ config \in Contents

LEMMA TypeParts == TypeOK <=> ThreadTypes /\ SharedTypes
BY DEF TypeOK, ThreadTypes, SharedTypes

LEMMA InitTypes == Init => TypeOK /\ EditsCounted
<1> SUFFICES ASSUME Init PROVE TypeOK /\ EditsCounted
    OBVIOUS
<1>1. 0 \in Versions /\ MaxVersion \in Nat
    BY ConfigAssumption DEF Versions
<1>2. ThreadTypes
    BY <1>1, ContentsFields DEF Init, ThreadTypes
<1>3. SharedTypes
    <2>1. << >> \in Seq({"IN_CLOSE_WRITE", "IN_MOVED_TO"})
        OBVIOUS
    <2> QED BY <1>1, <2>1, ContentsFields DEF Init, SharedTypes
<1>4. EditsCounted
    BY <1>1 DEF Init, EditsCounted
<1> QED BY <1>2, <1>3, <1>4, TypeParts

LEMMA ReportEffect ==
    ASSUME SharedTypes, NEW e \in {"IN_CLOSE_WRITE", "IN_MOVED_TO"}, Report(e), version' \in Versions
    PROVE  /\ events' \in Seq({"IN_CLOSE_WRITE", "IN_MOVED_TO"}) /\ reported' \in Versions
           /\ Len(events) <= Len(events')
           /\ watched => events' # << >> /\ reported' = version'
           /\ ~watched => events' = events /\ reported' = reported
<1> DEFINE Kinds == {"IN_CLOSE_WRITE", "IN_MOVED_TO"}
<1>1. events \in Seq(Kinds) /\ Len(events) \in Nat /\ reported \in Versions /\ watched \in BOOLEAN
    BY DEF SharedTypes
<1>2. Append(events, e) \in Seq(Kinds) /\ Len(Append(events, e)) = Len(events) + 1
    BY <1>1
<1>3. Append(events, e) # << >>
    BY <1>1, <1>2
<1>4. events' = events \/ events' = Append(events, e)
    BY DEF Report
<1>5. watched => events' # << >>
    BY <1>3 DEF Report
<1> QED BY <1>1, <1>2, <1>4, <1>5 DEF Report

LEMMA EditTypes ==
    ASSUME TypeOK, EditsCounted, BeginWrite \/ EndWrite \/ MoveIn
    PROVE  TypeOK' /\ EditsCounted'
<1>1. ThreadTypes /\ SharedTypes
    BY TypeParts
<1>2. version \in Nat /\ reported \in Nat /\ MaxVersion \in Nat /\ \A t \in Threads : due[t] \in Nat
    BY <1>1, ConfigAssumption DEF ThreadTypes, SharedTypes, Versions
<1>3. ThreadTypes' /\ due' = due
    BY <1>1 DEF BeginWrite, EndWrite, MoveIn, ThreadTypes
<1>4. CASE BeginWrite
    <2>1. SharedTypes' /\ EditsCounted'
        BY <1>1, <1>2, <1>4 DEF BeginWrite, SharedTypes, EditsCounted
    <2> QED BY <1>3, <2>1 DEF TypeOK, ThreadTypes, SharedTypes
<1>5. CASE EndWrite \/ MoveIn
    <2>1. /\ version' = version + 1 /\ version < MaxVersion /\ writing' = FALSE
          /\ UNCHANGED <<watched, config>>
        BY <1>5, <1>2 DEF EndWrite, MoveIn, EditsCounted
    <2>2. version' \in Versions
        BY <1>2, <2>1 DEF Versions
    <2>3. /\ events' \in Seq({"IN_CLOSE_WRITE", "IN_MOVED_TO"}) /\ reported' \in Versions
          /\ (watched => reported' = version') /\ (~watched => reported' = reported)
        BY <1>1, <1>5, <2>2, ReportEffect DEF EndWrite, MoveIn
    <2>4. SharedTypes'
        BY <1>1, <2>1, <2>2, <2>3 DEF SharedTypes
    <2>5. EditsCounted'
        BY <1>1, <1>2, <1>3, <2>1, <2>3 DEF EditsCounted, SharedTypes
    <2> QED BY <1>3, <2>4, <2>5 DEF TypeOK, ThreadTypes, SharedTypes
<1> QED BY <1>4, <1>5

LEMMA AvailableEvents ==
    ASSUME TypeOK, NEW t \in Threads
    PROVE  /\ Available(t) \in Nat /\ Available(t) <= want[t] /\ Available(t) <= Len(events)
           /\ want[t] <= Len(events) => Available(t) = want[t]
           /\ SubSeq(events, Available(t) + 1, Len(events)) \in Seq({"IN_CLOSE_WRITE", "IN_MOVED_TO"})
<1>1. want[t] \in Nat /\ Len(events) \in Nat /\ events \in Seq({"IN_CLOSE_WRITE", "IN_MOVED_TO"})
    BY DEF TypeOK
<1>2. /\ Available(t) \in Nat /\ Available(t) <= want[t] /\ Available(t) <= Len(events)
      /\ want[t] <= Len(events) => Available(t) = want[t]
    BY <1>1 DEF Available
<1>3. \A i \in (Available(t) + 1)..Len(events) : events[i] \in {"IN_CLOSE_WRITE", "IN_MOVED_TO"}
    BY <1>1, <1>2
<1>4. SubSeq(events, Available(t) + 1, Len(events)) \in Seq({"IN_CLOSE_WRITE", "IN_MOVED_TO"})
    <2>1. Available(t) + 1 \in Int /\ Len(events) \in Int
        BY <1>1, <1>2
    <2> HIDE DEF Available
    <2> QED BY <1>3, <2>1, SubSeqProperties
<1> QED BY <1>2, <1>4

LEMMA GetTypes ==
    ASSUME TypeOK, EditsCounted, NEW t \in Threads, Check(t) \/ GoOn(t)
    PROVE  TypeOK' /\ EditsCounted'
<1>1. ThreadTypes /\ SharedTypes
    BY TypeParts
<1>2. /\ version \in Nat /\ reported \in Nat /\ MaxVersion \in Nat
      /\ \A x \in Threads : due[x] \in Nat /\ want[x] \in Nat /\ batch[x] \in Nat
      /\ Len(events) \in Nat
    BY <1>1, ConfigAssumption DEF ThreadTypes, SharedTypes, Versions
<1>3. UNCHANGED <<version, writing, reported>>
    BY DEF GoOn, Check, CheckEvents, ReadEvents, ReadSome, ClearConfig, Parse, StoreConfig, SetWatch,
           EndCheck, Find, Return, Goto, fileVars
<1>4. CASE Check(t)
    <2>1. ThreadTypes'
        BY <1>1, <1>2, <1>4 DEF Check, CheckEvents, Goto, ThreadTypes, SharedTypes
    <2>2. SharedTypes'
        BY <1>1, <1>3, <1>4 DEF Check, CheckEvents, Goto, SharedTypes
    <2>3. EditsCounted'
        BY <1>1, <1>2, <1>3, <1>4 DEF Check, CheckEvents, EditsCounted, ThreadTypes
    <2> QED BY <2>1, <2>2, <2>3 DEF TypeOK, ThreadTypes, SharedTypes
<1>5. CASE ReadEvents(t)
    <2>1. /\ Available(t) \in Nat /\ Available(t) <= want[t]
          /\ SubSeq(events, Available(t) + 1, Len(events)) \in Seq({"IN_CLOSE_WRITE", "IN_MOVED_TO"})
        BY AvailableEvents
    <2>2. want[t] - Available(t) \in Nat /\ batch[t] + Available(t) \in Nat
        BY <1>2, <2>1
    <2>3. /\ want' = [want EXCEPT ![t] = @ - Available(t)]
          /\ batch' = [batch EXCEPT ![t] = @ + Available(t)]
          /\ at' = [at EXCEPT ![t] = IF Available(t) = want[t] THEN "NOTIFY" ELSE "READ"]
          /\ events' = SubSeq(events, Available(t) + 1, Len(events))
          /\ UNCHANGED <<config, draft, value, due, watched>>
        BY <1>5 DEF ReadEvents, ReadSome, Goto
    <2>4. ThreadTypes'
        BY <1>1, <2>2, <2>3 DEF ThreadTypes
    <2>5. SharedTypes' /\ EditsCounted'
        BY <1>1, <1>3, <2>1, <2>3 DEF SharedTypes, EditsCounted
    <2> QED BY <2>4, <2>5 DEF TypeOK, ThreadTypes, SharedTypes
<1>6. CASE ClearConfig(t)
    <2>1. ThreadTypes'
        BY <1>1, <1>2, <1>6 DEF ClearConfig, Goto, ThreadTypes
    <2>2. SharedTypes' /\ EditsCounted'
        BY <1>1, <1>3, <1>6, ContentsFields DEF ClearConfig, Goto, SharedTypes, EditsCounted
    <2> QED BY <2>1, <2>2 DEF TypeOK, ThreadTypes, SharedTypes
<1>7. CASE Parse(t)
    <2> DEFINE v == IF writing THEN version + 1 ELSE version
    <2>1. PICK x \in IF writing THEN {"part", "defaults"} ELSE {Text(v)} :
              draft' = [draft EXCEPT ![t] = [version |-> v, text |-> x]]
        BY <1>7 DEF Parse
    <2>2. v \in Versions
        BY <1>1, <1>2 DEF Versions, EditsCounted, SharedTypes
    <2>3. x \in {"whole", "part", "defaults"}
        BY <2>1, <2>2, ContentsFields
    <2>4. [version |-> v, text |-> x] \in Contents
        BY <2>2, <2>3, ContentsFields
    <2> HIDE DEF v
    <2>5. ThreadTypes'
        BY <1>1, <1>7, <2>1, <2>4 DEF Parse, Goto, ThreadTypes
    <2>6. SharedTypes' /\ EditsCounted'
        BY <1>1, <1>3, <1>7 DEF Parse, Goto, SharedTypes, EditsCounted
    <2> QED BY <2>5, <2>6 DEF TypeOK, ThreadTypes, SharedTypes
<1>8. CASE StoreConfig(t)
    <2>1. ThreadTypes'
        BY <1>1, <1>8 DEF StoreConfig, Goto, ThreadTypes
    <2>2. SharedTypes' /\ EditsCounted'
        BY <1>1, <1>3, <1>8 DEF StoreConfig, Goto, SharedTypes, EditsCounted, ThreadTypes
    <2> QED BY <2>1, <2>2 DEF TypeOK, ThreadTypes, SharedTypes
<1>9. CASE SetWatch(t)
    <2>1. ThreadTypes' /\ SharedTypes' /\ EditsCounted'
        BY <1>1, <1>3, <1>9 DEF SetWatch, SharedTypes, EditsCounted, ThreadTypes
    <2> QED BY <2>1 DEF TypeOK, ThreadTypes, SharedTypes
<1>10. CASE EndCheck(t)
    <2>1. ThreadTypes' /\ SharedTypes' /\ EditsCounted'
        BY <1>1, <1>3, <1>10 DEF EndCheck, Goto, SharedTypes, EditsCounted, ThreadTypes
    <2> QED BY <2>1 DEF TypeOK, ThreadTypes, SharedTypes
<1>11. CASE Find(t)
    <2>1. ThreadTypes' /\ SharedTypes' /\ EditsCounted'
        BY <1>1, <1>3, <1>11 DEF Find, Goto, SharedTypes, EditsCounted, ThreadTypes
    <2> QED BY <2>1 DEF TypeOK, ThreadTypes, SharedTypes
<1>12. CASE Return(t)
    <2>1. ThreadTypes' /\ SharedTypes' /\ EditsCounted'
        BY <1>1, <1>3, <1>12 DEF Return, Goto, SharedTypes, EditsCounted, ThreadTypes
    <2> QED BY <2>1 DEF TypeOK, ThreadTypes, SharedTypes
<1> QED BY <1>4, <1>5, <1>6, <1>7, <1>8, <1>9, <1>10, <1>11, <1>12 DEF GoOn

-----------------------------------------------------------------------------
(* One thread *)

LEMMA AloneTypes ==
    ASSUME TypeOK, EditsCounted, NEW t \in Threads
    PROVE  /\ version \in Nat /\ reported \in Nat /\ reported <= version
           /\ due[t] \in Nat /\ due[t] <= reported /\ want[t] \in Nat /\ batch[t] \in Nat
           /\ config.version \in Int /\ draft[t].version \in Int /\ value[t].version \in Int
           /\ Len(events) \in Nat /\ (events = << >> <=> Len(events) = 0)
           /\ at[t] \in {"IDLE", "READ", "NOTIFY", "PARSE", "STORE", "WATCH", "FIND", "USE"}
<1>1. /\ version \in Nat /\ reported \in Nat /\ reported <= version
      /\ due[t] \in Nat /\ due[t] <= reported /\ want[t] \in Nat /\ batch[t] \in Nat
    BY ConfigAssumption DEF TypeOK, EditsCounted, Versions
<1>2. Len(events) \in Nat /\ (events = << >> <=> Len(events) = 0)
    BY DEF TypeOK
<1>3. \A c \in Contents : c.version \in Int
    BY ConfigAssumption DEF Contents, Versions
<1> QED BY <1>1, <1>2, <1>3 DEF TypeOK

LEMMA InitAlone ==
    ASSUME Init, NEW t \in Threads, Threads = {t}
    PROVE  AloneInv(t)
<1>1. t = Starter
    BY ConfigAssumption
<1>2. at[t] = "PARSE" /\ batch[t] = 0 /\ reported = 0 /\ events = << >>
    BY <1>1 DEF Init
<1> QED BY <1>2 DEF AloneInv, FirstRead, Reading, Found, Rests

\* An edit leaves the thread where it is.  What is settled stays so: either an
\* event waits now, or the edit is not reported and not counted as known.
LEMMA EditAlone ==
    ASSUME TypeOK, EditsCounted, NEW t \in Threads, AloneInv(t), BeginWrite \/ EndWrite \/ MoveIn
    PROVE  AloneInv(t)'
<1>1. UNCHANGED <<watched, config, at, want, batch, draft, value, due>>
    BY DEF BeginWrite, EndWrite, MoveIn
<1>2. SharedTypes
    BY TypeParts
<1>3. CASE BeginWrite
    <2>1. events' = events /\ reported' = reported /\ version' = version /\ writing' = TRUE
        BY <1>3 DEF BeginWrite
    <2>2. \A c : Settled(c) => Settled(c)'
        BY <2>1 DEF Settled
    <2> QED BY <1>1, <2>1, <2>2 DEF AloneInv, FirstRead, Reading, Found, Rests, Settled
<1>4. CASE EndWrite \/ MoveIn
    <2>1. version \in Nat /\ reported \in Nat /\ reported <= version /\ version' = version + 1
          /\ Len(events) \in Nat /\ watched \in BOOLEAN /\ want[t] \in Nat
        BY <1>2, <1>4, AloneTypes DEF EndWrite, MoveIn, SharedTypes
    <2>2. version' \in Versions
        BY <1>4, EditTypes DEF TypeOK
    <2>3. /\ Len(events) <= Len(events')
          /\ watched => events' # << >> /\ reported' = version'
          /\ ~watched => events' = events /\ reported' = reported
        BY <1>2, <1>4, <2>2, ReportEffect DEF EndWrite, MoveIn
    <2>4. Len(events') \in Nat
        BY <1>4, EditTypes DEF TypeOK
    <2>5. CASE watched
        BY <1>1, <2>1, <2>3, <2>4, <2>5 DEF AloneInv, FirstRead, Reading, Found, Rests, Settled
    <2>6. CASE ~watched
        <3>1. reported' # version'
            BY <2>1, <2>3, <2>6
        <3> QED BY <1>1, <2>1, <2>3, <2>6, <3>1 DEF AloneInv, FirstRead, Reading, Found, Rests, Settled
    <2> QED BY <2>1, <2>5, <2>6
<1> QED BY <1>3, <1>4

LEMMA GetAlone ==
    ASSUME TypeOK, EditsCounted, NEW t \in Threads, AloneInv(t), Check(t) \/ GoOn(t)
    PROVE  AloneInv(t)'
<1>1. ThreadTypes /\ SharedTypes
    BY TypeParts
<1>2. /\ version \in Nat /\ reported \in Nat /\ reported <= version
      /\ due[t] \in Nat /\ due[t] <= reported /\ want[t] \in Nat /\ batch[t] \in Nat
      /\ config.version \in Int /\ draft[t].version \in Int /\ value[t].version \in Int
      /\ Len(events) \in Nat /\ (events = << >> <=> Len(events) = 0)
    BY AloneTypes
<1>3. FirstRead(t) /\ Reading(t) /\ Found(t)
    BY DEF AloneInv
<1>4. CASE Check(t)
    <2>1. /\ at[t] = "IDLE" /\ watched /\ batch[t] = 0 /\ Settled(config)
          /\ UNCHANGED <<version, writing, reported, watched, events, config, batch, draft, value>>
        BY <1>3, <1>4 DEF Check, CheckEvents, Goto, fileVars, Reading, Found, Rests
    <2>2. CASE Len(events) < 1
        <3>1. at'[t] = "FIND" /\ due'[t] = reported
            BY <1>1, <1>4, <2>2 DEF Check, CheckEvents, Goto, ThreadTypes
        <3>2. config.version >= reported
            BY <1>2, <2>1, <2>2 DEF Settled
        <3> QED BY <2>1, <3>1, <3>2 DEF AloneInv, FirstRead, Reading, Found, Rests, Settled
    <2>3. CASE ~(Len(events) < 1)
        <3>1. at'[t] = "READ" /\ want'[t] = Len(events)
            BY <1>1, <1>4, <2>3 DEF Check, CheckEvents, Goto, ThreadTypes
        <3>2. 1 <= Len(events)
            BY <1>2, <2>3
        <3> QED BY <1>2, <2>1, <3>1, <3>2 DEF AloneInv, FirstRead, Reading, Found, Rests
    <2> QED BY <2>2, <2>3
<1>5. CASE ReadEvents(t)
    <2>1. at[t] = "READ" /\ 1 <= want[t] /\ want[t] <= Len(events) /\ batch[t] = 0 /\ watched
        BY <1>1, <1>3, <1>5 DEF ReadEvents, ReadSome, Reading, FirstRead, SharedTypes
    <2>2. Available(t) = want[t]
        BY <2>1, AvailableEvents
    <2>3. at'[t] = "NOTIFY" /\ batch'[t] = want[t] /\ watched' = watched
        BY <1>1, <1>2, <1>5, <2>1, <2>2 DEF ReadEvents, ReadSome, Goto, ThreadTypes
    <2>4. batch'[t] # 0
        BY <1>2, <2>1, <2>3
    <2> QED BY <2>1, <2>3, <2>4 DEF AloneInv, FirstRead, Reading, Found, Rests
<1>6. CASE ClearConfig(t)
    <2>1. at[t] = "NOTIFY" /\ watched /\ at'[t] = "PARSE" /\ watched' = watched
        BY <1>1, <1>3, <1>6 DEF ClearConfig, Goto, FirstRead, ThreadTypes, SharedTypes
    <2> QED BY <2>1 DEF AloneInv, FirstRead, Reading, Found, Rests
<1>7. CASE Parse(t)
    <2> DEFINE v == IF writing THEN version + 1 ELSE version
    <2>1. PICK x \in IF writing THEN {"part", "defaults"} ELSE {Text(v)} :
              draft' = [draft EXCEPT ![t] = [version |-> v, text |-> x]]
        BY <1>7 DEF Parse
    <2>2. /\ at[t] = "PARSE" /\ at'[t] = "STORE" /\ draft'[t] = [version |-> v, text |-> x]
          /\ UNCHANGED <<version, writing, reported, watched, events, batch, due>>
        BY <1>1, <1>7, <2>1 DEF Parse, Goto, fileVars, ThreadTypes
    <2>3. draft'[t].version = v /\ v >= version /\ v \in Nat
        BY <1>2, <2>2
    <2>4. draft'[t].version >= reported /\ draft'[t].version >= due[t]
        BY <1>2, <2>3
    <2>5. ~writing => draft'[t] = [version |-> version, text |-> Text(version)]
        BY <2>1, <2>2
    <2> QED BY <1>3, <2>2, <2>4, <2>5 DEF AloneInv, FirstRead, Reading, Found, Rests, Settled
<1>8. CASE StoreConfig(t)
    <2>1. /\ at[t] = "STORE" /\ Settled(draft[t]) /\ draft[t].version >= due[t] /\ config' = draft[t]
          /\ at'[t] = IF watched THEN "NOTIFY" ELSE "WATCH"
          /\ UNCHANGED <<version, writing, reported, watched, events, batch, due>>
        BY <1>1, <1>3, <1>8 DEF StoreConfig, Goto, fileVars, ThreadTypes, Found
    <2>2. Settled(config)'
        BY <2>1 DEF Settled
    <2>3. config'.version >= due'[t]
        BY <2>1
    <2> QED BY <1>1, <1>3, <2>1, <2>2, <2>3 DEF AloneInv, FirstRead, Reading, Found, Rests
<1>9. CASE SetWatch(t)
    <2>1. /\ at[t] = "WATCH" /\ at'[t] = "IDLE" /\ watched' = TRUE /\ Settled(config) /\ batch[t] = 0
          /\ UNCHANGED <<version, writing, reported, events, config, batch>>
        BY <1>1, <1>3, <1>9 DEF SetWatch, fileVars, ThreadTypes, Found, Rests, Reading
    <2>2. Settled(config)'
        BY <2>1 DEF Settled
    <2> QED BY <2>1, <2>2 DEF AloneInv, FirstRead, Reading, Found, Rests
<1>10. CASE EndCheck(t)
    <2>1. /\ at[t] = "NOTIFY" /\ at'[t] = "FIND" /\ watched /\ batch[t] = 0
          /\ UNCHANGED <<version, writing, reported, watched, events, config, batch, due>>
        BY <1>1, <1>3, <1>10 DEF EndCheck, Goto, fileVars, ThreadTypes, FirstRead, SharedTypes
    <2>2. Settled(config) /\ config.version >= due[t]
        BY <1>3, <2>1 DEF Found, Rests
    <2>3. Settled(config)'
        BY <2>1, <2>2 DEF Settled
    <2> QED BY <2>1, <2>2, <2>3 DEF AloneInv, FirstRead, Reading, Found, Rests
<1>11. CASE Find(t)
    <2>1. /\ at[t] = "FIND" /\ at'[t] = "USE" /\ watched /\ batch[t] = 0 /\ value'[t] = config
          /\ UNCHANGED <<version, writing, reported, watched, events, config, batch, due>>
        BY <1>1, <1>3, <1>11 DEF Find, Goto, fileVars, ThreadTypes, FirstRead, SharedTypes, Reading
    <2>2. Settled(config) /\ config.version >= due[t]
        BY <1>3, <2>1 DEF Found, Rests
    <2>3. Settled(config)'
        BY <2>1, <2>2 DEF Settled
    <2> QED BY <2>1, <2>2, <2>3 DEF AloneInv, FirstRead, Reading, Found, Rests
<1>12. CASE Return(t)
    <2>1. /\ at[t] = "USE" /\ at'[t] = "IDLE" /\ watched /\ batch[t] = 0
          /\ UNCHANGED <<version, writing, reported, watched, events, config, batch>>
        BY <1>1, <1>3, <1>12 DEF Return, Goto, fileVars, ThreadTypes, FirstRead, SharedTypes, Reading
    <2>2. Settled(config)
        BY <1>3, <2>1 DEF Found, Rests
    <2>3. Settled(config)'
        BY <2>1, <2>2 DEF Settled
    <2> QED BY <2>1, <2>3 DEF AloneInv, FirstRead, Reading, Found, Rests
<1> QED BY <1>4, <1>5, <1>6, <1>7, <1>8, <1>9, <1>10, <1>11, <1>12 DEF GoOn

-----------------------------------------------------------------------------
(* The theorems *)

LEMMA InitInv == Init => ConfigInv
BY InitTypes, InitAlone DEF ConfigInv

LEMMA NextInv == ConfigInv /\ [Next]_vars => ConfigInv'
<1> SUFFICES ASSUME ConfigInv, [Next]_vars PROVE ConfigInv'
    OBVIOUS
<1>1. TypeOK /\ EditsCounted
    BY DEF ConfigInv
<1>2. CASE BeginWrite \/ EndWrite \/ MoveIn
    <2>1. \A t \in Threads : Threads = {t} => AloneInv(t)'
        BY <1>1, <1>2, EditAlone DEF ConfigInv
    <2> QED BY <1>1, <1>2, <2>1, EditTypes DEF ConfigInv
<1>3. ASSUME NEW t \in Threads, Check(t) \/ GoOn(t) PROVE ConfigInv'
    <2>1. ASSUME NEW x \in Threads, Threads = {x} PROVE AloneInv(x)'
        <3>1. x = t /\ AloneInv(t)
            BY <2>1 DEF ConfigInv
        <3>2. AloneInv(t)'
            BY <1>1, <1>3, <3>1, GetAlone
        <3> QED BY <3>1, <3>2
    <2>2. TypeOK' /\ EditsCounted'
        BY <1>1, <1>3, GetTypes
    <2> QED BY <2>1, <2>2 DEF ConfigInv
<1>4. CASE UNCHANGED vars
    <2>1. TypeOK' /\ EditsCounted'
        BY <1>1, <1>4 DEF vars, fileVars, TypeOK, EditsCounted
    <2>2. ASSUME NEW t \in Threads, Threads = {t} PROVE AloneInv(t)'
        <3>1. AloneInv(t)
            BY <2>2 DEF ConfigInv
        <3> QED BY <1>4, <3>1 DEF vars, fileVars, AloneInv, FirstRead, Reading, Found, Rests, Settled
    <2> QED BY <2>1, <2>2 DEF ConfigInv
<1> QED BY <1>2, <1>3, <1>4 DEF Next

LEMMA InvAlways == Spec => []ConfigInv
BY InitInv, NextInv, PTL DEF Spec

\* Every variable has its type, with any threads and however they interleave.
THEOREM ConfigTypeOK == Spec => []TypeOK
<1>1. ConfigInv => TypeOK
    BY DEF ConfigInv
<1> QED BY <1>1, InvAlways, PTL

\* With one thread, as in the protect process: what a get finds is at least what
\* was reported when it was called, and between edits memory is what the file
\* says (get_string, Monitor::check, read_config).  With two threads it is not
\* so: one clears what the other searches.
THEOREM GetsAreCurrent == ASSUME OneThread PROVE Spec => []Current
<1>1. ConfigInv => Current
    <2> SUFFICES ASSUME ConfigInv PROVE Current
        OBVIOUS
    <2>1. PICK t \in Threads : Threads = {t}
        BY DEF OneThread
    <2>2. Found(t)
        BY <2>1 DEF ConfigInv, AloneInv
    <2>3. at[t] = "USE" => value[t].version >= due[t]
        BY <2>2 DEF Found
    <2>4. /\ at[t] \in {"IDLE", "FIND", "USE"} /\ events = << >> /\ ~writing /\ reported = version
          => config = [version |-> version, text |-> Text(version)]
        BY <2>2 DEF Found, Rests, Settled
    <2> QED BY <2>1, <2>3, <2>4 DEF Current
<1> QED BY <1>1, InvAlways, PTL

=============================================================================
