-------------------------------- MODULE Config ---------------------------------
(***************************************************************************)
(* The configuration: a file that users edit, and the copy of it in memory *)
(* that every get_int and get_string brings up to date first, by asking    *)
(* inotify.                                                                *)
(*                                                                         *)
(* The object has no lock.  In the protect process one thread uses it, in  *)
(* the main process two do.  Versions of the file are numbered; what it    *)
(* says is its version and whether it is whole.                            *)
(***************************************************************************)
EXTENDS Integers, Sequences

CONSTANTS
    Threads,
    Starter,        \* the one that runs init
    MaxVersion,     \* edits, for TLC
    Broken          \* versions that parse_line finds an error in

ASSUME ConfigAssumption ==
    /\ Starter \in Threads
    /\ MaxVersion \in Nat
    /\ Broken \subseteq 0..MaxVersion

VARIABLES
    version,    \* of the file, the last one that was closed
    writing,    \* a program has it open and has truncated it
    watched,
    events,     \* of the file, in the inotify queue
    reported,   \* the version of the last of them
    config,     \* what is in memory
    at,         \* per thread, where it is
    want,       \* events it has still to read ...
    batch,      \* ... and those it has read
    draft,      \* what it has parsed
    value,      \* what it has found
    due         \* the version that was reported when it asked

fileVars == <<version, writing, reported>>
vars == <<fileVars, watched, events, config, at, want, batch, draft, value, due>>

Versions == 0..MaxVersion
Contents == [version : Versions \cup {-1}, text : {"whole", "part", "defaults"}]

\* After clear_config every get returns its default.
Cleared == [version |-> -1, text |-> "defaults"]

TypeOK ==
    /\ version \in Versions
    /\ writing \in BOOLEAN /\ watched \in BOOLEAN
    /\ events \in Seq({"IN_CLOSE_WRITE", "IN_MOVED_TO"})
    /\ reported \in Versions
    /\ config \in Contents
    /\ at \in [Threads -> {"IDLE", "READ", "NOTIFY", "PARSE", "STORE", "WATCH", "FIND", "USE"}]
    /\ want \in [Threads -> Nat] /\ batch \in [Threads -> Nat]
    /\ draft \in [Threads -> Contents] /\ value \in [Threads -> Contents]
    /\ due \in [Threads -> Versions]

\* init reads the file first and sets the watch then.
Init ==
    /\ version = 0 /\ writing = FALSE /\ reported = 0
    /\ watched = FALSE /\ events = << >>
    /\ config = Cleared
    /\ at = [t \in Threads |-> IF t = Starter THEN "PARSE" ELSE "IDLE"]
    /\ want = [t \in Threads |-> 0] /\ batch = [t \in Threads |-> 0]
    /\ draft = [t \in Threads |-> Cleared] /\ value = [t \in Threads |-> Cleared]
    /\ due = [t \in Threads |-> 0]

-----------------------------------------------------------------------------
(* The users' side. *)

\* The kernel drops an event that equals the last one unread.
Report(event) ==
    /\ events' = IF ~watched \/ (event = "IN_CLOSE_WRITE" /\ events # << >> /\ events[Len(events)] = event)
                 THEN events ELSE Append(events, event)
    /\ reported' = IF watched THEN version' ELSE reported

BeginWrite ==
    /\ ~writing /\ version < MaxVersion
    /\ writing' = TRUE
    /\ UNCHANGED <<version, reported, watched, events, config, at, want, batch, draft, value, due>>

EndWrite ==
    /\ writing
    /\ writing' = FALSE
    /\ version' = version + 1
    /\ Report("IN_CLOSE_WRITE")
    /\ UNCHANGED <<watched, config, at, want, batch, draft, value, due>>

\* Another file is moved to its place.
MoveIn ==
    /\ ~writing /\ version < MaxVersion
    /\ version' = version + 1
    /\ Report("IN_MOVED_TO")
    /\ UNCHANGED <<writing, watched, config, at, want, batch, draft, value, due>>

-----------------------------------------------------------------------------
(* get_string: Monitor::check, reread_config, find_section. *)

Goto(t, pc) == at' = [at EXCEPT ![t] = pc] /\ UNCHANGED <<fileVars, watched>>

CheckEvents(t, least) ==
    /\ at[t] = "IDLE" /\ watched
    /\ Goto(t, IF Len(events) < least THEN "FIND" ELSE "READ")
    /\ want' = [want EXCEPT ![t] = IF Len(events) < least THEN 0 ELSE Len(events)]
    /\ due' = [due EXCEPT ![t] = reported]
    /\ UNCHANGED <<events, config, batch, draft, value>>

\* A bug for the mutation runs: one event is not taken for a whole one.
CheckTwo(t) == CheckEvents(t, 2)

\* How many events there are to be read, if there is one.
Check(t) == CheckEvents(t, 1)

\* read() waits for an event if there is none.
ReadSome(t, n, last) ==
    /\ at[t] = "READ" /\ events # << >>
    /\ events' = SubSeq(events, n + 1, Len(events))
    /\ want' = [want EXCEPT ![t] = @ - n]
    /\ batch' = [batch EXCEPT ![t] = @ + n]
    /\ Goto(t, IF last THEN "NOTIFY" ELSE "READ")
    /\ UNCHANGED <<config, draft, value, due>>

Available(t) == IF Len(events) < want[t] THEN Len(events) ELSE want[t]

\* Bugs for the mutation runs: more is read than there is room for, or the loop
\* reads once more.
ReadEventsAll(t) == ReadSome(t, Len(events), TRUE)
ReadEventsMore(t) == ReadSome(t, Available(t), want[t] = 0)

\* The loop goes on until it has as many events as there were.
ReadEvents(t) == ReadSome(t, Available(t), Available(t) = want[t])

\* read_config, once for every event.
ClearConfig(t) ==
    /\ at[t] = "NOTIFY" /\ batch[t] > 0
    /\ config' = Cleared
    /\ batch' = [batch EXCEPT ![t] = @ - 1]
    /\ Goto(t, "PARSE")
    /\ UNCHANGED <<events, want, draft, value, due>>

\* One error, and all lines are dropped.
Text(v) == IF v \in Broken THEN "defaults" ELSE "whole"

\* The lines that are there; a version that is being written has some of them.
Parse(t) ==
    /\ at[t] = "PARSE"
    /\ LET v == IF writing THEN version + 1 ELSE version
           text == IF writing THEN {"part", "defaults"} ELSE {Text(v)}
       IN  \E x \in text : draft' = [draft EXCEPT ![t] = [version |-> v, text |-> x]]
    /\ Goto(t, "STORE")
    /\ UNCHANGED <<events, config, want, batch, value, due>>

StoreConfig(t) ==
    /\ at[t] = "STORE"
    /\ config' = draft[t]
    /\ Goto(t, IF watched THEN "NOTIFY" ELSE "WATCH")
    /\ UNCHANGED <<events, want, batch, draft, value, due>>

SetWatch(t) ==
    /\ at[t] = "WATCH"
    /\ watched' = TRUE
    /\ at' = [at EXCEPT ![t] = "IDLE"]
    /\ UNCHANGED <<fileVars, events, config, want, batch, draft, value, due>>

EndCheck(t) ==
    /\ at[t] = "NOTIFY" /\ batch[t] = 0
    /\ Goto(t, "FIND")
    /\ UNCHANGED <<events, config, want, batch, draft, value, due>>

Find(t) ==
    /\ at[t] = "FIND"
    /\ value' = [value EXCEPT ![t] = config]
    /\ Goto(t, "USE")
    /\ UNCHANGED <<events, config, want, batch, draft, due>>

Return(t) ==
    /\ at[t] = "USE"
    /\ Goto(t, "IDLE")
    /\ UNCHANGED <<events, config, want, batch, draft, value, due>>

-----------------------------------------------------------------------------

GoOn(t) ==
    \/ ReadEvents(t) \/ ClearConfig(t) \/ Parse(t) \/ StoreConfig(t) \/ SetWatch(t)
    \/ EndCheck(t) \/ Find(t) \/ Return(t)

Next ==
    \/ BeginWrite \/ EndWrite \/ MoveIn
    \/ \E t \in Threads : Check(t) \/ GoOn(t)

Spec == Init /\ [][Next]_vars

\* A thread that is in a call goes on with it.
FairSpec == Spec /\ \A t \in Threads : WF_vars(GoOn(t))

-----------------------------------------------------------------------------
(* Properties. *)

\* A get finds at least the version that was reported when it was called.  When
\* no thread rereads and no event waits, memory holds exactly what the file
\* says, unless its last change came between init's read and its watch.
Current ==
    /\ \A t \in Threads : at[t] = "USE" => value[t].version >= due[t]
    /\ /\ \A t \in Threads : at[t] \in {"IDLE", "FIND", "USE"}
       /\ watched /\ events = << >> /\ ~writing /\ reported = version
       => config = [version |-> version, text |-> Text(version)]

\* Every get returns: a read() that was announced finds its events.
Returns == \A t \in Threads : at[t] # "IDLE" ~> at[t] = "IDLE"
=============================================================================
