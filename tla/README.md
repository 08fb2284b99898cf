# A TLA+ model of nbftp

nbftp moves files and messages between a server and a client that lose their
connection often. Each side is a daemon with a queue of tasks to send and a
queue of tasks received, both kept on disk; a monitored directory and a control
port feed the queues, a shell command is run for what arrives, and a second
process restarts the daemon if it dies. This directory holds TLA+ modules for
these parts, TLC configurations that check them, and proofs for TLAPS.

## 1. Inventory

| part | source | state | operations | must be true |
|---|---|---|---|---|
| transfer protocol, session loops | `communication.cpp`, `nbftp_server.cpp` | where each peer is in `send_task`/`receive_task`, the copy of the task it waits for, the connection | `send_tasks`, `receive_tasks`, `process_task` | what is acknowledged was delivered; the two loops never both speak; everything is sent in the end |
| task operations | `taskop.cpp` | fields of a `TaskInfo` | add, pack, unpack, success, failure, block size | positions and lengths stay within the file; stale answers do no harm |
| task queue | `utils/taskqueue.cpp` | order and status of tasks | `next_task`, `find_task`, `update_task`, `new_task`, delete | the right task next; a failed one again, when due |
| task file | `utils/taskfile.cpp` | linked list, file | read, write, add, delete, clear | file and list agree; what a crash may lose is known |
| cross protection | `protect.cpp` | two pid files, run file, time of the last heartbeat | start, probe, fork, stop | one process of each kind; killed ones return, stopped ones do not |
| directory monitors | `monitorop.cpp`, `utils/monitor.cpp` | inotify queue, `.last_added` | walk, check, add | a reported file is queued; a skipped one is an old one |
| control port | `control_part.cpp` | `status` (1, 0, -1), one connection at a time | add, delete, list, get, stop | stop is answered truthfully; nobody waits for ever |
| extension | `extension.cpp` | command table | `call_extension` | called for every delivery |
| socket transfer | `utils/transfer.cpp` | socket, pending length | framing, timeouts | messages arrive whole and in order, or the call fails |
| buffers, data operations | `utils/rawdata.cpp`, `dataop.cpp` | buffer, length, position | pack, unpack, compress | unpack undoes pack, within the buffer |
| configuration | `utils/config.cpp` | lists of sections, inotify watch | init, get, reread | a get sees what was reported before it |
| command line | `nbftp.cpp` | none | one request, its answer | |
| log, file and string helpers | `utils/*` | text | | |

**Interaction.** The main thread alternates `check_monitors` and sessions; the
control thread serves the control port and calls `check_protect`. Both use
`send_queue` and `recv_queue`, and no lock guards them. Server and client
exchange length-prefixed messages over TCP. Main and protect process know each
other by pid files and SIGUSR1. `status` tells every loop to end: STOP_SERVER sets
it to 0, main sets it to -1 when it has left its loop. Every `get_int` first asks
inotify whether the configuration file has changed, and rereads it in place. The
control thread does so before every `accept`, in `check_protect`.

**What is hard.** An answer is an ordinary task of the receiver's send queue
with priority 1: it can be late, overtaken, left over from a session that broke
off, and sent in a session about something else. `send_task` and `receive_task`
call one another. Data can arrive while its answer is lost, so the receiver may
get what it has stored, checked and delivered. Crashes fall between a file, its
entry in the queue and its extension. Two threads walk, change and rewrite one
list and one file: a node is inserted and unlinked in several steps, and a
longer file is written in pieces. A message is a length and a payload in a stream that does not mark where
one begins, and each end may leave it half-way. Files appear while a walk, a watch and a log are being set up. Processes
look for each other while they start, stop and are killed. `PROJECT.json` lists
these hazards at their lines.

## 2. Modules

Each module says in its head what it abstracts; every definition is mapped to
its lines in `PROJECT.json`. Operators marked as a mutant of X, or as a bug for the
mutation runs, are wrong variants: with the variant in place of the definition it
precedes, the property it was written for fails.

**`Communication`**: two peers, their queues, one connection at a time. The
state of a user task is split over `send_queue` (owner), `recv_queue` (other
peer), `store` (bytes of the receiver's copy that are right, or `Corrupt`) and
`delivered` (handed to the extension). Answers live in `reply_queue`, since only
they are lost with the process. `pc` is the point between two accesses to the
socket; one action is what the code does from one to the next:

| code | actions |
|---|---|
| `send_task`, after `get_pending_task` | `SendReply`, `SendUserTask`, `...Fails`, `PackFails` |
| `receive_task`: waiting, `unpack_data` | `Receive`, `ReceiveFails`, `ReceiveTimesOut` |
| `process_task` for data | `CheckFile`, `ReportPosition`, `AckPart`, `ProcessMessage` |
| `process_task` for answers | `ProcessAnswer`, `ProcessComplete` |
| the nested `send_task` of `receive_task` | `pc` = `REPLY`, then the first row |
| NULL of `find_task` dereferenced | `NullDereference` (the process dies) |
| session begin and end | `Connect`, `CloseConn`, `AfterSendError`, `AfterReplySent` |
| monitors, control port | `AddTask`, `DeleteSend`, `DeleteAllSend`, `DeleteReceive` |
| failures | `Crash`, `CrashWhileAdding`, `CrashWhileUnpacking`, `CrashBeforeExtension`, `Cut` |

The nesting of the two functions needs no stack: the results of an outer wait do
not depend on anything but the innermost one (`sending.nested`). Control tasks
that were sent stay COMPLETED in the list of the code; the model drops them,
because no operation looks at them again. A deletion takes a task off the list at
once, but not off the disk, unless the task is the head (`del_task` writes the file
only then): `send_left` and `recv_left` keep the status that the file still has of
it. The next write of that queue's file takes it off (`WriteSend`, `WriteRecv`), a
restart before that brings it back (`SendRead`, `RecvRead`). Other updates of a
task file are one step with what follows them; a crash in the middle of one is
`TaskFile`'s subject. Death and restart are one step, and the order of the list of
received tasks is not kept, since only `find_task` looks at it. A stop by `status = 0` is `Control`'s
subject; here it would look like a timeout and a crash. Assumptions: a timeout
falls between messages (what one inside a message does is the `torn` of
`Transfer`); ids of `rand()` are distinct; a write to the
socket fails only when the connection is down; when the client connects, the
server has left the session before (if it comes too early, its wait for the
server times out, which is the fault `ReceiveTimesOut`); compression is off.

**`TaskFile`**: the list node by node, the file record by record, and per thread
the point it is at in `add_task`, `update_task`, `del_task` or `write_tasks`.
`write_tasks` is a loop: `Open` truncates, `Collect` walks on until the buffer of the
`FILE` is full and one more record follows, `Flush` writes that buffer at the
thread's own offset, `Close` writes the rest. `Capacity` is the number of records a
buffer takes, 8 in the code (4096 bytes of stdio, 512 of a `TaskInfo`). Two threads
that write at once overwrite each other's pieces and leave zeros where one
truncated what lay in front of the other (`Overwrite`, `Hole`). `raced` notes that
two operations have overlapped; after that no crash is modelled, because a file
with a task twice would be read into a list with two nodes of one id, and nodes
are named by their ids. A walk along the list is one step as far as the buffer
reaches. A node that was freed is taken to hold what it held. Walks are recursive
functions along the pointers (`From`, `RecordsFrom`). Task ids are numbers in the
order of age.

**`Monitor`**: one directory. `Start`, `SetWatch`, `OpenDir`, `Confirm` and
`EndWalk` are `init_monitors`; `Check`, `AddFileTask`, `OpenLog` and `WriteLog`
are `check` and `add_file`. `Write` is another program that writes a file or moves
one in: its time may be any, equal to that of another file (clocks tick, and
nanoseconds are those of the tick) or older (`mv` keeps it). `Report` is the kernel.
`version` tells what a file contained from what its time says. Files are not
removed. The comparison of seconds and then of nanoseconds is one number.

**`Protect`**: processes by pid, their program counters through `init_protect`,
`save_pidfile`, `protect_main` and the main process's loop, pid files and run
file. Time appears as one assumption, `PromptStart`: no process takes longer to
start (fork to pid file) than the others wait. `[PROTECT] Using` is 1, and no pid
is reused while a file names it.

**`Delivery`**: the promise behind `Communication`, at-least-once delivery: a task
is submitted, handed over one or more times, called done only after that, may be
taken up again, may be deleted. A deleted task is "dropped" until something is
written (`Write`, or any other step: `Keeps`) and then "deleted" for good; a restart
brings a dropped one back (`BringBack`), as done only if it was delivered.
`Communication` implements it with `phase` mapped to the status in the owner's
queue and to `send_left` (`Phase`); a large file counts as done when it is CHECKED,
since COMPLETED may be false (see `comm_completed_early`).

**`Transfer`**: one direction of a `Connection`. `SendData`, `WriteByte`,
`WriteReturns`, `WriteFails` are `send_data` and `writen`; `HasData`,
`LengthRead`, `PayloadRead`, `ReadByte`, `ReadTimesOut`, `ReadEnds`, `ReadStopped`
are `has_data`, `recv_data` and `readn`. A byte carries the number of its message
and its place in it; a `read()` of k bytes is k steps. `Stop` is `status` of one
end's process, `emergency` the flag that ignores it. Bytes that are no length are
taken for any of `Lengths`. `torn` records that an end went on after half a
message: `receive_task` ignores the result of `send_task`, and `remote` asks again
after a timeout within a length.

**`Control`**: the process from the view of `status` and of the send queue, whose
head both threads set without a lock. `MainStep` is the loop of
`start_server`/`start_client` down to where it reads `status` and touches the queue
(the protocol itself is `Communication`); `ControlStep` is `server_routine` and
`process`, with the polls of STOP_SERVER one by one, and the last poll apart from
the decision on the return value; `ConnectClient`, `SendLength`, `SendRequest`,
`GiveUp`, `Leave` are nbftp commands.

An insertion is three steps in either thread: the head is read (`ReadHead`), the
new node becomes the head (`PublishNode`), the task is made PENDING (`UpdateNode`);
a deletion of the head is two (`Delete`, `Unlink`). `list` is what the head leads to:
the order of the nodes is left out, an insertion that overlaps another one drops
what the other thread has published, and one that overlaps a deletion of the head
is itself dropped, or keeps the freed node on the list. Freed memory holds what it
held, or the process crashes at it (`Dangles`, `Unlink`). A walk, and the deletion of
all tasks, is one step; a list that is closed to a ring is left out.

`CallProtect` is the call of `check_protect` before each `accept`, and `GetInt` a
`config.get_int` of the control thread: there, and in `add_file_task` between
`new_task` and `update_task`. Its `read()` may wait for ever (see `ConfigThreads`), so
it is no part of what is fair. The fork in `check_protect` changes nothing in this
process. `RecvData` crashes the process when a command sent a length and no request
(`recv_data` returns NULL and `process` reads from it), `PickAgain` when the second
look of `get_pending_task` finds nothing; a file that cannot be copied ends the
process (`exit(255)` in `copy_file`), in `Read`, and in `CheckMonitors`. LIST_RECEIVE
and DELETE_RECEIVE do to the receive queue what their counterparts do to the send
queue, and are not repeated.

**`RawData`** are operators: the buffer, its growth, every `pack_` and `unpack_`.
**`DataOp`** takes one message of any kind through them: `PackNext`, `SendPlain`
or `SendCompressed`, `Postrecv` (one turn of the loop), `UnpackNext`. Bytes are
abstract (the i-th byte of the number v), zlib is an operator whose output gives
the content back only as a whole. The only memory is the buffer of a `RawData`: the
arrays that `unpack_string` copies to (`task_info`, `store`, `taskop.cpp:80`, `110`,
`211`) and the output of zlib (`dataop.cpp:34`) are outside, and the code checks no
length there.

**`Config`**: file, inotify events and the copy in memory. `Check`, `ReadEvents`,
`ClearConfig`, `Parse`, `StoreConfig`, `EndCheck`, `Find` are a `get_string` from
`Monitor::check` to `find_section`; `BeginWrite`, `EndWrite`, `MoveIn` are
editors. A version's text is whole, part of it, or the defaults that one bad line
leaves.

**`MC...`** give the constants values. **`CommunicationProofs`**, **`TaskFileProofs`**,
**`MonitorProofs`**, **`ProtectProofs`**, **`TransferProofs`**, **`ControlProofs`**,
**`DataOpProofs`** and **`ConfigProofs`** hold the theorems about the module they are
named after.

## 3. Runs

Every property of a passing run has a mutant in `PROJECT.json` that breaks it.

| run | bounds | shows |
|---|---|---|
| `comm_faults` | client's file of 3 bytes, blocks 1 then 2, server's message, 3 faults | `AcknowledgedImpliesDelivered`, `CheckedFileIntact`, `PartWithinFile`, `NoNullDereference`, `HalfDuplex`, `BacklogBounded`, `CleanWithoutFaults` |
| `comm_deletes` | file of 2 bytes, the client's message before its answers, deletions, 1 fault | `AcknowledgedImpliesDelivered` although tasks vanish, `CopyFresh`, `ImplementsDelivery` |
| `comm_settles` | large file, small file, message the other way, 2 faults, `MaxErrorCount` 1 | `Settles`: no task is tried for ever |
| `taskfile` | 2 threads, 4 tasks, one a control task, a buffer of 1 record, 2 crashes | `ListOnDisk`, `OnlyTheEndIsLost`, `NewestFirst` |
| `monitor` | 3 files, 3 writes with any of 3 times, 3 starts, event queue of 2 | `ReportedIsQueued`, `SkippedIsNoNewer`, `LogBehindQueue` |
| `protect` | 5 pids, 3 kills, 1 hang | `AtMostOne`, `StaysStopped`, `Restored` |
| `transfer` | lengths of 2 bytes, payloads of 2 and 1, 3 bytes under way | `InOrder`, `ReturnedIsTaken`, `CallsReturn` |
| `control` | 2 commands of any kind, 1 user task, 2 polls, 1 waiting connection | `StoppedIsTrue`, `QuietOnceStopped`, `EveryoneIsAnswered`, `StopHappens` |
| `messages` | all kinds of messages, texts of 0, 3, 30 and files of 0, 1, 9 bytes, growth by 7 from 32 | `Inside`, `RoundTrip` |
| `config` | 1 thread, 4 edits, the second of which is broken | `Current`, `Returns` |

Why the bounds are enough. A lost exchange, the retry, and a further fault
during the retry need three faults; a file of three bytes with a block of one
and then two has a first part, a middle position and a shorter last part;
`MaxErrorCount` 1 and `MaxPriority` 6 let a task be degraded and remain so, for
which two faults are enough in `comm_settles`, since one may count as several errors;
it also fails again then, and a large file may be COMPLETED too early. (With files of
two bytes three faults pass as well, in four minutes and a million states.) Two
user tasks in opposite directions are what is needed for an answer to meet the
other side's data. Four tasks give a list with a head, an inside, an end and one
record that is not written; with a buffer of one record every list of two or more
is written in pieces, as one of nine or more is in the code. Three times for three
files let times tie and a file be moved in that is older than all others. A payload as long as a length, in a buffer shorter
than a frame, lets every piece be taken for every other and makes writer and
reader wait for each other. Two commands are one that is served and one that
waits, connects too late or leaves; two polls are one that is not the last and
the last. The lengths of texts and files lie below, at and past one and several
growth steps. Four edits are one before the watch, one within a reread, and two
that meet in the event queue. Three starts allow a log that was left by a start
which was itself interrupted.

**Fairness.** `Communication` assumes that each peer's process goes on
(`PeerStep`, one loop per process, no lock to wait for) and that the client keeps
connecting (`Connect`; `start_client` does so every `Interval` seconds). Neither
users nor faults are fair, and no timeout is forced unless both peers wait
(`ReceiveFails`), as the socket's timeout does. `Settles` states its two hypotheses
itself: a task that failed is due again after its interval, which the code means
but does not make sure (`CommNeverDue`), and the user deletes nothing, since the
receiver dies of every part of a file whose entry it lacks and the sender sends that
part again. It promises no more than an end: a large file may have been called
COMPLETED without having arrived (`comm_completed_early`), and a task that a crash
left INITIAL is never sent. `Protect` assumes that the kernel
schedules every process. `Transfer` assumes that a call goes on (`readn` and
`writen` loop by themselves, and count their timeouts) and that the receiver calls
again or closes, as `receive_tasks` and the control port do. `Control` assumes that
the control thread goes on, but for its reads of the configuration, and that a
command that connected sends its length and its request. A read of the configuration may block for
ever, since main shares it (`ConfigThreads`): `EveryoneIsAnswered` holds if none does
(`ConfigReturns`), and not without. Main may hang in an extension command, so only
`StopHappens` assumes `MainGoesOn`; it needs no `ConfigReturns`, because no read
of the configuration is begun once the stop has been told to main. `Config` assumes that a thread goes on with its
`get`; editors may leave a file half-written for ever. `taskfile`, `monitor` and
`messages` check safety only.

Two runs refute what the repository says (each is a finding):

| run | refuted | counterexample |
|---|---|---|
| `comm_completed_early` | a COMPLETED file was received and checked | the file cannot be read once, a stale answer then advances its position to the end |
| `taskfile_delete` | list and file are in sync | a delete behind the head is not written |

Seven more configurations are kept to be run by hand,
`tlc -config X.cfg M`; each ends in a counterexample:

| configuration, module | refuted | what the code says | counterexample |
|---|---|---|---|
| `CommNeverDue`, `MCCommunication` | `AlwaysDue`: `Settles` without its first hypothesis | a failed task is tried again after its interval (`taskqueue.h:33`, `server.conf:52`) | `error_time` is never assigned (`taskqueue.cpp:82`) |
| `CommDeletedAnswer`, `MCCommunication` | `NoNullDereference` | "Unpacked data is NULL." (`communication.cpp:161`) | `unpack_data` dereferences the NULL first (`taskop.cpp:325`) |
| `TaskFileRace`, `MCTaskFile` | `Synced` | the list is kept in sync with its file (`taskqueue.h:27`) | two threads write the file at once |
| `ControlLost`, `MCControl` | `SecondLookFinds` | when all is sent, a task that says so is added (`communication.cpp:25`) | the control port has read the head of the list before main adds the COMPLETE_SIG and sets it after (`taskfile.cpp:95`); the second look finds nothing, and line 104 dereferences NULL |
| `MonitorSkips`, `MCMonitor` | `NothingMissed` | every existing file not recorded is added (`monitorop.cpp:108`) | readdir returns the newer file first, or both have one time (`monitorop.cpp:66`) |
| `DataOpCompressed`, `MCDataOp` | `Decompresses` | "Return RawData: Original content" (`dataop.cpp:55`) | zlib's output is packed shifted by a byte (`dataop.cpp:35`, `47`), decompressing fails, and `postrecv_data` turns for ever; if it succeeded, the compressed bytes would be returned (line 68) |
| `ConfigThreads`, `MCConfig` | `Current`, or `Returns` in its place | a change is noticed and reread (`config.cpp:206`) | two threads share the object: one clears what the other searches, and one takes the events the other waits for (`monitor.cpp:89`) |

Three statements of the configuration files disagree with the code so plainly that
no run is spent on them: a task that exceeds `MaxErrorCount` is degraded, never
cancelled (`server.conf:54`, `task_failure`; `client.conf:52` has it right); no hung
process is ended (`server.conf:30`, `protect.cpp` only tests `kill`); and files that
were there before the start are added too, if they are newer than `.last_added`
(`monitorop.cpp:108` and `confirm_file`), although `server.conf:56` and
`client.conf:54` say that only those that come after the start are. `Monitor` follows the code.

Without `PromptStart` both `AtMostOne` and `StaysStopped` fail: two processes
that start together both find nobody, and a process that was forked just before a
stop creates the run file again. They are listed as hazards.

## 4. Proofs

Each theorem holds for every value of the constants that the ASSUMEs of its module
allow: every set of tasks, sizes, priorities and block sizes, any number of faults,
crashes, edits, commands or files. Together they state every safety property that
the passing runs check. Every inductive invariant was model-checked before it was
proved.

### What is proved

| module | theorem | states | needs |
|---|---|---|---|
| `Communication` | `TypeCorrect` | `TypeOK` | |
| | `AcknowledgedOnlyIfDelivered` | `AcknowledgedImpliesDelivered` | |
| | `NullOnlyAfterDelete` | `NoNullDereference` | `~UserDeletes` |
| | `CommunicationImplementsDelivery` | `ImplementsDelivery` | |
| | `CopyStaysFresh` | `CopyFresh` | |
| | `PartsLieWithinFile` | `PartWithinFile` | |
| | `CheckedFilesIntact` | `CheckedFileIntact` | |
| | `OneSpeakerAtATime` | `HalfDuplex` | `OrderlyUse` |
| | `BacklogNeverOutgrows` | `BacklogBounded` | `OrderlyUse` |
| | `NoFaultNoTrouble` | `CleanWithoutFaults` | `OrderlyUse` |
| `TaskFile` | `TaskFileTypeOK` | `TypeOK` | |
| | `ListNewestFirst` | `NewestFirst` | |
| | `ListStaysOnDisk` | `ListOnDisk` | |
| | `CrashLosesOnlyTheEnd` | `OnlyTheEndIsLost` | |
| `Monitor` | `MonitorTypeOK` | `TypeOK` | |
| | `ReportedFilesQueued` | `ReportedIsQueued` | |
| | `LogNeverAhead` | `LogBehindQueue` | |
| | `OnlyOldSkipped` | `SkippedIsNoNewer` | |
| `Protect` | `ProtectTypeOK` | `TypeOK` | |
| | `OneOfEachKind` | `AtMostOne` | `PromptStart` |
| | `StoppedStaysStopped` | `StaysStopped` | `PromptStart` |
| `Transfer` | `TransferTypes` | `TypeOK` | |
| | `TransferInOrder` | `InOrder` | |
| `Control` | `ControlTypes` | `TypeOK` | |
| | `StopIsTrue` | `StoppedIsTrue` | |
| | `StopIsQuiet` | `QuietOnceStopped` | |
| `DataOp` | `DataOpTypeOK` | `TypeOK` | |
| | `StaysInside` | `Inside` | |
| | `UnpackedIsPacked` | `RoundTrip` | |
| `Config` | `ConfigTypeOK` | `TypeOK` | |
| | `GetsAreCurrent` | `Current` | one thread |

The hypotheses are not for the provers' sake: without each of them TLC finds a
counterexample.

- `~UserDeletes`: `CommDeletedAnswer` (section 3).
- `OrderlyUse`: the user deletes nothing, and no task has a priority of 1 or less,
  the priority of the answers. A user task that goes before the answers makes the
  receiver's answer to a part something else than the sender waits for; so does a
  deletion. Then both peers may speak at once, answers pile up without any fault,
  and tasks count errors.
- One thread: with two, `config` fails as in `ConfigThreads`. The main process has
  two, the protect process really has one; the theorem is about that one.
- `PromptStart`: see the end of section 3.

The theorems about `TaskFile` are for any number of threads. `ListOnDisk` and
`OnlyTheEndIsLost` say themselves that they speak of the time before two operations
overlap for the first time (`~raced`): afterwards `TaskFileRace` refutes any such
claim. `NewestFirst` holds after that, too, but `Crash` is modelled only before,
so the theorem does not speak of a daemon that restarts from a file that a race has
spoilt.

### Why they hold

**`Communication`.** `TypeOK` is inductive as it stands. Lemmas about queues and
channels are stated for sequences over any set `S` (`TransmitSeq`, `DieSeq`,
`AddReplySeq`, ...), so that they serve for types and for sets of good messages.

Nothing else is inductive. An answer waits in a send queue, possibly through
several sessions; it travels; it is unpacked; only then does it change an entry.
`AnswersInv` therefore says of each of these places (`reply_queue`, `chan`,
`received`) that an answer found there is `Justified`: a CHECK_PASS, or a REPLY for
anything but a large file, names a delivered task; and unless the user deletes,
both peers have an entry for the task it names. A data message has the kind of its
task, since the receiver decides by the message's type what to answer. A position
beyond -1, in the queue or in the copy that `send_task` writes back after a failed
wait, means that the receiver has an entry (`Begun`): this is why no part arrives
for nothing. The argument: what a good item relies on is never taken back
(`GrowsNext`), so every place keeps its items good (`Lifted`) and what each action
puts there is good (`QueueNext`, `ChannelNext`, `ReceivedNext`); an entry is
finished only by an answer that names it (`EntryStep`). `LeftInv` says the same of
what a deleted task left in the file: if a restart would bring it back as done, it
was delivered. From it follows the
refinement: an action changes one entry (`OnePhase`), each status it may set is a
step of the promise (`SendStep`, `AnswerStep`, `DeliverStep`, ...), and whatever
else the file is written for turns dropped tasks into deleted ones (`OthersKeep`).
The deletion of everything and a restart change many: the latter is a
`BringBack` (`RestartStep`), whose done tasks were delivered by `LeftInv`.
`Acknowledge` finds its task delivered because the answer was `Justified`.

`EntriesInv` adds the numbers: a position in an entry, in a copy, in a message and
in an answer under way lies within the file (`EntryFits`, `CopyFits`, `MessageFits`,
`AnswerFits`), and the receiver's entry of a CHECKED large file stands at the end of
an intact copy (`FileFits`), also one that was deleted and that a restart would
bring back (`LeftFits` for the sender's). It contains `CopyFresh`, which is what lets a position
that is written back after a failure be the one that is there.

`TurnsInv` says whose turn it is. While the connection is up, exactly one of four
things is the case for one of the peers, or the turn is being handed over: it talks
and has asked nothing; it has sent a task and not been answered; it has been
answered; it leaves its loop (`Talks`, `Asks`, `Heard`, `Leaves`, `HandsOver`).
Each says where both program counters may be and which kinds of messages, in which
order, the two channels may hold. `HalfDuplex` is read off. Under `AnswersFirst`
what a receiver sends after a user task is a control task, so a step of one peer
leads from one of the five to another.

`BacklogInv` adds that what is left behind was paid for: an answer stays in a queue
only if its exchange broke off, the break has not been paid by the other side's
answers too (`Paid`), and a peer that can still fail in a broken session has a fault
to its credit. `CleanInv` adds what holds until the first fault: every message under
way is about the task in hand and says what the entries say (`Sent`, `Right`), and an
entry is at rest or under way without an error (`Tidy`).

**`TaskFile`.** A node always points to an older one (`Older`), with any number of
threads, because a node's pointer is set once to the head of its time and
afterwards only to what its successor pointed to. This makes walks end:
`PointerInduction` is induction along the list, `PointerRecursion` shows that a
function defined by walking along the pointers exists, and so `From` and
`RecordsFrom` are what their equations say (`ChainEquation`, `WrittenEquation`). The
order of the list follows (`ChainSorted`). `Known` tasks, those whose `TaskInfo` is in
memory, are closed under the pointers, also where two threads put a deleted node
back on the list (`ListKnown`, `NodesKnown`); that is why only whole records reach a
file. All of this is `AnyThreadsInv`, and holds whatever overlaps.

Until two operations have overlapped, at most one thread is in one (`Alone`). For it
`AloneInv` says at each point what the file holds: every user task of the list, or
all but the one at hand (`Kept`), or, while `write_tasks` has it open, a beginning of
the records of the list: what was flushed, the buffer and what is still to come
make up all of them (`Halfway`). A beginning of a list is its newest tasks, hence
`OnlyTheEndIsLost`. A restart reads from a sorted file without two records of one
task (`Ordered`, `CrashReads`), so the new list is `Older` again.

**`Monitor`.** `MonitorInv` says of every file that it is queued, or reported, or
being added, or that the walk still has to come to it (`WillBeFound`), or that it is
no newer than a file that was added or is just being added (`NoNewer`): this is
`NewOnItsWay`. A file that the walk leaves out is no newer than the time it compares
with, and that time was noted for a file that is in the queue (`LastIsAdded`,
`LogBehindQueue`), unless it was read from an empty log. A file that is written while
the watch exists is reported (`WatchedFromSet`, `WalkFirst`). Nothing is assumed of
the times of files.

**`Protect`.** `AtMostOne` needs to know how processes come to start: one at a time
(`OneStarting`), none while another may be about to start one or to stop
(`NobodyStartsMeanwhile`), a main process only when there is none (`MainGone`), and
whoever is at work is the one its pid file names (`Recorded`, `WriterAlone`). For
`StaysStopped`: without the run file nobody is at a point from which it could be
created again, except for the very first process (`NothingRevives`).

**`Transfer`.** The bytes on the wire are a chain (`Chain`): the first is the one the
receiver expects next (`ReaderNext`), each is followed by its successor in the
stream, the last precedes the one the sender writes next (`WriterNext`). What a call
has read is a prefix of the message after the last taken one (`ReceiverOK`). The
chain's head need not fit once the receiver has failed within a message, and its
tail need not once an end is closed: neither is read or written any more, unless
`torn`.

**`Control`.** `StatusInv` adds that status is -1 exactly from main's end on, that a
request is served only while it is 1 (so that no second STOP_SERVER sets a -1 back
to 0), and that "stopped" or no message is packed only when it is -1, whether the
last poll saw that or only the check after it. No insertion or deletion of the
control thread is under way when main has ended, since it belongs to a request. The
types of the queue need that a thread which inserts has a task to insert (`NodeInv`).

**`DataOp`.** The buffer is `Sound` through every `pack_`, `realloc` and `unpack_`:
length and position lie within its size. There are offsets at which the fields lie
one behind the other, each with the count that precedes it on the wire (`Laid`,
`FieldAt`); packing appends one (`PackedSoFar`), growing moves none (`HoldsKept`), the
reader stands at the offset of the next field (`AtField`), and from what it has
taken it knows which kind that is and when the message ends (`NextFieldIs`). A
message that was compressed starts with zlib's bytes shifted by one (`Shifted`), so it
never gets to `unpack_data`.

**`Config`.** With one thread, the events that there were when a get looked are
still there when it reads (`Reading`). Whoever is not about to reread finds memory
`Settled`: if no event waits, it is as new as what was reported, and exactly what the
file says if nothing has changed since. An edit keeps that: either its event waits
now, or the watch is not yet set and it is not counted as reported.

### Only model-checked

`Settles`, `Restored`, `ReturnedIsTaken`, `CallsReturn`, `EveryoneIsAnswered`,
`StopHappens` and `Returns` are liveness properties under fairness: they rest on
ENABLED, which the provers do not handle.

## 5. Not modelled

- Contents of messages and files (md5 is "the copy is right"), the bytes of a
  number, zlib, `encrypt` and `decrypt`, which return their argument.
- Logging and the helpers for files and strings: nothing depends on them. Writes
  to disk that fail.
- Socket options, addresses, `bind` and `listen`; arguments of the command line.
- The syntax of the configuration and the list of monitors. A key before the first
  section dereferences NULL (`config.cpp:118`), and every monitor name but the
  first is empty (`monitorop.cpp:82` leaves `delim` at the separator).
- The commands that extensions run. SIGCHLD is ignored, so `system()` returns -1
  and each is logged as an error (`protect.cpp:86`).
- Control tasks that were sent stay COMPLETED in the list for the life of the
  process.
- Memory that is used after it was freed: it is taken to hold what it held, or, in
  `Control`, the process crashes.
- In `TaskFile`, what a restart makes of a file that two writers have spoilt.

## 6. Plan

Done: `Communication`, `TaskFile`, `Protect`, `Monitor`; `Delivery` and the
refinement; `Transfer`; `Control`; `RawData` and `DataOp`; `Config`; theorems for
every safety property of the runs.

Next: crashes after a race in `TaskFile`, for which its nodes need names of their
own beside the ids; an abstract queue that it implements until operations overlap;
the order of the nodes in `Control`, to say when a list is closed to a ring; the bound
of `BacklogBounded` when the user deletes.
