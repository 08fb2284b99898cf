------------------------------- MODULE Transfer -------------------------------
(***************************************************************************)
(* One direction of a Connection: send_data on one side, has_data and      *)
(* recv_data on the other, and between them the bytes of a TCP stream.     *)
(*                                                                         *)
(* The stream carries no mark where a message begins.  A message is a      *)
(* length and a payload, each written by a loop of write() and read back   *)
(* by a loop of read(); either loop may be left by a timeout, by the stop  *)
(* of its own process or by the end of the connection, with some bytes     *)
(* already moved.  A byte is the number of its message and its place in    *)
(* it.  A step moves one byte: a call of read() or write() that moves k of *)
(* them is k steps.                                                        *)
(***************************************************************************)
EXTENDS Integers, Sequences

CONSTANTS
    Header,     \* bytes of the length that precedes a payload
    Size,       \* Size[m], the payload of the m-th message of the stream
    Capacity,   \* bytes the two socket buffers hold
    Lengths     \* the values that bytes which are no length are taken for

Messages == DOMAIN Size

ASSUME TransferAssumption ==
    /\ Header \in Nat \ {0}
    /\ Capacity \in Nat \ {0}
    /\ Size \in Seq(Nat \ {0})
    /\ Lengths \subseteq Int

VARIABLES
    up,         \* per end: the status of its process is 1
    open,       \* per end: its socket is not closed
    wire,       \* the bytes under way
    writer,     \* what the sending end does: "AWAY", "WRITING", "FAILED"
    emergency,  \* the call that writes ignores the status
    msg,        \* the message the sending end is at, or was at last
    at,         \* bytes of it that were written
    returned,   \* the messages of which send_data returned 0
    reader,     \* what the receiving end does: "AWAY", "LENGTH", "PAYLOAD", "FAILED"
    failure,    \* the value a failed has_data or recv_data returned
    need,       \* bytes the call wants
    got,        \* bytes it has read
    taken,      \* the payloads recv_data returned
    torn        \* an end went on with the connection after half a message

writerVars == <<writer, emergency, msg, at, returned>>
readerVars == <<reader, failure, need, got, taken>>
vars == <<up, open, wire, writerVars, readerVars, torn>>

Ends == {"sender", "receiver"}

Bytes == Messages \X Nat

Frame(m) == Header + Size[m]
Length(m) == [i \in 1..Header |-> <<m, i>>]
Payload(m) == [i \in 1..Size[m] |-> <<m, Header + i>>]

TypeOK ==
    /\ up \in [Ends -> BOOLEAN]
    /\ open \in [Ends -> BOOLEAN]
    /\ wire \in Seq(Bytes)
    /\ writer \in {"AWAY", "WRITING", "FAILED"}
    /\ emergency \in BOOLEAN
    /\ msg \in Messages \cup {0}
    /\ writer = "AWAY" \/ msg \in Messages
    /\ at \in Nat
    /\ returned \subseteq Messages
    /\ reader \in {"AWAY", "LENGTH", "PAYLOAD", "FAILED"}
    /\ failure \in {0, -1, -2}
    /\ need \in Int
    /\ got \in Seq(Bytes)
    /\ taken \in Seq(Seq(Bytes))
    /\ torn \in BOOLEAN

Init ==
    /\ up = [e \in Ends |-> TRUE]
    /\ open = [e \in Ends |-> TRUE]
    /\ wire = << >>
    /\ writer = "AWAY" /\ emergency = FALSE /\ msg = 0 /\ at = 0 /\ returned = {}
    /\ reader = "AWAY" /\ failure = 0 /\ need = 0 /\ got = << >> /\ taken = << >>
    /\ torn = FALSE

-----------------------------------------------------------------------------
(* send_data. *)

\* The last message was left with some of its bytes written.
HalfWritten == msg # 0 /\ at # 0 /\ at < Frame(msg)

\* send_data is called.  After a failure too: receive_task looks at no result
\* of the send_task it calls.  A message of which nothing was written left no
\* trace: the next one takes its place in the stream.
SendData ==
    /\ writer \in {"AWAY", "FAILED"}
    /\ open["sender"]
    /\ LET m == IF msg # 0 /\ at = 0 THEN msg ELSE msg + 1
       IN  m \in Messages /\ msg' = m
    /\ writer' = "WRITING"
    /\ emergency' \in BOOLEAN
    /\ at' = 0
    /\ torn' = (torn \/ HalfWritten)
    /\ UNCHANGED <<up, open, wire, returned, readerVars>>

MayWrite == writer = "WRITING" /\ (up["sender"] \/ emergency)

\* Bytes for an end that is closed are lost.
WriteByte ==
    /\ MayWrite
    /\ at < Frame(msg)
    /\ open["sender"]
    /\ Len(wire) < Capacity
    /\ wire' = IF open["receiver"] THEN Append(wire, <<msg, at + 1>>) ELSE wire
    /\ at' = at + 1
    /\ UNCHANGED <<up, open, writer, emergency, msg, returned, readerVars, torn>>

WriteReturns ==
    /\ MayWrite
    /\ at = Frame(msg)
    /\ writer' = "AWAY"
    /\ returned' = returned \cup {msg}
    /\ UNCHANGED <<up, open, wire, emergency, msg, at, readerVars, torn>>

\* The buffers are full for the whole timeout, the connection is closed, or
\* this process was told to stop: then even a message that is written fails.
WriteFails ==
    /\ writer = "WRITING"
    /\ \/ MayWrite /\ at < Frame(msg) /\ Len(wire) = Capacity
       \/ MayWrite /\ at < Frame(msg) /\ \E e \in Ends : ~open[e]
       \/ ~MayWrite
    /\ writer' = "FAILED"
    /\ UNCHANGED <<up, open, wire, emergency, msg, at, returned, readerVars, torn>>

-----------------------------------------------------------------------------
(* has_data and recv_data. *)

Call(pc, bytes) == reader' = pc /\ need' = bytes /\ got' = << >>

HasData ==
    /\ reader = "AWAY"
    /\ open["receiver"]
    /\ Call("LENGTH", Header)
    /\ UNCHANGED <<up, open, wire, writerVars, failure, taken, torn>>

Reading == reader \in {"LENGTH", "PAYLOAD"}
MayRead == Reading /\ up["receiver"]

ReadByte ==
    /\ MayRead
    /\ Len(got) < need
    /\ wire # << >>
    /\ got' = Append(got, Head(wire))
    /\ wire' = Tail(wire)
    /\ UNCHANGED <<up, open, writerVars, reader, failure, need, taken, torn>>

ReadFails(code) ==
    /\ reader' = "FAILED"
    /\ failure' = code
    /\ UNCHANGED <<up, open, wire, writerVars, need, got, taken, torn>>

NothingToRead == MayRead /\ Len(got) < need /\ wire = << >>

\* Bugs for the mutation runs: the errno of a timeout is handed through; the
\* end of the stream is taken for a read of no bytes.
ReadHandsErrno == NothingToRead /\ open["sender"] /\ ReadFails(-11)
ReadMissesEnd == FALSE

\* recv_data returns NULL whatever readn returned.
ReadTimesOut == NothingToRead /\ open["sender"] /\ ReadFails(IF reader = "LENGTH" THEN -2 ELSE -1)
ReadEnds == NothingToRead /\ ~open["sender"] /\ ReadFails(-1)
ReadStopped == Reading /\ ~up["receiver"] /\ ReadFails(-1)

\* The value of the bytes that were read where a length should be.
Decoded == {Size[m] : m \in {k \in Messages : got = Length(k)}}
Values == IF Decoded # {} THEN Decoded ELSE Lengths

\* has_data has the length; recv_data follows and asks for as many bytes.  A
\* length that is negative gets NULL from it, and zero a RawData without data,
\* which receive_task takes for an error.
LengthRead(n) ==
    /\ MayRead
    /\ reader = "LENGTH"
    /\ Len(got) = need
    /\ n \in Values
    /\ IF n > 0
       THEN Call("PAYLOAD", n) /\ UNCHANGED <<up, open, wire, writerVars, failure, taken, torn>>
       ELSE ReadFails(-1)

\* A bug for the mutation runs: recv_data is content with the first read.
PayloadReadOnce ==
    /\ MayRead
    /\ reader = "PAYLOAD"
    /\ got # << >>
    /\ taken' = Append(taken, got)
    /\ Call("AWAY", 0)
    /\ UNCHANGED <<up, open, wire, writerVars, failure, torn>>

PayloadRead ==
    /\ MayRead
    /\ reader = "PAYLOAD"
    /\ Len(got) = need
    /\ taken' = Append(taken, got)
    /\ Call("AWAY", 0)
    /\ UNCHANGED <<up, open, wire, writerVars, failure, torn>>

\* A bug for the mutation runs: remote asks again after every failure.
AskAlways ==
    /\ reader = "FAILED"
    /\ open["receiver"]
    /\ Call("LENGTH", Header)
    /\ torn' = (torn \/ got # << >>)
    /\ UNCHANGED <<up, open, wire, writerVars, failure, taken>>

\* remote asks again when has_data timed out, whatever it had read.
AskAgain ==
    /\ reader = "FAILED"
    /\ failure = -2
    /\ open["receiver"]
    /\ Call("LENGTH", Header)
    /\ torn' = (torn \/ got # << >>)
    /\ UNCHANGED <<up, open, wire, writerVars, failure, taken>>

-----------------------------------------------------------------------------
(* The ends of the connection. *)

CloseConn(e) ==
    /\ open[e]
    /\ IF e = "sender" THEN writer # "WRITING" ELSE ~Reading
    /\ open' = [open EXCEPT ![e] = FALSE]
    /\ UNCHANGED <<up, wire, writerVars, readerVars, torn>>

\* The connection breaks: the bytes from some place on do not arrive.
Break(k) ==
    /\ open["sender"]
    /\ open' = [open EXCEPT !["sender"] = FALSE]
    /\ wire' = SubSeq(wire, 1, k)
    /\ UNCHANGED <<up, writerVars, readerVars, torn>>

Stop(e) ==
    /\ up[e]
    /\ up' = [up EXCEPT ![e] = FALSE]
    /\ UNCHANGED <<open, wire, writerVars, readerVars, torn>>

WriterStep == SendData \/ WriteByte \/ WriteReturns \/ WriteFails
ReaderStep ==
    \/ HasData \/ ReadByte \/ PayloadRead \/ \E n \in Values : LengthRead(n)
    \/ ReadTimesOut \/ ReadEnds \/ ReadStopped
    \/ AskAgain \/ CloseConn("receiver")

Next ==
    \/ WriterStep
    \/ ReaderStep
    \/ CloseConn("sender")
    \/ \E k \in 0..Len(wire) : Break(k)
    \/ \E e \in Ends : Stop(e)

Spec == Init /\ [][Next]_vars

\* A call that was made goes on by itself.  A receiver calls again as long as
\* it does not close the connection.
FairSpec == Spec /\ WF_vars(WriteByte \/ WriteReturns \/ WriteFails) /\ WF_vars(ReaderStep)

-----------------------------------------------------------------------------
(* Properties. *)

\* What recv_data returns are the payloads that were sent, whole, in order,
\* each once and none left out, whatever pieces read and write cut the stream
\* into, wherever a timeout, a stop or a break falls: unless an end went on
\* after half a message.
InOrder == ~torn => \A n \in 1..Len(taken) : n <= msg /\ taken[n] = Payload(n)

\* A message of which send_data returned 0 is taken, or the receiver gives the
\* connection up.
ReturnedIsTaken ==
    \A m \in Messages :
        m \in returned ~> (Len(taken) >= m \/ ~open["receiver"] \/ torn)

\* Every call returns: no silence, no end that closed and no buffer that stays
\* full holds send_data, has_data or recv_data for ever.
CallsReturn ==
    /\ writer = "WRITING" ~> writer # "WRITING"
    /\ reader = "LENGTH" ~> reader # "LENGTH"
    /\ reader = "PAYLOAD" ~> reader # "PAYLOAD"
=============================================================================
