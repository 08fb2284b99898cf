-------------------------------- MODULE DataOp ---------------------------------
(***************************************************************************)
(* What becomes of one message from its fields to its fields: packed,      *)
(* perhaps compressed, received, decompressed and unpacked.  The messages  *)
(* are those between the peers (pack_data, unpack_data), the requests to   *)
(* the control port and its responses.                                     *)
(*                                                                         *)
(* The transport is Transfer's subject: here the bytes arrive.             *)
(*                                                                         *)
(* The one memory of the model is the buffer of a RawData.  The arrays the *)
(* code copies a field to (task_info and store in taskop.cpp:80, 110, 211) *)
(* and zlib's output (buffer + 1 in dataop.cpp:34) are outside: the code   *)
(* has no check there, and the model says nothing of what fits into them.  *)
(***************************************************************************)
EXTENDS RawData

CONSTANTS
    ExtLen,     \* EXTLEN, CTRL_LEN: the size of a new buffer
    Texts,      \* the lengths of names, messages and lines
    Files,      \* the lengths of files and of their parts
    Numbers,    \* ids, positions, sizes, priorities and return values
    Lines       \* the texts of the responses

ASSUME DataOpAssumption ==
    /\ ExtLen \in Nat
    /\ Texts \subseteq Nat /\ Files \subseteq Nat /\ Numbers \subseteq Int
    /\ Lines \subseteq Seq(Texts)

VARIABLES
    channel,    \* "peer", "request" or "response"
    message,    \* the fields that were meant
    phase,
    packed,     \* how many of them are in the buffer
    buffer,     \* the RawData at hand
    taken       \* the fields that were unpacked

vars == <<channel, message, phase, packed, buffer, taken>>

-----------------------------------------------------------------------------
(* Messages and their readers. *)

SMALL_FILE_DATA == 0
LARGE_FILE_BEGIN == 1
MESSAGE_DATA == 2
LASTPOS == 4
REPLY == 8
LARGE_FILE_PART == 16
CRYPT_DATA == 17
COMPRESS_DATA == 18

GET_STATUS == 0
STOP_SERVER == 1
ADD_MESSAGE == 2
ADD_FILE == 3
GET_RECEIVED == 4
DELETE_SEND == 5
DELETE_RECEIVE == 6
LIST_SEND == 7
LIST_RECEIVE == 8

PeerMessages == UNION {
    {<<CharField(SMALL_FILE_DATA), LongField(id), DigestField(id), TextField(t), FileField(n)>> : id \in Numbers, t \in Texts, n \in Files},
    {<<CharField(LARGE_FILE_BEGIN), LongField(id), DigestField(id), TextField(t), LongField(n)>> : id \in Numbers, t \in Texts, n \in Numbers},
    {<<CharField(LARGE_FILE_PART), LongField(id), LongField(at), FileField(n)>> : id \in Numbers, at \in Numbers, n \in Files},
    {<<CharField(MESSAGE_DATA), LongField(id), TextField(t)>> : id \in Numbers, t \in Texts},
    {<<CharField(REPLY), LongField(id), LongField(task)>> : id \in Numbers, task \in Numbers},
    {<<CharField(LASTPOS), LongField(id), LongField(task), LongField(at)>> : id \in Numbers, task \in Numbers, at \in Numbers}}

Requests == UNION {
    {<<IntField(type)>> : type \in {GET_STATUS, STOP_SERVER, LIST_SEND, LIST_RECEIVE}},
    {<<IntField(type), IntField(p), TextField(t)>> : type \in {ADD_MESSAGE, ADD_FILE}, p \in Numbers, t \in Texts},
    {<<IntField(GET_RECEIVED), LongField(id), TextField(t)>> : id \in Numbers, t \in Texts},
    {<<IntField(type), LongField(id)>> : type \in {DELETE_SEND, DELETE_RECEIVE}, id \in Numbers}}

\* Lines of text, then the return value.
Responses == {Append([i \in DOMAIN ls |-> TextField(ls[i])], IntField(ret)) : ls \in Lines, ret \in Numbers}

\* The unpack_... functions that unpack_data chooses from, by the first byte.
PeerFields(type) ==
    CASE type = SMALL_FILE_DATA -> <<"long", "digest", "string", "file">>
      [] type = LARGE_FILE_BEGIN -> <<"long", "digest", "string", "long">>
      [] type = LARGE_FILE_PART -> <<"long", "long", "file">>
      [] type = MESSAGE_DATA -> <<"long", "string">>
      [] type = LASTPOS -> <<"long", "long", "long">>
      [] OTHER -> <<"long", "long">>

\* Control::process; the directory of a GET_RECEIVED is read for a file.
RequestFields(type) ==
    CASE type \in {ADD_MESSAGE, ADD_FILE} -> <<"int", "string">>
      [] type = GET_RECEIVED -> <<"long", "string">>
      [] type \in {DELETE_SEND, DELETE_RECEIVE} -> <<"long">>
      [] OTHER -> << >>

\* A bug for the mutation runs: the return value is read as a line.
MoreLinesToTheEnd(b) == b.pos < b.length

\* parse_result reads lines until only a return value is left.
MoreLines(b) == b.pos < b.length - IntSize

\* The type of the field that is read next, or "none".
NextField ==
    LET first == Number(taken[1].bytes)
        rest == IF channel = "peer" THEN PeerFields(first) ELSE RequestFields(first)
    IN  IF channel = "response"
        THEN IF taken # << >> /\ taken[Len(taken)].type = "int" THEN "none"
             ELSE IF MoreLines(buffer) THEN "string" ELSE "int"
        ELSE IF taken = << >> THEN IF channel = "peer" THEN "char" ELSE "int"
        ELSE IF Len(taken) <= Len(rest) THEN rest[Len(taken)] ELSE "none"

-----------------------------------------------------------------------------

Init ==
    /\ \/ channel = "peer" /\ message \in PeerMessages
       \/ channel = "request" /\ message \in Requests
       \/ channel = "response" /\ message \in Responses
    /\ phase = "PACK"
    /\ packed = 0
    \* There is room for a file, or for the block that a part is taken from.
    /\ \E room \in Files \cup {0} :
          /\ LET last == message[Len(message)]
             IN  IF last.type = "file" THEN room >= Len(last.bytes) ELSE room = 0
          /\ buffer = NewBuffer(ExtLen + room)
    /\ taken = << >>

PackNext ==
    /\ phase = "PACK" /\ packed < Len(message)
    /\ buffer' = PackField(buffer, message[packed + 1])
    /\ packed' = packed + 1
    /\ phase' = "PACK"
    /\ UNCHANGED <<channel, message, taken>>

\* The file cannot be opened.  pack_data hands the NULL on to presend_data, and
\* compress() reads from it.
PackFails(compress) ==
    /\ phase = "PACK" /\ packed < Len(message)
    /\ message[packed + 1].type = "file"
    /\ phase' = IF compress THEN "CRASHED" ELSE "FAILED"
    /\ UNCHANGED <<channel, message, packed, buffer, taken>>

Arrive(b) ==
    /\ buffer' = FromBytes(SubSeq(b.data, 1, b.length))
    /\ UNCHANGED <<channel, message, packed, taken>>

Packed == phase = "PACK" /\ packed = Len(message)

\* presend_data with [DATA] Compress = 0, or what is not for a peer.
SendPlain ==
    /\ Packed
    /\ phase' = IF channel = "peer" THEN "POSTRECV" ELSE "UNPACK"
    /\ Arrive(buffer)

\* zlib: n bytes that only together give the content back.
Zip(n) == Bytes("z", n, n)
Unzips(bytes) == bytes # << >> /\ bytes = Zip(Len(bytes))

\* compress(): zlib writes to the second byte of its buffer, and what is packed
\* begins at the first one.  What would not become shorter is sent as it is.
SendCompressed(n) ==
    /\ Packed /\ channel = "peer"
    /\ phase' = "POSTRECV"
    /\ IF buffer.length < n + CharSize + IntSize
       THEN Arrive(buffer)
       ELSE LET zipped == <<Junk>> \o Zip(n)
            IN  Arrive(Pack(Pack(Pack(NewBuffer(n + 32), CharField(COMPRESS_DATA).bytes),
                                 IntField(buffer.length).bytes),
                            SubSeq(zipped, 1, n)))

TypeByte(b) == Number(Taken(Reset(b), CharSize, Bytes("n", 0, CharSize)))
IsCompressed(b) == TypeByte(b) = COMPRESS_DATA

\* One turn of the loop of postrecv_data.  decompress() returns its argument
\* when zlib fails; when zlib succeeds it returns the compressed bytes, in
\* memory that it frees.
Postrecv ==
    /\ phase = "POSTRECV"
    /\ LET zipped == SubSeq(buffer.data, CharSize + IntSize + 1, buffer.length)
       IN  IF IsCompressed(buffer)
           THEN /\ phase' = "POSTRECV"
                /\ buffer' \in IF Unzips(zipped)
                               THEN {FromBytes(zipped), FromBytes([i \in DOMAIN zipped |-> Junk])}
                               ELSE {[buffer EXCEPT !.pos = CharSize + IntSize]}
           ELSE IF TypeByte(buffer) = CRYPT_DATA
           THEN phase' = "POSTRECV" /\ buffer' = [buffer EXCEPT !.pos = CharSize]
           ELSE phase' = "UNPACK" /\ buffer' = Reset(buffer)
    /\ UNCHANGED <<channel, message, packed, taken>>

UnpackNext ==
    /\ phase = "UNPACK"
    /\ IF NextField = "none"
       THEN phase' = "DONE" /\ UNCHANGED <<buffer, taken>>
       ELSE /\ phase' = "UNPACK"
            /\ taken' = Append(taken, Field(buffer, NextField))
            /\ buffer' = AfterField(buffer, NextField)
    /\ UNCHANGED <<channel, message, packed>>

ZipSizes == 1..buffer.length

Next ==
    \/ PackNext
    \/ \E compress \in BOOLEAN : PackFails(compress)
    \/ SendPlain
    \/ \E n \in ZipSizes : SendCompressed(n)
    \/ Postrecv
    \/ UnpackNext

Spec == Init /\ [][Next]_vars

-----------------------------------------------------------------------------
(* Properties. *)

TypeOK ==
    /\ channel \in {"peer", "request", "response"}
    /\ message \in PeerMessages \cup Requests \cup Responses
    /\ phase \in {"PACK", "POSTRECV", "UNPACK", "DONE", "FAILED", "CRASHED"}
    /\ packed \in 0..Len(message)
    /\ Len(taken) <= Len(message)

\* Every byte is packed inside the RawData at hand and every byte unpacked from
\* it is one of the message, however the fields fall on the steps in which it
\* grows (RawData::realloc, unpack).  What unpack_string writes to, a field of a
\* TaskInfo, and what zlib writes to are no RawData: see the head.
Inside ==
    /\ DOMAIN buffer.data = 1..buffer.size
    /\ 0 <= buffer.pos /\ buffer.pos <= buffer.length /\ buffer.length <= buffer.size

\* What is unpacked is what was packed, field by field: the two sides agree on
\* the layout of every kind of message, and a list ends where its lines end.
RoundTrip == phase = "DONE" => taken = message

\* decompress() returns the original content: a turn of the loop takes the
\* compression off.  It does not: zlib's bytes are sent shifted by one, zlib
\* fails on them, and the loop goes on with the same message for ever.
Decompresses ==
    [][phase = "POSTRECV" /\ IsCompressed(buffer) => ~IsCompressed(buffer')]_vars
=============================================================================
