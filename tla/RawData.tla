-------------------------------- MODULE RawData --------------------------------
(***************************************************************************)
(* The buffer that every message is packed into and unpacked from.         *)
(*                                                                         *)
(* A byte says what it belongs to: the i-th byte of the number v is        *)
(* <<"n", v, i>>, that of a text, a digest or a file has another tag.      *)
(* Junk is what new char[] holds.                                          *)
(***************************************************************************)
EXTENDS Integers, Sequences

CONSTANT CacheSize  \* CACHE_SIZE: a buffer grows by multiples of it

ASSUME RawDataAssumption == CacheSize \in Nat \ {0}

CharSize == 1
IntSize == 4
LongSize == 8

Junk == <<"junk", 0, 0>>
Bytes(tag, v, n) == [i \in 1..n |-> <<tag, v, i>>]

\* data has size cells; length of them are the message, and pos of those have
\* been packed or unpacked.
NewBuffer(size) == [size |-> size, length |-> 0, pos |-> 0, data |-> [i \in 1..size |-> Junk]]
FromBytes(bytes) == [size |-> Len(bytes), length |-> Len(bytes), pos |-> 0, data |-> bytes]

\* A bug for the mutation runs: one step of growth is taken to be enough.
GrownOnce(size, needed) == size + CacheSize

\* The first size that is large enough, at least one step above the present one.
Grown(size, needed) ==
    IF needed <= size THEN size + CacheSize
    ELSE size + CacheSize * ((needed - size + CacheSize - 1) \div CacheSize)

\* realloc copies the message into the new buffer.
Realloc(b, needed) ==
    LET n == Grown(b.size, needed)
    IN  [b EXCEPT !.size = n,
                  !.data = [i \in 1..n |-> IF i <= b.length THEN b.data[i] ELSE Junk]]

Write(b, bytes) ==
    LET end == b.pos + Len(bytes)
    IN  [b EXCEPT !.pos = end,
                  !.length = IF end > @ THEN end ELSE @,
                  !.data = [i \in DOMAIN @ |-> IF i \in b.pos + 1 .. end THEN bytes[i - b.pos] ELSE @[i]]]

Pack(b, bytes) ==
    Write(IF b.pos + Len(bytes) > b.size THEN Realloc(b, b.pos + Len(bytes)) ELSE b, bytes)

Fits(b, n) == b.pos + n <= b.length

\* What unpack copies, and the buffer after it: nothing happens if less is left.
Taken(b, n, default) == IF Fits(b, n) THEN SubSeq(b.data, b.pos + 1, b.pos + n) ELSE default
Skip(b, n) == IF Fits(b, n) THEN [b EXCEPT !.pos = @ + n] ELSE b

Reset(b) == [b EXCEPT !.pos = 0]

\* The number that bytes are read as.  Bytes of anything else would be some
\* number too; 0 stands for it.
Number(bytes) ==
    IF bytes # << >> /\ bytes[1][1] = "n" /\ bytes = Bytes("n", bytes[1][2], Len(bytes))
    THEN bytes[1][2] ELSE 0

-----------------------------------------------------------------------------
(* Fields: what a pack_... writes and the unpack_... of the same name reads. *)

CharField(v) == [type |-> "char", bytes |-> Bytes("n", v, CharSize)]
IntField(v) == [type |-> "int", bytes |-> Bytes("n", v, IntSize)]
LongField(v) == [type |-> "long", bytes |-> Bytes("n", v, LongSize)]
DigestField(v) == [type |-> "digest", bytes |-> Bytes("d", v, 16)]
\* A text of n characters and the 0 behind it.
TextField(n) == [type |-> "string", bytes |-> Bytes("t", n, n + 1)]
FileField(n) == [type |-> "file", bytes |-> Bytes("f", n, n)]

FieldTypes == {"char", "int", "long", "digest", "string", "file"}

SizeOf == [char |-> CharSize, int |-> IntSize, long |-> LongSize, digest |-> 16]

\* A bug for the mutation runs: the 0 behind a text is not counted.
PackFieldBare(b, f) ==
    CASE f.type = "string" -> Pack(Pack(b, IntField(Len(f.bytes) - 1).bytes), f.bytes)
      [] f.type = "file" -> Pack(Pack(b, LongField(Len(f.bytes)).bytes), f.bytes)
      [] OTHER -> Pack(b, f.bytes)

PackField(b, f) ==
    CASE f.type = "string" -> Pack(Pack(b, IntField(Len(f.bytes)).bytes), f.bytes)
      [] f.type = "file" -> Pack(Pack(b, LongField(Len(f.bytes)).bytes), f.bytes)
      [] OTHER -> Pack(b, f.bytes)

\* A number that is not there is 0, a file that is not there empty.
Field(b, type) ==
    LET zeros(n) == Bytes("n", 0, n)
        junk(n) == [i \in 1..n |-> Junk]
        next(n) == Skip(b, n)
        count == Number(Taken(b, IF type = "file" THEN LongSize ELSE IntSize, zeros(IntSize)))
    IN  [type |-> type,
         bytes |-> CASE type = "string" -> Taken(next(IntSize), count, junk(count))
                     [] type = "file" -> Taken(next(LongSize), count, << >>)
                     [] type = "digest" -> Taken(b, 16, junk(16))
                     [] OTHER -> Taken(b, SizeOf[type], zeros(SizeOf[type]))]

AfterField(b, type) ==
    LET count == Number(Taken(b, IF type = "file" THEN LongSize ELSE IntSize, << >>))
    IN  CASE type = "string" -> Skip(Skip(b, IntSize), count)
          [] type = "file" -> Skip(Skip(b, LongSize), count)
          [] OTHER -> Skip(b, SizeOf[type])
=============================================================================
