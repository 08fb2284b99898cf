----------------------------- MODULE DataOpProofs -----------------------------
(***************************************************************************)
(* Theorems about DataOp, for texts, files, numbers, buffers and steps of  *)
(* growth of any size: no byte is packed outside the RawData or unpacked   *)
(* from outside its message, and what is unpacked is what was packed.      *)
(*                                                                         *)
(* The invariant says where each field lies: there are offsets, one for    *)
(* every field that is packed, and from its offset on the buffer holds the *)
(* field's count, if it has one, and its bytes.  Growth must not disturb   *)
(* that, and unpacking must step from offset to offset.                    *)
(***************************************************************************)
EXTENDS DataOp, SequenceTheorems, TLAPS

-----------------------------------------------------------------------------
(* Buffers *)

Cells == {"junk", "n", "d", "t", "f", "z"} \X Int \X Int

\* The room that there is, the message in it, the position in the message.
Sound(b) ==
    /\ b \in [size : Nat, length : Nat, pos : Nat, data : Seq(Cells)]
    /\ Len(b.data) = b.size /\ b.length <= b.size /\ b.pos <= b.length

\* From off on, b holds these bytes.
Holds(b, off, bytes) ==
    /\ off + Len(bytes) <= b.length
    /\ \A i \in 1..Len(bytes) : b.data[off + i] = bytes[i]

LEMMA BytesType ==
    ASSUME NEW tag \in {"junk", "n", "d", "t", "f", "z"}, NEW v \in Int, NEW n \in Nat
    PROVE  /\ Bytes(tag, v, n) \in Seq(Cells)
           /\ Len(Bytes(tag, v, n)) = n
           /\ \A i \in 1..n : Bytes(tag, v, n)[i] = <<tag, v, i>>
<1>1. \A i \in 1..n : <<tag, v, i>> \in Cells
    BY DEF Cells
<1> QED BY <1>1 DEF Bytes

LEMMA OneByte ==
    ASSUME NEW v \in Int
    PROVE  /\ Bytes("n", v, 1) \in Seq(Cells) /\ Len(Bytes("n", v, 1)) = 1
           /\ Bytes("n", v, 1)[1] = <<"n", v, 1>>
<1> DEFINE one == 1
<1>1. one \in Nat /\ 1 \in 1..one
    OBVIOUS
<1> HIDE DEF one
<1>2. /\ Bytes("n", v, one) \in Seq(Cells) /\ Len(Bytes("n", v, one)) = one
      /\ Bytes("n", v, one)[1] = <<"n", v, 1>>
    BY <1>1, BytesType
<1> QED BY <1>2 DEF one

LEMMA JunkType == Junk \in Cells
BY DEF Junk, Cells

LEMMA NewSound ==
    ASSUME NEW size \in Nat
    PROVE  Sound(NewBuffer(size)) /\ NewBuffer(size).pos = 0 /\ NewBuffer(size).length = 0
<1>1. [i \in 1..size |-> Junk] \in Seq(Cells) /\ Len([i \in 1..size |-> Junk]) = size
    BY JunkType
<1> QED BY <1>1 DEF NewBuffer, Sound

\* One growth is enough, whatever the step.
LEMMA GrownEnough ==
    ASSUME NEW size \in Nat, NEW needed \in Nat, needed > size
    PROVE  Grown(size, needed) \in Nat /\ Grown(size, needed) >= needed
<1> DEFINE x == needed - size
           q == (x + CacheSize - 1) \div CacheSize
           r == (x + CacheSize - 1) % CacheSize
<1>1. CacheSize \in Nat \ {0} /\ x \in Nat
    BY RawDataAssumption
<1>2. /\ q \in Int /\ r \in 0..CacheSize - 1
      /\ x + CacheSize - 1 = CacheSize * q + r
    BY <1>1
<1>3. Grown(size, needed) = size + CacheSize * q
    BY DEF Grown
<1> HIDE DEF q, r
<1>4. CacheSize * q \in Int
    BY <1>1, <1>2
<1> QED BY <1>1, <1>2, <1>3, <1>4

\* What a pack at the end of a message does to the buffer.
LEMMA PackWrites ==
    ASSUME NEW b, Sound(b), b.pos = b.length, NEW bytes \in Seq(Cells)
    PROVE  LET c == Pack(b, bytes) IN
           /\ Sound(c) /\ c.pos = c.length /\ c.length = b.length + Len(bytes)
           /\ \A i \in 1..b.length : c.data[i] = b.data[i]
           /\ Holds(c, b.length, bytes)
<1> DEFINE needed == b.pos + Len(bytes)
           n == Grown(b.size, needed)
           a == IF needed > b.size THEN Realloc(b, needed) ELSE b
           c == Pack(b, bytes)
<1>1. Len(bytes) \in Nat /\ b.size \in Nat /\ b.length \in Nat /\ b.pos \in Nat /\ b.data \in Seq(Cells)
    BY DEF Sound
<1>2. /\ Sound(a) /\ a.pos = b.pos /\ a.length = b.length /\ needed <= a.size
      /\ \A i \in 1..b.length : a.data[i] = b.data[i]
    <2>1. CASE needed > b.size
        <3>1. n \in Nat /\ n >= needed
            BY <1>1, <2>1, GrownEnough
        <3> DEFINE data == [i \in 1..n |-> IF i <= b.length THEN b.data[i] ELSE Junk]
        <3>2. a = [b EXCEPT !.size = n, !.data = data]
            BY <2>1 DEF Realloc
        <3> HIDE DEF n
        <3>3. data \in Seq(Cells) /\ Len(data) = n
            <4>1. \A i \in 1..n : (IF i <= b.length THEN b.data[i] ELSE Junk) \in Cells
                BY <1>1, JunkType DEF Sound
            <4> QED BY <3>1, <4>1
        <3>4. \A i \in 1..b.length : data[i] = b.data[i]
            BY <1>1, <3>1
        <3> HIDE DEF data, a
        <3>5. /\ a.size = n /\ a.data = data /\ a.pos = b.pos /\ a.length = b.length
              /\ a \in [size : Nat, length : Nat, pos : Nat, data : Seq(Cells)]
            BY <3>1, <3>2, <3>3 DEF Sound
        <3> QED BY <1>1, <3>1, <3>3, <3>4, <3>5 DEF Sound
    <2>2. CASE ~(needed > b.size)
        BY <1>1, <2>2
    <2> QED BY <2>1, <2>2
<1>3. c = Write(a, bytes)
    BY DEF Pack
<1> DEFINE data == [i \in DOMAIN a.data |-> IF i \in a.pos + 1 .. needed
                                            THEN bytes[i - a.pos] ELSE a.data[i]]
<1>4. c = [a EXCEPT !.pos = needed, !.length = needed, !.data = data]
    <2>1. a.pos + Len(bytes) = needed /\ (IF needed > a.length THEN needed ELSE a.length) = needed
        BY <1>1, <1>2
    <2> HIDE DEF a, needed
    <2> QED BY <1>3, <2>1 DEF Write
<1> HIDE DEF a, c
<1>5. /\ a.data \in Seq(Cells) /\ a.size \in Nat /\ Len(a.data) = a.size
      /\ a.pos \in Nat /\ a.length \in Nat /\ DOMAIN a.data = 1..a.size
    BY <1>2 DEF Sound
<1>6. needed \in Nat
    BY <1>1
<1>7. /\ data \in Seq(Cells) /\ Len(data) = a.size
      /\ \A i \in 1..a.size : data[i] = IF i \in a.pos + 1 .. needed
                                        THEN bytes[i - a.pos] ELSE a.data[i]
    <2>1. \A i \in 1..a.size : (IF i \in a.pos + 1 .. needed
                                THEN bytes[i - a.pos] ELSE a.data[i]) \in Cells
        <3> TAKE i \in 1..a.size
        <3>1. CASE i \in a.pos + 1 .. needed
            <4>1. i - a.pos \in 1..Len(bytes)
                BY <1>1, <1>2, <3>1
            <4> QED BY <3>1, <4>1, <1>1
        <3>2. CASE ~(i \in a.pos + 1 .. needed)
            BY <3>2, <1>5
        <3> QED BY <3>1, <3>2
    <2>2. data = [i \in 1..a.size |-> IF i \in a.pos + 1 .. needed
                                      THEN bytes[i - a.pos] ELSE a.data[i]]
        BY <1>5
    <2> HIDE DEF data, needed
    <2>3. data \in [1..a.size -> Cells]
        BY <2>1, <2>2
    <2>4. \A i \in 1..a.size : data[i] = IF i \in a.pos + 1 .. needed
                                      THEN bytes[i - a.pos] ELSE a.data[i]
        BY <2>2
    <2>5. data \in Seq(Cells) /\ Len(data) = a.size
        BY <2>3, <1>5
    <2> QED BY <2>4, <2>5
<1> HIDE DEF data
<1>8. /\ c.size = a.size /\ c.pos = needed /\ c.length = needed /\ c.data = data
      /\ c \in [size : Nat, length : Nat, pos : Nat, data : Seq(Cells)]
    <2> HIDE DEF needed
    <2>1. a \in [size : Nat, length : Nat, pos : Nat, data : Seq(Cells)]
        BY <1>2 DEF Sound
    <2> QED BY <2>1, <1>4, <1>6, <1>7
<1>9. Sound(c)
    <2> HIDE DEF needed
    <2> QED BY <1>2, <1>6, <1>7, <1>8 DEF Sound
<1>10. \A i \in 1..b.length : c.data[i] = b.data[i]
    <2> TAKE i \in 1..b.length
    <2>1. i \in 1..a.size /\ ~(i \in a.pos + 1 .. needed)
        BY <1>1, <1>2, <1>5
    <2>2. data[i] = a.data[i]
        <3> HIDE DEF needed
        <3> QED BY <1>7, <2>1
    <2> QED BY <1>2, <1>8, <2>2
<1>11. \A i \in 1..Len(bytes) : c.data[b.length + i] = bytes[i]
    <2> TAKE i \in 1..Len(bytes)
    <2> DEFINE k == b.length + i
    <2>1. k \in 1..a.size /\ k \in a.pos + 1 .. needed /\ k - a.pos = i
        BY <1>1, <1>2, <1>5
    <2> HIDE DEF k, needed
    <2>2. data[k] = bytes[i]
        BY <1>7, <2>1
    <2> QED BY <1>8, <2>2 DEF k
<1>12. Holds(c, b.length, bytes)
    BY <1>1, <1>8, <1>11 DEF Holds
<1>13. c.pos = c.length /\ c.length = b.length + Len(bytes)
    BY <1>1, <1>8
<1> QED BY <1>9, <1>10, <1>12, <1>13 DEF c

-----------------------------------------------------------------------------
(* Fields *)

AllFields ==
    {CharField(v) : v \in Int} \cup {IntField(v) : v \in Int} \cup {LongField(v) : v \in Int}
      \cup {DigestField(v) : v \in Int} \cup {TextField(n) : n \in Nat} \cup {FileField(n) : n \in Nat}

\* The count in front of a field's bytes, and what the two take up together.
Count(f) == CASE f.type = "string" -> IntField(Len(f.bytes)).bytes
              [] f.type = "file" -> LongField(Len(f.bytes)).bytes
              [] OTHER -> << >>
Wire(f) == Len(Count(f)) + Len(f.bytes)

FieldAt(b, off, f) ==
    /\ Holds(b, off, Count(f))
    /\ Holds(b, off + Len(Count(f)), f.bytes)

LEMMA FieldKinds ==
    ASSUME NEW f \in AllFields
    PROVE  /\ f.type \in FieldTypes
           /\ f.bytes \in Seq(Cells)
           /\ f = [type |-> f.type, bytes |-> f.bytes]
           /\ f.type = "string" => Len(f.bytes) > 0
           /\ f.type \in {"char", "int", "long", "digest"} => Len(f.bytes) = SizeOf[f.type]
<1>1. ASSUME NEW v \in Int, f \in {CharField(v), IntField(v), LongField(v)}
      PROVE  /\ f.type \in {"char", "int", "long"} /\ f.bytes \in Seq(Cells)
             /\ f = [type |-> f.type, bytes |-> f.bytes]
             /\ Len(f.bytes) = SizeOf[f.type]
    <2>1. \A n \in Nat : Bytes("n", v, n) \in Seq(Cells) /\ Len(Bytes("n", v, n)) = n
        BY BytesType
    <2> QED BY <1>1, <2>1 DEF CharField, IntField, LongField, CharSize, IntSize, LongSize, SizeOf
<1>2. ASSUME NEW v \in Int, f = DigestField(v)
      PROVE  /\ f.type = "digest" /\ f.bytes \in Seq(Cells)
             /\ f = [type |-> f.type, bytes |-> f.bytes]
             /\ Len(f.bytes) = SizeOf[f.type]
    <2>1. \A n \in Nat : Bytes("d", v, n) \in Seq(Cells) /\ Len(Bytes("d", v, n)) = n
        BY BytesType
    <2> QED BY <1>2, <2>1 DEF DigestField, SizeOf
<1>3. ASSUME NEW n \in Nat, f = TextField(n)
      PROVE  /\ f.type = "string" /\ f.bytes \in Seq(Cells) /\ Len(f.bytes) > 0
             /\ f = [type |-> f.type, bytes |-> f.bytes]
    <2>1. Bytes("t", n, n + 1) \in Seq(Cells) /\ Len(Bytes("t", n, n + 1)) = n + 1
        BY BytesType
    <2> QED BY <1>3, <2>1 DEF TextField
<1>4. ASSUME NEW n \in Nat, f = FileField(n)
      PROVE  /\ f.type = "file" /\ f.bytes \in Seq(Cells)
             /\ f = [type |-> f.type, bytes |-> f.bytes]
    <2>1. Bytes("f", n, n) \in Seq(Cells)
        BY BytesType
    <2> QED BY <1>4, <2>1 DEF FileField
<1>5. \/ \E v \in Int : f \in {CharField(v), IntField(v), LongField(v)}
      \/ \E v \in Int : f = DigestField(v)
      \/ \E n \in Nat : f = TextField(n)
      \/ \E n \in Nat : f = FileField(n)
    BY DEF AllFields
<1>6. CASE \E v \in Int : f \in {CharField(v), IntField(v), LongField(v)}
    BY <1>1, <1>6 DEF FieldTypes
<1>7. CASE \E v \in Int : f = DigestField(v)
    BY <1>2, <1>7 DEF FieldTypes
<1>8. CASE \E n \in Nat : f = TextField(n)
    BY <1>3, <1>8 DEF FieldTypes
<1>9. CASE \E n \in Nat : f = FileField(n)
    BY <1>4, <1>9 DEF FieldTypes
<1> QED BY <1>5, <1>6, <1>7, <1>8, <1>9

\* The three shapes a field has in a message.
LEMMA WireShapes ==
    ASSUME NEW f \in AllFields
    PROVE  /\ Count(f) \in Seq(Cells) /\ Wire(f) \in Nat \ {0}
           /\ Wire(f) = Len(Count(f)) + Len(f.bytes)
           /\ \/ f.type = "string" /\ Len(Count(f)) = IntSize /\ Count(f) = IntField(Len(f.bytes)).bytes
              \/ f.type = "file" /\ Len(Count(f)) = LongSize /\ Count(f) = LongField(Len(f.bytes)).bytes
              \/ /\ f.type \in {"char", "int", "long", "digest"}
                 /\ Count(f) = << >> /\ Wire(f) = SizeOf[f.type]
<1>1. /\ f.type \in FieldTypes /\ Len(f.bytes) \in Nat
      /\ f.type \in {"char", "int", "long", "digest"} => Len(f.bytes) = SizeOf[f.type]
    BY FieldKinds
<1>2. /\ IntField(Len(f.bytes)).bytes \in Seq(Cells) /\ Len(IntField(Len(f.bytes)).bytes) = 4
      /\ LongField(Len(f.bytes)).bytes \in Seq(Cells) /\ Len(LongField(Len(f.bytes)).bytes) = 8
    <2>1. \A n \in Nat : /\ Bytes("n", Len(f.bytes), n) \in Seq(Cells)
                         /\ Len(Bytes("n", Len(f.bytes), n)) = n
        <3>1. Len(f.bytes) \in Int
            BY <1>1
        <3> QED BY <3>1, BytesType
    <2> QED BY <2>1 DEF IntField, LongField, IntSize, LongSize
<1>3. << >> \in Seq(Cells) /\ Len(<< >>) = 0
    OBVIOUS
<1>4. CASE f.type = "string"
    <2>1. Count(f) = IntField(Len(f.bytes)).bytes
        BY <1>4 DEF Count
    <2>2. Count(f) \in Seq(Cells) /\ Len(Count(f)) = 4
        BY <1>2, <2>1
    <2>3. Wire(f) \in Nat \ {0} /\ Wire(f) = Len(Count(f)) + Len(f.bytes)
        BY <1>1, <2>2 DEF Wire
    <2> QED BY <1>4, <2>1, <2>2, <2>3 DEF IntSize
<1>5. CASE f.type = "file"
    <2>1. Count(f) = LongField(Len(f.bytes)).bytes
        BY <1>5 DEF Count
    <2>2. Count(f) \in Seq(Cells) /\ Len(Count(f)) = 8
        BY <1>2, <2>1
    <2>3. Wire(f) \in Nat \ {0} /\ Wire(f) = Len(Count(f)) + Len(f.bytes)
        BY <1>1, <2>2 DEF Wire
    <2> QED BY <1>5, <2>1, <2>2, <2>3 DEF LongSize
<1>6. CASE f.type \in {"char", "int", "long", "digest"}
    <2>1. Count(f) = << >>
        BY <1>6 DEF Count
    <2>2. Wire(f) = SizeOf[f.type]
        BY <1>1, <1>3, <1>6, <2>1 DEF Wire
    <2>3. SizeOf[f.type] \in Nat \ {0}
        BY <1>6 DEF SizeOf, CharSize, IntSize, LongSize
    <2> QED BY <1>3, <1>6, <2>1, <2>2, <2>3 DEF Wire
<1> QED BY <1>1, <1>4, <1>5, <1>6 DEF FieldTypes

\* A field is packed behind what is there already.
LEMMA PackFieldWrites ==
    ASSUME NEW b, Sound(b), b.pos = b.length, NEW f \in AllFields
    PROVE  LET c == PackField(b, f) IN
           /\ Sound(c) /\ c.pos = c.length /\ c.length = b.length + Wire(f)
           /\ \A i \in 1..b.length : c.data[i] = b.data[i]
           /\ FieldAt(c, b.length, f)
<1> DEFINE c == PackField(b, f)
<1>1. /\ f.bytes \in Seq(Cells) /\ Len(f.bytes) \in Nat
      /\ Count(f) \in Seq(Cells) /\ Len(Count(f)) \in Nat
      /\ Wire(f) = Len(Count(f)) + Len(f.bytes) /\ b.length \in Nat
    BY FieldKinds, WireShapes DEF Sound
<1>2. CASE f.type \in {"string", "file"}
    <2> DEFINE m == Pack(b, Count(f))
    <2>1. c = Pack(m, f.bytes)
        BY <1>2 DEF PackField, Count
    <2>2. /\ Sound(m) /\ m.pos = m.length /\ m.length = b.length + Len(Count(f))
          /\ \A i \in 1..b.length : m.data[i] = b.data[i]
          /\ Holds(m, b.length, Count(f))
        BY <1>1, PackWrites
    <2> HIDE DEF m, c
    <2>3. /\ Sound(c) /\ c.pos = c.length /\ c.length = m.length + Len(f.bytes)
          /\ \A i \in 1..m.length : c.data[i] = m.data[i]
          /\ Holds(c, m.length, f.bytes)
        BY <1>1, <2>1, <2>2, PackWrites
    <2>4. c.length = b.length + Wire(f) /\ \A i \in 1..b.length : c.data[i] = b.data[i]
        BY <1>1, <2>2, <2>3
    <2>5. Holds(c, b.length, Count(f))
        <3>1. \A i \in 1..Len(Count(f)) : /\ b.length + i \in 1..m.length
                                          /\ m.data[b.length + i] = Count(f)[i]
            BY <1>1, <2>2 DEF Holds
        <3>2. \A i \in 1..Len(Count(f)) : c.data[b.length + i] = Count(f)[i]
            BY <2>3, <3>1
        <3>3. b.length + Len(Count(f)) <= c.length
            BY <1>1, <2>2, <2>3
        <3> QED BY <3>2, <3>3 DEF Holds
    <2> QED BY <2>2, <2>3, <2>4, <2>5 DEF FieldAt, c
<1>3. CASE f.type \notin {"string", "file"}
    <2>1. c = Pack(b, f.bytes)
        BY <1>3 DEF PackField
    <2>2. Count(f) = << >>
        BY <1>3 DEF Count
    <2> HIDE DEF c
    <2>3. /\ Sound(c) /\ c.pos = c.length /\ c.length = b.length + Len(f.bytes)
          /\ \A i \in 1..b.length : c.data[i] = b.data[i]
          /\ Holds(c, b.length, f.bytes)
        BY <1>1, <2>1, PackWrites
    <2>4. Len(Count(f)) = 0
        BY <2>2
    <2>5. Holds(c, b.length, Count(f))
        BY <1>1, <2>3, <2>4 DEF Holds
    <2> QED BY <1>1, <2>3, <2>4, <2>5 DEF FieldAt, c
<1> QED BY <1>2, <1>3

LEMMA NumberOf ==
    ASSUME NEW v \in Int, NEW n \in Nat \ {0}
    PROVE  Number(Bytes("n", v, n)) = v
<1> DEFINE bytes == Bytes("n", v, n)
<1>1. bytes \in Seq(Cells) /\ Len(bytes) = n /\ bytes[1] = <<"n", v, 1>>
    <2>1. n \in Nat /\ 1 \in 1..n
        OBVIOUS
    <2>2. /\ Bytes("n", v, n) \in Seq(Cells) /\ Len(Bytes("n", v, n)) = n
          /\ \A i \in 1..n : Bytes("n", v, n)[i] = <<"n", v, i>>
        BY <2>1, BytesType
    <2> QED BY <2>1, <2>2
<1> HIDE DEF bytes
<1>2. bytes[1][1] = "n" /\ bytes[1][2] = v /\ bytes # << >>
    BY <1>1
<1>3. bytes = Bytes("n", bytes[1][2], Len(bytes))
    BY <1>1, <1>2 DEF bytes
<1>4. Number(bytes) = v
    BY <1>2, <1>3 DEF Number
<1> QED BY <1>4 DEF bytes

\* What lies at the position is what is taken.
LEMMA TakenHolds ==
    ASSUME NEW b, Sound(b), NEW bytes \in Seq(Cells), Holds(b, b.pos, bytes), NEW default
    PROVE  /\ Taken(b, Len(bytes), default) = bytes
           /\ Skip(b, Len(bytes)) = [b EXCEPT !.pos = b.pos + Len(bytes)]
<1> DEFINE n == Len(bytes)
           s == SubSeq(b.data, b.pos + 1, b.pos + n)
<1>1. /\ n \in Nat /\ b.pos \in Nat /\ b.length \in Nat /\ b.size \in Nat
      /\ b.data \in Seq(Cells) /\ Len(b.data) = b.size /\ b.length <= b.size
      /\ b.pos + n <= b.length
    BY DEF Sound, Holds
<1>2. \A i \in 1..n : b.data[b.pos + i] = bytes[i]
    BY DEF Holds
<1>3. Fits(b, n)
    BY <1>1 DEF Fits
<1>4. \A i \in b.pos + 1 .. b.pos + n : b.data[i] \in Cells
    BY <1>1
<1> DEFINE first == b.pos + 1
           last == b.pos + n
<1>5. first \in Int /\ last \in Int /\ last - first + 1 = n /\ (first <= last <=> n > 0)
    <2> HIDE DEF n
    <2>1. first \in Int /\ last \in Int
        BY <1>1
    <2>2. last - first + 1 = n
        BY <1>1
    <2>3. first <= last <=> n > 0
        BY <1>1
    <2> QED BY <2>1, <2>2, <2>3
<1>6. s \in Seq(Cells) /\ Len(s) = n /\ \A i \in 1..n : s[i] = b.data[b.pos + i]
    <2>1. \A i \in 1..n : b.data[first + i - 1] = b.data[b.pos + i]
        BY <1>1
    <2>2. \A i \in first .. last : b.data[i] \in Cells
        BY <1>4
    <2> HIDE DEF first, last
    <2>3. /\ SubSeq(b.data, first, last) \in Seq(Cells)
          /\ Len(SubSeq(b.data, first, last)) = IF first <= last THEN last - first + 1 ELSE 0
          /\ \A i \in 1 .. last - first + 1 : SubSeq(b.data, first, last)[i] = b.data[first + i - 1]
        BY <1>5, <2>2, SubSeqProperties
    <2>4. s = SubSeq(b.data, first, last)
        BY DEF first, last
    <2> HIDE DEF s
    <2> QED BY <1>1, <1>5, <2>1, <2>3, <2>4
<1>7. s = bytes
    <2> HIDE DEF s
    <2> QED BY <1>2, <1>6, SeqEqual
<1> QED BY <1>3, <1>7 DEF Taken, Skip

\* What was packed last field by field is read first field by field.
LEMMA FieldRead ==
    ASSUME NEW b, Sound(b), NEW f \in AllFields, FieldAt(b, b.pos, f)
    PROVE  /\ Field(b, f.type) = f
           /\ AfterField(b, f.type) = [b EXCEPT !.pos = b.pos + Wire(f)]
           /\ b.pos + Wire(f) <= b.length
<1> DEFINE n == Len(f.bytes)
<1>1. /\ f.bytes \in Seq(Cells) /\ n \in Nat /\ f = [type |-> f.type, bytes |-> f.bytes]
      /\ Count(f) \in Seq(Cells) /\ Len(Count(f)) \in Nat
      /\ Wire(f) = Len(Count(f)) + n /\ b.pos \in Nat
    BY FieldKinds, WireShapes DEF Sound
<1>2. /\ Holds(b, b.pos, Count(f))
      /\ Holds(b, b.pos + Len(Count(f)), f.bytes)
    BY DEF FieldAt
<1>3. b.pos + Wire(f) <= b.length
    BY <1>1, <1>2 DEF Holds
<1> DEFINE m == [b EXCEPT !.pos = b.pos + Len(Count(f))]
<1>4. /\ \A d : Taken(b, Len(Count(f)), d) = Count(f)
      /\ Skip(b, Len(Count(f))) = m
    BY <1>1, <1>2, TakenHolds
<1>5. /\ Sound(m) /\ m.pos = b.pos + Len(Count(f)) /\ Holds(m, m.pos, f.bytes)
    <2>1. b.pos + Len(Count(f)) \in Nat /\ b.pos + Len(Count(f)) <= b.length
        BY <1>1, <1>2 DEF Holds
    <2>2. b \in [size : Nat, length : Nat, pos : Nat, data : Seq(Cells)]
        BY DEF Sound
    <2>3. /\ m \in [size : Nat, length : Nat, pos : Nat, data : Seq(Cells)]
          /\ m.pos = b.pos + Len(Count(f))
          /\ m.size = b.size /\ m.length = b.length /\ m.data = b.data
        BY <2>1, <2>2
    <2> HIDE DEF m
    <2>4. Sound(m)
        BY <2>1, <2>3 DEF Sound
    <2>5. Holds(m, m.pos, f.bytes)
        BY <1>2, <2>3 DEF Holds
    <2> QED BY <2>3, <2>4, <2>5
<1>6. /\ \A d : Taken(m, n, d) = f.bytes
      /\ Skip(m, n) = [m EXCEPT !.pos = m.pos + n]
    <2> HIDE DEF m
    <2> QED BY <1>1, <1>5, TakenHolds
<1>7. [m EXCEPT !.pos = m.pos + n] = [b EXCEPT !.pos = b.pos + Wire(f)]
    <2>1. m.pos + n = b.pos + Wire(f)
        <3> HIDE DEF n, m
        <3> QED BY <1>1, <1>5
    <2>2. \A x : [m EXCEPT !.pos = x] = [b EXCEPT !.pos = x]
        BY DEF Sound
    <2> HIDE DEF m, n
    <2> QED BY <2>1, <2>2
<1>8. CASE f.type = "string"
    <2>1. Len(Count(f)) = IntSize /\ Count(f) = Bytes("n", n, IntSize)
        BY <1>8, WireShapes DEF IntField
    <2>2. Number(Count(f)) = n
        <3> HIDE DEF n
        <3>1. \A k \in Nat \ {0} : Number(Bytes("n", n, k)) = n
            BY <1>1, NumberOf
        <3>2. IntSize \in Nat \ {0}
            BY DEF IntSize
        <3> QED BY <2>1, <3>1, <3>2
    <2> HIDE DEF m, n
    <2>3. /\ \A d : Number(Taken(b, IntSize, d)) = n
          /\ Skip(b, IntSize) = m
        BY <1>4, <2>1, <2>2
    <2>4. Field(b, "string") = [type |-> "string", bytes |-> f.bytes]
        BY <1>6, <2>3 DEF Field
    <2>5. AfterField(b, "string") = Skip(m, n)
        BY <2>3 DEF AfterField
    <2> QED BY <1>1, <1>3, <1>6, <1>7, <1>8, <2>4, <2>5
<1>9. CASE f.type = "file"
    <2>1. Len(Count(f)) = LongSize /\ Count(f) = Bytes("n", n, LongSize)
        BY <1>9, WireShapes DEF LongField
    <2>2. Number(Count(f)) = n
        <3> HIDE DEF n
        <3>1. \A k \in Nat \ {0} : Number(Bytes("n", n, k)) = n
            BY <1>1, NumberOf
        <3>2. LongSize \in Nat \ {0}
            BY DEF LongSize
        <3> QED BY <2>1, <3>1, <3>2
    <2> HIDE DEF m, n
    <2>3. /\ \A d : Number(Taken(b, LongSize, d)) = n
          /\ Skip(b, LongSize) = m
        BY <1>4, <2>1, <2>2
    <2>4. Field(b, "file") = [type |-> "file", bytes |-> f.bytes]
        BY <1>6, <2>3 DEF Field
    <2>5. AfterField(b, "file") = Skip(m, n)
        BY <2>3 DEF AfterField
    <2> QED BY <1>1, <1>3, <1>6, <1>7, <1>9, <2>4, <2>5
<1>10. CASE f.type \in {"char", "int", "long", "digest"}
    <2>1. Count(f) = << >> /\ Wire(f) = SizeOf[f.type] /\ n = SizeOf[f.type] /\ Len(Count(f)) = 0
        BY <1>10, WireShapes, FieldKinds
    <2>2. m = b
        BY <1>1, <2>1 DEF Sound
    <2> HIDE DEF m, n
    <2>3. /\ \A d : Taken(b, SizeOf[f.type], d) = f.bytes
          /\ Skip(b, SizeOf[f.type]) = [b EXCEPT !.pos = b.pos + Wire(f)]
        BY <1>6, <1>7, <2>1, <2>2
    <2>4. Field(b, f.type) = [type |-> f.type, bytes |-> f.bytes]
        <3>1. CASE f.type = "digest"
            <4>1. \A d : Taken(b, 16, d) = f.bytes
                BY <2>3, <3>1 DEF SizeOf
            <4> QED BY <3>1, <4>1 DEF Field
        <3>2. CASE f.type \in {"char", "int", "long"}
            BY <2>3, <3>2 DEF Field
        <3> QED BY <1>10, <3>1, <3>2
    <2>5. AfterField(b, f.type) = Skip(b, SizeOf[f.type])
        BY <1>10 DEF AfterField
    <2> QED BY <1>1, <1>3, <2>3, <2>4, <2>5
<1> QED BY <1>8, <1>9, <1>10, WireShapes

-----------------------------------------------------------------------------
(* Messages *)

PeerTypes == {SMALL_FILE_DATA, LARGE_FILE_BEGIN, MESSAGE_DATA, LASTPOS, REPLY, LARGE_FILE_PART}

\* The fields after the first one have these types.
Follows(m, types) ==
    /\ Len(types) \in Nat /\ Len(m) = Len(types) + 1
    /\ \A k \in 1..Len(types) : m[k + 1].type = types[k]

\* A message has the fields that its reader expects.
WellFormed ==
    /\ message \in Seq(AllFields) /\ Len(message) > 0
    /\ channel = "peer" =>
          \E type \in PeerTypes : message[1] = CharField(type) /\ Follows(message, PeerFields(type))
    /\ channel = "request" =>
          \E type \in 0..8 : message[1] = IntField(type) /\ Follows(message, RequestFields(type))
    /\ channel = "response" =>
          /\ message[Len(message)].type = "int"
          /\ \A k \in 1..Len(message) - 1 : message[k].type = "string"

LEMMA FieldsIn ==
    /\ \A v \in Int : /\ CharField(v) \in AllFields /\ CharField(v).type = "char"
                      /\ IntField(v) \in AllFields /\ IntField(v).type = "int"
                      /\ LongField(v) \in AllFields /\ LongField(v).type = "long"
                      /\ DigestField(v) \in AllFields /\ DigestField(v).type = "digest"
    /\ \A n \in Nat : /\ TextField(n) \in AllFields /\ TextField(n).type = "string"
                      /\ FileField(n) \in AllFields /\ FileField(n).type = "file"
<1>1. ASSUME NEW v \in Int
      PROVE  /\ CharField(v) \in AllFields /\ IntField(v) \in AllFields
             /\ LongField(v) \in AllFields /\ DigestField(v) \in AllFields
    BY DEF AllFields
<1>2. ASSUME NEW n \in Nat
      PROVE  TextField(n) \in AllFields /\ FileField(n) \in AllFields
    BY DEF AllFields
<1>3. ASSUME NEW v
      PROVE  /\ CharField(v).type = "char" /\ IntField(v).type = "int"
             /\ LongField(v).type = "long" /\ DigestField(v).type = "digest"
             /\ TextField(v).type = "string" /\ FileField(v).type = "file"
    BY DEF CharField, IntField, LongField, DigestField, TextField, FileField
<1> QED BY <1>1, <1>2, <1>3

LEMMA PeerKinds ==
    ASSUME NEW m \in PeerMessages
    PROVE
           \/ \E id \in Numbers, t \in Texts, n \in Files :
                 m = <<CharField(SMALL_FILE_DATA), LongField(id), DigestField(id), TextField(t), FileField(n)>>
           \/ \E id \in Numbers, t \in Texts, n \in Numbers :
                 m = <<CharField(LARGE_FILE_BEGIN), LongField(id), DigestField(id), TextField(t), LongField(n)>>
           \/ \E id \in Numbers, at \in Numbers, n \in Files :
                 m = <<CharField(LARGE_FILE_PART), LongField(id), LongField(at), FileField(n)>>
           \/ \E id \in Numbers, t \in Texts : m = <<CharField(MESSAGE_DATA), LongField(id), TextField(t)>>
           \/ \E id \in Numbers, task \in Numbers : m = <<CharField(REPLY), LongField(id), LongField(task)>>
           \/ \E id \in Numbers, task \in Numbers, at \in Numbers :
                 m = <<CharField(LASTPOS), LongField(id), LongField(task), LongField(at)>>
<1> DEFINE small == {<<CharField(SMALL_FILE_DATA), LongField(id), DigestField(id), TextField(t), FileField(n)>> :
                        id \in Numbers, t \in Texts, n \in Files}
           large == {<<CharField(LARGE_FILE_BEGIN), LongField(id), DigestField(id), TextField(t), LongField(n)>> :
                        id \in Numbers, t \in Texts, n \in Numbers}
           part == {<<CharField(LARGE_FILE_PART), LongField(id), LongField(at), FileField(n)>> :
                        id \in Numbers, at \in Numbers, n \in Files}
           text == {<<CharField(MESSAGE_DATA), LongField(id), TextField(t)>> : id \in Numbers, t \in Texts}
           reply == {<<CharField(REPLY), LongField(id), LongField(task)>> : id \in Numbers, task \in Numbers}
           lastpos == {<<CharField(LASTPOS), LongField(id), LongField(task), LongField(at)>> :
                        id \in Numbers, task \in Numbers, at \in Numbers}
<1>1. m \in UNION {small, large, part, text, reply, lastpos}
    BY DEF PeerMessages
<1>2. CASE m \in small
    <2>1. \E id \in Numbers, t \in Texts, n \in Files : m = <<CharField(SMALL_FILE_DATA), LongField(id), DigestField(id), TextField(t), FileField(n)>>
        BY <1>2
    <2> QED BY <2>1
<1>3. CASE m \in large
    <2>1. \E id \in Numbers, t \in Texts, n \in Numbers : m = <<CharField(LARGE_FILE_BEGIN), LongField(id), DigestField(id), TextField(t), LongField(n)>>
        BY <1>3
    <2> QED BY <2>1
<1>4. CASE m \in part
    <2>1. \E id \in Numbers, at \in Numbers, n \in Files : m = <<CharField(LARGE_FILE_PART), LongField(id), LongField(at), FileField(n)>>
        BY <1>4
    <2> QED BY <2>1
<1>5. CASE m \in text
    <2>1. \E id \in Numbers, t \in Texts : m = <<CharField(MESSAGE_DATA), LongField(id), TextField(t)>>
        BY <1>5
    <2> QED BY <2>1
<1>6. CASE m \in reply
    <2>1. \E id \in Numbers, task \in Numbers : m = <<CharField(REPLY), LongField(id), LongField(task)>>
        BY <1>6
    <2> QED BY <2>1
<1>7. CASE m \in lastpos
    <2>1. \E id \in Numbers, task \in Numbers, at \in Numbers : m = <<CharField(LASTPOS), LongField(id), LongField(task), LongField(at)>>
        BY <1>7
    <2> QED BY <2>1
<1> HIDE DEF small, large, part, text, reply, lastpos
<1> QED BY <1>1, <1>2, <1>3, <1>4, <1>5, <1>6, <1>7

LEMMA RequestKinds ==
    ASSUME NEW m \in Requests
    PROVE
           \/ \E type \in {GET_STATUS, STOP_SERVER, LIST_SEND, LIST_RECEIVE} : m = <<IntField(type)>>
           \/ \E type \in {ADD_MESSAGE, ADD_FILE}, p \in Numbers, t \in Texts :
                 m = <<IntField(type), IntField(p), TextField(t)>>
           \/ \E id \in Numbers, t \in Texts : m = <<IntField(GET_RECEIVED), LongField(id), TextField(t)>>
           \/ \E type \in {DELETE_SEND, DELETE_RECEIVE}, id \in Numbers : m = <<IntField(type), LongField(id)>>
<1> DEFINE plain == {<<IntField(type)>> : type \in {GET_STATUS, STOP_SERVER, LIST_SEND, LIST_RECEIVE}}
           add == {<<IntField(type), IntField(p), TextField(t)>> :
                        type \in {ADD_MESSAGE, ADD_FILE}, p \in Numbers, t \in Texts}
           get == {<<IntField(GET_RECEIVED), LongField(id), TextField(t)>> : id \in Numbers, t \in Texts}
           delete == {<<IntField(type), LongField(id)>> : type \in {DELETE_SEND, DELETE_RECEIVE}, id \in Numbers}
<1>1. m \in UNION {plain, add, get, delete}
    BY DEF Requests
<1>2. CASE m \in plain
    <2>1. \E type \in {GET_STATUS, STOP_SERVER, LIST_SEND, LIST_RECEIVE} : m = <<IntField(type)>>
        BY <1>2
    <2> QED BY <2>1
<1>3. CASE m \in add
    <2>1. \E type \in {ADD_MESSAGE, ADD_FILE}, p \in Numbers, t \in Texts : m = <<IntField(type), IntField(p), TextField(t)>>
        BY <1>3
    <2> QED BY <2>1
<1>4. CASE m \in get
    <2>1. \E id \in Numbers, t \in Texts : m = <<IntField(GET_RECEIVED), LongField(id), TextField(t)>>
        BY <1>4
    <2> QED BY <2>1
<1>5. CASE m \in delete
    <2>1. \E type \in {DELETE_SEND, DELETE_RECEIVE}, id \in Numbers : m = <<IntField(type), LongField(id)>>
        BY <1>5
    <2> QED BY <2>1
<1> HIDE DEF plain, add, get, delete
<1> QED BY <1>1, <1>2, <1>3, <1>4, <1>5

LEMMA PeerWellFormed ==
    ASSUME message \in PeerMessages, channel = "peer"
    PROVE  WellFormed
<1> USE DataOpAssumption
<1> SUFFICES /\ message \in Seq(AllFields) /\ Len(message) > 0
             /\ \E type \in PeerTypes : message[1] = CharField(type) /\ Follows(message, PeerFields(type))
    BY DEF WellFormed
<1> USE FieldsIn
<1>1. ASSUME NEW id \in Numbers, NEW t \in Texts, NEW n \in Files,
             message = <<CharField(SMALL_FILE_DATA), LongField(id), DigestField(id), TextField(t), FileField(n)>>
      PROVE  /\ message \in Seq(AllFields) /\ Len(message) > 0
             /\ message[1] = CharField(SMALL_FILE_DATA)
             /\ Follows(message, PeerFields(SMALL_FILE_DATA))
    <2>1. PeerFields(SMALL_FILE_DATA) = <<"long", "digest", "string", "file">>
        BY DEF PeerFields, SMALL_FILE_DATA, LARGE_FILE_BEGIN, LARGE_FILE_PART, MESSAGE_DATA, LASTPOS, REPLY
    <2>2. CharField(SMALL_FILE_DATA) \in AllFields
        BY DEF SMALL_FILE_DATA
    <2> QED BY <1>1, <2>1, <2>2 DEF Follows
<1>2. ASSUME NEW id \in Numbers, NEW t \in Texts, NEW n \in Numbers,
             message = <<CharField(LARGE_FILE_BEGIN), LongField(id), DigestField(id), TextField(t), LongField(n)>>
      PROVE  /\ message \in Seq(AllFields) /\ Len(message) > 0
             /\ message[1] = CharField(LARGE_FILE_BEGIN)
             /\ Follows(message, PeerFields(LARGE_FILE_BEGIN))
    <2>1. PeerFields(LARGE_FILE_BEGIN) = <<"long", "digest", "string", "long">>
        BY DEF PeerFields, SMALL_FILE_DATA, LARGE_FILE_BEGIN, LARGE_FILE_PART, MESSAGE_DATA, LASTPOS, REPLY
    <2>2. CharField(LARGE_FILE_BEGIN) \in AllFields
        BY DEF LARGE_FILE_BEGIN
    <2> QED BY <1>2, <2>1, <2>2 DEF Follows
<1>3. ASSUME NEW id \in Numbers, NEW at \in Numbers, NEW n \in Files,
             message = <<CharField(LARGE_FILE_PART), LongField(id), LongField(at), FileField(n)>>
      PROVE  /\ message \in Seq(AllFields) /\ Len(message) > 0
             /\ message[1] = CharField(LARGE_FILE_PART)
             /\ Follows(message, PeerFields(LARGE_FILE_PART))
    <2>1. PeerFields(LARGE_FILE_PART) = <<"long", "long", "file">>
        BY DEF PeerFields, SMALL_FILE_DATA, LARGE_FILE_BEGIN, LARGE_FILE_PART, MESSAGE_DATA, LASTPOS, REPLY
    <2>2. CharField(LARGE_FILE_PART) \in AllFields
        BY DEF LARGE_FILE_PART
    <2> QED BY <1>3, <2>1, <2>2 DEF Follows
<1>4. ASSUME NEW id \in Numbers, NEW t \in Texts,
             message = <<CharField(MESSAGE_DATA), LongField(id), TextField(t)>>
      PROVE  /\ message \in Seq(AllFields) /\ Len(message) > 0
             /\ message[1] = CharField(MESSAGE_DATA)
             /\ Follows(message, PeerFields(MESSAGE_DATA))
    <2>1. PeerFields(MESSAGE_DATA) = <<"long", "string">>
        BY DEF PeerFields, SMALL_FILE_DATA, LARGE_FILE_BEGIN, LARGE_FILE_PART, MESSAGE_DATA, LASTPOS, REPLY
    <2>2. CharField(MESSAGE_DATA) \in AllFields
        BY DEF MESSAGE_DATA
    <2> QED BY <1>4, <2>1, <2>2 DEF Follows
<1>5. ASSUME NEW id \in Numbers, NEW task \in Numbers,
             message = <<CharField(REPLY), LongField(id), LongField(task)>>
      PROVE  /\ message \in Seq(AllFields) /\ Len(message) > 0
             /\ message[1] = CharField(REPLY)
             /\ Follows(message, PeerFields(REPLY))
    <2>1. PeerFields(REPLY) = <<"long", "long">>
        BY DEF PeerFields, SMALL_FILE_DATA, LARGE_FILE_BEGIN, LARGE_FILE_PART, MESSAGE_DATA, LASTPOS, REPLY
    <2>2. CharField(REPLY) \in AllFields
        BY DEF REPLY
    <2> QED BY <1>5, <2>1, <2>2 DEF Follows
<1>6. ASSUME NEW id \in Numbers, NEW task \in Numbers, NEW at \in Numbers,
             message = <<CharField(LASTPOS), LongField(id), LongField(task), LongField(at)>>
      PROVE  /\ message \in Seq(AllFields) /\ Len(message) > 0
             /\ message[1] = CharField(LASTPOS)
             /\ Follows(message, PeerFields(LASTPOS))
    <2>1. PeerFields(LASTPOS) = <<"long", "long", "long">>
        BY DEF PeerFields, SMALL_FILE_DATA, LARGE_FILE_BEGIN, LARGE_FILE_PART, MESSAGE_DATA, LASTPOS, REPLY
    <2>2. CharField(LASTPOS) \in AllFields
        BY DEF LASTPOS
    <2> QED BY <1>6, <2>1, <2>2 DEF Follows
<1>8. {SMALL_FILE_DATA, LARGE_FILE_BEGIN, LARGE_FILE_PART, MESSAGE_DATA, REPLY, LASTPOS} = PeerTypes
    BY DEF PeerTypes
<1> HIDE FieldsIn, DataOpAssumption
<1> QED BY <1>1, <1>2, <1>3, <1>4, <1>5, <1>6, <1>8, PeerKinds

LEMMA RequestWellFormed ==
    ASSUME message \in Requests, channel = "request"
    PROVE  WellFormed
<1> USE DataOpAssumption
<1> SUFFICES /\ message \in Seq(AllFields) /\ Len(message) > 0
             /\ \E type \in 0..8 : message[1] = IntField(type) /\ Follows(message, RequestFields(type))
    BY DEF WellFormed
<1> USE FieldsIn
<1> DEFINE Codes == {GET_STATUS, STOP_SERVER, LIST_SEND, LIST_RECEIVE, ADD_MESSAGE, ADD_FILE,
                     GET_RECEIVED, DELETE_SEND, DELETE_RECEIVE}
<1>1. Codes \subseteq 0..8
    BY DEF GET_STATUS, STOP_SERVER, LIST_SEND, LIST_RECEIVE, ADD_MESSAGE, ADD_FILE, GET_RECEIVED, DELETE_SEND, DELETE_RECEIVE
<1>2. /\ \A type \in {GET_STATUS, STOP_SERVER, LIST_SEND, LIST_RECEIVE} : RequestFields(type) = << >>
      /\ \A type \in {ADD_MESSAGE, ADD_FILE} : RequestFields(type) = <<"int", "string">>
      /\ RequestFields(GET_RECEIVED) = <<"long", "string">>
      /\ \A type \in {DELETE_SEND, DELETE_RECEIVE} : RequestFields(type) = <<"long">>
    BY DEF RequestFields, GET_STATUS, STOP_SERVER, LIST_SEND, LIST_RECEIVE, ADD_MESSAGE, ADD_FILE, GET_RECEIVED, DELETE_SEND, DELETE_RECEIVE
<1>3. \A type \in Codes : IntField(type) \in AllFields
    <2> HIDE DEF Codes
    <2> QED BY <1>1
<1>4. ASSUME NEW type \in {GET_STATUS, STOP_SERVER, LIST_SEND, LIST_RECEIVE}, message = <<IntField(type)>>
      PROVE  /\ message \in Seq(AllFields) /\ Len(message) > 0
             /\ message[1] = IntField(type) /\ Follows(message, RequestFields(type))
    BY <1>2, <1>3, <1>4 DEF Follows
<1>5. ASSUME NEW type \in {ADD_MESSAGE, ADD_FILE}, NEW p \in Numbers, NEW t \in Texts,
             message = <<IntField(type), IntField(p), TextField(t)>>
      PROVE  /\ message \in Seq(AllFields) /\ Len(message) > 0
             /\ message[1] = IntField(type) /\ Follows(message, RequestFields(type))
    <2>1. RequestFields(type) = <<"int", "string">> /\ IntField(type) \in AllFields
        BY <1>2, <1>3
    <2>2. message \in Seq(AllFields) /\ Len(message) > 0 /\ message[1] = IntField(type)
        BY <1>5, <2>1
    <2>3. Follows(message, <<"int", "string">>)
        BY <1>5 DEF Follows
    <2> QED BY <2>1, <2>2, <2>3
<1>6. ASSUME NEW id \in Numbers, NEW t \in Texts,
             message = <<IntField(GET_RECEIVED), LongField(id), TextField(t)>>
      PROVE  /\ message \in Seq(AllFields) /\ Len(message) > 0
             /\ message[1] = IntField(GET_RECEIVED) /\ Follows(message, RequestFields(GET_RECEIVED))
    BY <1>2, <1>3, <1>6 DEF Follows
<1>7. ASSUME NEW type \in {DELETE_SEND, DELETE_RECEIVE}, NEW id \in Numbers,
             message = <<IntField(type), LongField(id)>>
      PROVE  /\ message \in Seq(AllFields) /\ Len(message) > 0
             /\ message[1] = IntField(type) /\ Follows(message, RequestFields(type))
    <2>1. RequestFields(type) = <<"long">> /\ IntField(type) \in AllFields
        BY <1>2, <1>3
    <2>2. message \in Seq(AllFields) /\ Len(message) > 0 /\ message[1] = IntField(type)
        BY <1>7, <2>1
    <2>3. Follows(message, <<"long">>)
        BY <1>7 DEF Follows
    <2> QED BY <2>1, <2>2, <2>3
<1>9. \A type \in Codes : type \in 0..8
    BY <1>1
<1> HIDE FieldsIn, DataOpAssumption
<1> QED BY <1>4, <1>5, <1>6, <1>7, <1>9, RequestKinds, Zenon

LEMMA ResponseWellFormed ==
    ASSUME message \in Responses, channel = "response"
    PROVE  WellFormed
<1> USE DataOpAssumption
<1>1. PICK ls \in Lines, ret \in Numbers :
              message = Append([i \in DOMAIN ls |-> TextField(ls[i])], IntField(ret))
    BY DEF Responses
<1> DEFINE texts == [i \in 1..Len(ls) |-> TextField(ls[i])]
<1>2. ls \in Seq(Nat) /\ Len(ls) \in Nat /\ DOMAIN ls = 1..Len(ls) /\ \A i \in 1..Len(ls) : ls[i] \in Nat
    <2>1. ls \in Seq(Texts) /\ Texts \subseteq Nat
        OBVIOUS
    <2>2. ls \in Seq(Nat)
        BY <2>1, SeqMonotonic
    <2> QED BY <2>2
<1>3. message = Append(texts, IntField(ret))
    BY <1>1, <1>2
<1>4. \A i \in 1..Len(ls) : TextField(ls[i]) \in AllFields /\ TextField(ls[i]).type = "string"
    BY <1>2, FieldsIn
<1>5. /\ texts \in Seq(AllFields) /\ Len(texts) = Len(ls)
      /\ \A i \in 1..Len(ls) : texts[i].type = "string"
    BY <1>2, <1>4
<1> HIDE DEF texts
<1>6. IntField(ret) \in AllFields /\ IntField(ret).type = "int"
    BY FieldsIn
<1>7. /\ message \in Seq(AllFields) /\ Len(message) = Len(ls) + 1
      /\ message[Len(ls) + 1] = IntField(ret)
      /\ \A i \in 1..Len(ls) : message[i] = texts[i]
    BY <1>2, <1>3, <1>5, <1>6
<1> QED BY <1>2, <1>5, <1>6, <1>7 DEF WellFormed

-----------------------------------------------------------------------------
(* Where the fields lie *)

\* The offsets of the first n fields and the one behind them.
Offsets(off, n) ==
    /\ off \in [0..n -> Nat] /\ off[0] = 0
    /\ \A k \in 1..n : off[k] = off[k - 1] + Wire(message[k])
    /\ \A j, k \in 0..n : j < k => off[j] < off[k]

\* The buffer holds the first n fields and nothing else.
Laid(b, off, n) ==
    /\ Offsets(off, n)
    /\ \A k \in 1..n : FieldAt(b, off[k - 1], message[k])
    /\ b.length = off[n]

LEMMA HoldsKept ==
    ASSUME NEW b, NEW c, NEW off \in Nat, NEW bytes \in Seq(Cells),
           b.length \in Nat, c.length \in Nat, b.length <= c.length,
           \A i \in 1..b.length : c.data[i] = b.data[i],
           Holds(b, off, bytes)
    PROVE  Holds(c, off, bytes)
<1>1. Len(bytes) \in Nat /\ off + Len(bytes) <= b.length
    BY DEF Holds
<1>2. \A i \in 1..Len(bytes) : off + i \in 1..b.length /\ b.data[off + i] = bytes[i]
    BY <1>1 DEF Holds
<1>3. \A i \in 1..Len(bytes) : c.data[off + i] = bytes[i]
    BY <1>2
<1>4. off + Len(bytes) <= c.length
    BY <1>1
<1> QED BY <1>3, <1>4 DEF Holds

LEMMA FieldKept ==
    ASSUME NEW b, NEW c, NEW off \in Nat, NEW f \in AllFields,
           b.length \in Nat, c.length \in Nat, b.length <= c.length,
           \A i \in 1..b.length : c.data[i] = b.data[i],
           FieldAt(b, off, f)
    PROVE  FieldAt(c, off, f)
<1>1. Count(f) \in Seq(Cells) /\ f.bytes \in Seq(Cells) /\ off + Len(Count(f)) \in Nat
    BY FieldKinds, WireShapes
<1>2. Holds(c, off, Count(f))
    BY <1>1, HoldsKept DEF FieldAt
<1>3. Holds(c, off + Len(Count(f)), f.bytes)
    BY <1>1, HoldsKept DEF FieldAt
<1> QED BY <1>2, <1>3 DEF FieldAt

\* One more field behind the others.
LEMMA LaidNext ==
    ASSUME message \in Seq(AllFields), NEW n \in Nat, n < Len(message),
           NEW b, NEW c, NEW off, Laid(b, off, n), Sound(b), Sound(c),
           c.length = b.length + Wire(message[n + 1]),
           \A i \in 1..b.length : c.data[i] = b.data[i],
           FieldAt(c, b.length, message[n + 1])
    PROVE  \E off2 : Laid(c, off2, n + 1)
<1> DEFINE w == Wire(message[n + 1])
           off2 == [k \in 0..n + 1 |-> IF k <= n THEN off[k] ELSE off[n] + w]
<1>1. /\ off \in [0..n -> Nat] /\ off[0] = 0 /\ b.length = off[n]
      /\ \A k \in 1..n : off[k] = off[k - 1] + Wire(message[k])
      /\ \A j, k \in 0..n : j < k => off[j] < off[k]
      /\ \A k \in 1..n : FieldAt(b, off[k - 1], message[k])
    BY DEF Laid, Offsets
<1>2. Len(message) \in Nat /\ \A k \in 1..n + 1 : message[k] \in AllFields
    OBVIOUS
<1>3. w \in Nat \ {0}
    <2>1. message[n + 1] \in AllFields
        BY <1>2
    <2> QED BY <2>1, WireShapes
<1>4. b.length \in Nat /\ c.length \in Nat /\ b.length <= c.length /\ c.length = b.length + w
    BY <1>3 DEF Sound
<1> HIDE DEF w
<1>5. \A k \in 0..n : off[k] \in Nat
    BY <1>1
<1>6. off2 \in [0..n + 1 -> Nat] /\ \A k \in 0..n : off2[k] = off[k]
    BY <1>3, <1>5
<1>7. off2[n + 1] = off[n] + w
    OBVIOUS
<1> HIDE DEF off2
<1>8. off2[0] = 0
    BY <1>1, <1>6
<1>9. \A k \in 1..n + 1 : off2[k] = off2[k - 1] + Wire(message[k])
    <2> TAKE k \in 1..n + 1
    <2>1. CASE k <= n
        <3>1. k \in 1..n /\ k \in 0..n /\ k - 1 \in 0..n
            BY <2>1
        <3> QED BY <3>1, <1>1, <1>6
    <2>2. CASE k = n + 1
        <3>1. k - 1 = n /\ n \in 0..n
            BY <2>2
        <3>2. off2[k - 1] = off[n]
            BY <3>1, <1>6
        <3> QED BY <2>2, <3>2, <1>7 DEF w
    <2> QED BY <2>1, <2>2
<1>10. \A j, k \in 0..n + 1 : j < k => off2[j] < off2[k]
    <2> TAKE j \in 0..n + 1, k \in 0..n + 1
    <2> HAVE j < k
    <2>1. j \in 0..n /\ off2[j] = off[j] /\ off[j] \in Nat /\ off[n] \in Nat
        BY <1>5, <1>6
    <2>2. CASE k <= n
        BY <2>1, <2>2, <1>1, <1>6
    <2>3. CASE k = n + 1
        <3>1. off[j] <= off[n]
            <4>1. CASE j = n
                BY <4>1, <2>1
            <4>2. CASE j < n
                BY <4>2, <2>1, <1>1
            <4> QED BY <2>1, <4>1, <4>2
        <3> QED BY <3>1, <2>1, <2>3, <1>3, <1>7
    <2> QED BY <2>2, <2>3
<1>11. \A k \in 1..n + 1 : FieldAt(c, off2[k - 1], message[k])
    <2> TAKE k \in 1..n + 1
    <2>1. CASE k <= n
        <3>1. k \in 1..n /\ k - 1 \in 0..n /\ off[k - 1] \in Nat /\ message[k] \in AllFields
            BY <2>1, <1>2, <1>5
        <3>2. FieldAt(b, off[k - 1], message[k])
            BY <3>1, <1>1
        <3>3. FieldAt(c, off[k - 1], message[k])
            BY <3>1, <3>2, <1>4, FieldKept
        <3> QED BY <3>1, <3>3, <1>6
    <2>2. CASE k = n + 1
        <3>1. k - 1 = n /\ off2[n] = off[n]
            BY <2>2, <1>6
        <3> QED BY <2>2, <3>1, <1>1
    <2> QED BY <2>1, <2>2
<1>12. c.length = off2[n + 1]
    BY <1>1, <1>4, <1>7
<1>13. Laid(c, off2, n + 1)
    BY <1>6, <1>8, <1>9, <1>10, <1>11, <1>12 DEF Laid, Offsets
<1> QED BY <1>13

\* The message arrives as it is.
LEMMA ArriveKeeps ==
    ASSUME NEW b, Sound(b)
    PROVE  LET c == FromBytes(SubSeq(b.data, 1, b.length)) IN
           /\ Sound(c) /\ c.pos = 0 /\ c.length = b.length
           /\ \A i \in 1..b.length : c.data[i] = b.data[i]
<1> DEFINE s == SubSeq(b.data, 1, b.length)
           c == FromBytes(s)
<1>1. /\ b.length \in Nat /\ b.size \in Nat /\ b.length <= b.size
      /\ b.data \in Seq(Cells) /\ Len(b.data) = b.size
    BY DEF Sound
<1>2. \A i \in 1..b.length : b.data[i] \in Cells
    BY <1>1
<1>3. /\ s \in Seq(Cells)
      /\ Len(s) = IF 1 <= b.length THEN b.length - 1 + 1 ELSE 0
      /\ \A i \in 1 .. b.length - 1 + 1 : s[i] = b.data[1 + i - 1]
    BY <1>1, <1>2, SubSeqProperties
<1>4. Len(s) = b.length /\ \A i \in 1..b.length : s[i] = b.data[i]
    BY <1>1, <1>3
<1> HIDE DEF s
<1>5. Sound(c) /\ c.pos = 0 /\ c.length = b.length /\ c.data = s
    BY <1>1, <1>3, <1>4 DEF FromBytes, Sound
<1> HIDE DEF c
<1>6. \A i \in 1..b.length : c.data[i] = b.data[i]
    BY <1>4, <1>5
<1> QED BY <1>5, <1>6 DEF c, s

LEMMA LaidKept ==
    ASSUME message \in Seq(AllFields), NEW n \in 0..Len(message), NEW b, NEW c, NEW off, Laid(b, off, n),
           b.length \in Nat, c.length = b.length,
           \A i \in 1..b.length : c.data[i] = b.data[i]
    PROVE  Laid(c, off, n)
<1>1. off \in [0..n -> Nat] /\ \A k \in 1..n : FieldAt(b, off[k - 1], message[k])
    BY DEF Laid, Offsets
<1>2. ASSUME NEW k \in 1..n
      PROVE  FieldAt(c, off[k - 1], message[k])
    <2>1. Len(message) \in Nat
        OBVIOUS
    <2>2. k - 1 \in 0..n /\ k \in 1..Len(message)
        BY <2>1
    <2>3. off[k - 1] \in Nat /\ message[k] \in AllFields
        BY <1>1, <2>2
    <2>4. c.length \in Nat /\ b.length <= c.length
        OBVIOUS
    <2>5. FieldAt(b, off[k - 1], message[k])
        BY <1>1
    <2> QED BY <2>3, <2>4, <2>5, FieldKept
<1> QED BY <1>2 DEF Laid

-----------------------------------------------------------------------------
(* The invariant *)

\* What has been unpacked so far.
TakenPrefix ==
    /\ taken \in Seq(AllFields) /\ Len(taken) <= Len(message)
    /\ \A k \in 1..Len(taken) : taken[k] = message[k]

\* A message of compress(): the type, the length, and zlib's bytes shifted by one.
Shifted(b) ==
    /\ b.length > CharSize + IntSize
    /\ b.data[1] = <<"n", COMPRESS_DATA, 1>>
    /\ b.data[CharSize + IntSize + 1] = Junk

PackedSoFar ==
    phase = "PACK" => /\ taken = << >> /\ buffer.pos = buffer.length
                      /\ \E off : Laid(buffer, off, packed)

Received ==
    phase = "POSTRECV" => /\ channel = "peer" /\ taken = << >>
                          /\ Shifted(buffer) \/ \E off : Laid(buffer, off, Len(message))

\* The position is where the next field begins.
AtField ==
    phase = "UNPACK" =>
        \E off : Laid(buffer, off, Len(message)) /\ buffer.pos = off[Len(taken)]

DataOpInv ==
    /\ TypeOK
    /\ WellFormed
    /\ Sound(buffer)
    /\ TakenPrefix
    /\ PackedSoFar
    /\ Received
    /\ AtField
    /\ phase = "DONE" => taken = message

LEMMA InitInv == Init => DataOpInv
<1> SUFFICES ASSUME Init PROVE DataOpInv
    OBVIOUS
<1>1. WellFormed
    BY PeerWellFormed, RequestWellFormed, ResponseWellFormed DEF Init
<1>2. phase = "PACK" /\ packed = 0 /\ taken = << >>
    BY DEF Init
<1>3. TypeOK
    <2>1. Len(message) \in Nat
        BY <1>1 DEF WellFormed
    <2> QED BY <1>2, <2>1 DEF Init, TypeOK
<1>4. Sound(buffer) /\ buffer.pos = 0 /\ buffer.length = 0
    <2>1. PICK room \in Files \cup {0} : buffer = NewBuffer(ExtLen + room)
        BY DEF Init
    <2>2. ExtLen + room \in Nat
        BY DataOpAssumption
    <2> QED BY <2>1, <2>2, NewSound
<1>5. TakenPrefix
    BY <1>1, <1>2 DEF TakenPrefix, WellFormed
<1>6. PackedSoFar
    <2> DEFINE off == [k \in 0..0 |-> 0]
    <2>1. off \in [0..0 -> Nat] /\ off[0] = 0
        OBVIOUS
    <2> HIDE DEF off
    <2>2. Laid(buffer, off, packed)
        BY <2>1, <1>2, <1>4 DEF Laid, Offsets
    <2> QED BY <2>2, <1>2, <1>4 DEF PackedSoFar
<1> QED BY <1>1, <1>2, <1>3, <1>4, <1>5, <1>6 DEF DataOpInv, Received, AtField

LEMMA PackNextInv == ASSUME DataOpInv, PackNext PROVE DataOpInv'
<1> DEFINE f == message[packed + 1]
<1>1. /\ phase = "PACK" /\ packed < Len(message) /\ buffer' = PackField(buffer, f)
      /\ packed' = packed + 1 /\ phase' = "PACK"
      /\ channel' = channel /\ message' = message /\ taken' = taken
    BY DEF PackNext
<1>2. /\ TypeOK /\ WellFormed /\ Sound(buffer) /\ TakenPrefix
      /\ taken = << >> /\ buffer.pos = buffer.length
      /\ \E off : Laid(buffer, off, packed)
    BY <1>1 DEF DataOpInv, PackedSoFar
<1>3. message \in Seq(AllFields) /\ Len(message) \in Nat /\ packed \in Nat /\ f \in AllFields
    BY <1>1, <1>2 DEF WellFormed, TypeOK
<1> HIDE DEF f
<1>4. /\ Sound(buffer') /\ buffer'.pos = buffer'.length /\ buffer'.length = buffer.length + Wire(f)
      /\ \A i \in 1..buffer.length : buffer'.data[i] = buffer.data[i]
      /\ FieldAt(buffer', buffer.length, f)
    BY <1>1, <1>2, <1>3, PackFieldWrites
<1>5. \E off : Laid(buffer', off, packed + 1)
    <2>1. PICK off : Laid(buffer, off, packed)
        BY <1>2
    <2> QED BY <1>1, <1>2, <1>3, <1>4, <2>1, LaidNext DEF f
<1>6. TypeOK'
    BY <1>1, <1>2, <1>3 DEF TypeOK
<1>7. WellFormed' /\ TakenPrefix'
    BY <1>1, <1>2 DEF WellFormed, TakenPrefix, Follows
<1>8. PackedSoFar'
    BY <1>1, <1>2, <1>4, <1>5 DEF PackedSoFar, Laid, Offsets
<1> QED BY <1>1, <1>4, <1>6, <1>7, <1>8 DEF DataOpInv, Received, AtField

LEMMA PackFailsInv == ASSUME DataOpInv, NEW compress \in BOOLEAN, PackFails(compress) PROVE DataOpInv'
<1>1. phase' \in {"FAILED", "CRASHED"} /\ UNCHANGED <<channel, message, packed, buffer, taken>>
    BY DEF PackFails
<1>2. TypeOK'
    BY <1>1 DEF DataOpInv, TypeOK
<1>3. WellFormed' /\ TakenPrefix'
    BY <1>1 DEF DataOpInv, WellFormed, TakenPrefix, Follows
<1>4. Sound(buffer')
    BY <1>1 DEF DataOpInv
<1> QED BY <1>1, <1>2, <1>3, <1>4 DEF DataOpInv, PackedSoFar, Received, AtField

\* All of the message is in the buffer when it is sent.
LEMMA ArrivePlain ==
    ASSUME DataOpInv, Packed, Arrive(buffer)
    PROVE  /\ Sound(buffer') /\ buffer'.pos = 0
           /\ \E off : Laid(buffer', off, Len(message)) /\ off[0] = 0
<1>1. PICK off : Laid(buffer, off, Len(message))
    BY DEF DataOpInv, Packed, PackedSoFar
<1>2. /\ message \in Seq(AllFields) /\ Len(message) \in Nat /\ Sound(buffer)
      /\ buffer' = FromBytes(SubSeq(buffer.data, 1, buffer.length))
    BY DEF DataOpInv, WellFormed, Arrive
<1>3. /\ Sound(buffer') /\ buffer'.pos = 0 /\ buffer'.length = buffer.length
      /\ \A i \in 1..buffer.length : buffer'.data[i] = buffer.data[i]
    BY <1>2, ArriveKeeps
<1>4. Laid(buffer', off, Len(message))
    <2>1. buffer.length \in Nat /\ Len(message) \in 0..Len(message)
        BY <1>2 DEF Sound
    <2> QED BY <1>1, <1>2, <1>3, <2>1, LaidKept
<1>5. off[0] = 0
    BY <1>1 DEF Laid, Offsets
<1> QED BY <1>3, <1>4, <1>5

LEMMA SendPlainInv == ASSUME DataOpInv, SendPlain PROVE DataOpInv'
<1>1. /\ Packed /\ Arrive(buffer) /\ UNCHANGED <<channel, message, packed, taken>>
      /\ phase' = IF channel = "peer" THEN "POSTRECV" ELSE "UNPACK"
    BY DEF SendPlain, Arrive
<1>2. PICK off : /\ Sound(buffer') /\ buffer'.pos = 0
                 /\ Laid(buffer', off, Len(message)) /\ off[0] = 0
    BY <1>1, ArrivePlain
<1>3. taken = << >> /\ Len(taken) = 0
    BY <1>1 DEF DataOpInv, Packed, PackedSoFar
<1>4. TypeOK'
    BY <1>1 DEF DataOpInv, TypeOK
<1>5. WellFormed' /\ TakenPrefix'
    BY <1>1 DEF DataOpInv, WellFormed, TakenPrefix, Follows
<1>6. Laid(buffer, off, Len(message))'
    BY <1>1, <1>2 DEF Laid, Offsets
<1>7. Received'
    BY <1>1, <1>3, <1>6 DEF Received
<1>8. AtField'
    BY <1>1, <1>2, <1>3, <1>6 DEF AtField
<1>9. PackedSoFar' /\ phase' # "DONE"
    BY <1>1 DEF PackedSoFar
<1> QED BY <1>2, <1>4, <1>5, <1>7, <1>8, <1>9 DEF DataOpInv

\* What compress() hands on, and what arrives of it.
LEMMA ShiftedArrives ==
    ASSUME NEW n \in Nat \ {0}, NEW size \in Nat
    PROVE  LET c == Pack(Pack(Pack(NewBuffer(n + 32), CharField(COMPRESS_DATA).bytes),
                              IntField(size).bytes),
                         SubSeq(<<Junk>> \o Zip(n), 1, n))
               d == FromBytes(SubSeq(c.data, 1, c.length))
           IN  Sound(d) /\ Shifted(d)
<1> DEFINE type == CharField(COMPRESS_DATA).bytes
           length == IntField(size).bytes
           zipped == <<Junk>> \o Zip(n)
           sent == SubSeq(zipped, 1, n)
           a == NewBuffer(n + 32)
           b1 == Pack(a, type)
           b2 == Pack(b1, length)
           c == Pack(b2, sent)
           d == FromBytes(SubSeq(c.data, 1, c.length))
<1>1. type \in Seq(Cells) /\ Len(type) = 1 /\ type[1] = <<"n", COMPRESS_DATA, 1>>
    <2>1. 18 \in Int
        OBVIOUS
    <2>2. Bytes("n", 18, 1) \in Seq(Cells) /\ Len(Bytes("n", 18, 1)) = 1 /\ Bytes("n", 18, 1)[1] = <<"n", 18, 1>>
        BY <2>1, OneByte
    <2> QED BY <2>2 DEF CharField, COMPRESS_DATA, CharSize
<1>2. length \in Seq(Cells) /\ Len(length) = 4
    <2>1. \A k \in Nat : Bytes("n", size, k) \in Seq(Cells) /\ Len(Bytes("n", size, k)) = k
        <3>1. size \in Int
            OBVIOUS
        <3> QED BY <3>1, BytesType
    <2> QED BY <2>1 DEF IntField, IntSize
<1>3. sent \in Seq(Cells) /\ Len(sent) = n /\ sent[1] = Junk
    <2>1. Zip(n) \in Seq(Cells) /\ Len(Zip(n)) = n
        BY BytesType DEF Zip
    <2>2. <<Junk>> \in Seq(Cells) /\ Len(<<Junk>>) = 1 /\ <<Junk>>[1] = Junk
        BY JunkType
    <2>3. zipped \in Seq(Cells) /\ Len(zipped) = n + 1 /\ zipped[1] = Junk
        BY <2>1, <2>2, ConcatProperties
    <2> HIDE DEF zipped
    <2>4. \A i \in 1..n : zipped[i] \in Cells
        BY <2>3
    <2>5. /\ sent \in Seq(Cells)
          /\ Len(sent) = IF 1 <= n THEN n - 1 + 1 ELSE 0
          /\ \A i \in 1 .. n - 1 + 1 : sent[i] = zipped[1 + i - 1]
        BY <2>4, SubSeqProperties
    <2> QED BY <2>3, <2>5
<1>4. Sound(a) /\ a.pos = a.length /\ a.length = 0
    BY NewSound
<1> HIDE DEF type, length, sent, a
<1>5. Sound(b1) /\ b1.pos = b1.length /\ b1.length = 1 /\ b1.data[1] = <<"n", COMPRESS_DATA, 1>>
    <2>1. /\ Sound(b1) /\ b1.pos = b1.length /\ b1.length = a.length + Len(type)
          /\ Holds(b1, a.length, type)
        BY <1>1, <1>4, PackWrites
    <2> QED BY <1>1, <1>4, <2>1 DEF Holds
<1> HIDE DEF b1
<1>6. Sound(b2) /\ b2.pos = b2.length /\ b2.length = 5 /\ b2.data[1] = b1.data[1]
    <2>1. /\ Sound(b2) /\ b2.pos = b2.length /\ b2.length = b1.length + Len(length)
          /\ \A i \in 1..b1.length : b2.data[i] = b1.data[i]
        BY <1>2, <1>5, PackWrites
    <2> QED BY <1>2, <1>5, <2>1
<1> HIDE DEF b2
<1>7. Sound(c) /\ c.length = 5 + n /\ c.data[1] = b2.data[1] /\ c.data[6] = Junk
    <2>1. /\ Sound(c) /\ c.length = b2.length + Len(sent)
          /\ \A i \in 1..b2.length : c.data[i] = b2.data[i]
          /\ Holds(c, b2.length, sent)
        BY <1>3, <1>6, PackWrites
    <2>2. c.data[5 + 1] = sent[1]
        BY <1>3, <1>6, <2>1 DEF Holds
    <2> QED BY <1>3, <1>6, <2>1, <2>2
<1> HIDE DEF c
<1>8. Sound(d) /\ d.length = c.length /\ \A i \in 1..c.length : d.data[i] = c.data[i]
    BY <1>7, ArriveKeeps
<1> HIDE DEF d
<1>9. d.length = 5 + n /\ d.data[1] = <<"n", COMPRESS_DATA, 1>> /\ d.data[6] = Junk
    BY <1>5, <1>6, <1>7, <1>8
<1>10. Sound(d) /\ Shifted(d)
    BY <1>8, <1>9 DEF Shifted, CharSize, IntSize
<1> QED BY <1>10 DEF d, c, b2, b1, a, sent, length, type

LEMMA SendCompressedInv == ASSUME DataOpInv, NEW n \in ZipSizes, SendCompressed(n) PROVE DataOpInv'
<1>1. /\ Packed /\ channel = "peer" /\ phase' = "POSTRECV"
      /\ UNCHANGED <<channel, message, packed, taken>>
    BY DEF SendCompressed, Arrive
<1>2. taken = << >>
    BY <1>1 DEF DataOpInv, Packed, PackedSoFar
<1>3. n \in Nat \ {0} /\ buffer.length \in Nat
    BY DEF DataOpInv, Sound, ZipSizes
<1>4. Sound(buffer') /\ (Shifted(buffer') \/ \E off : Laid(buffer', off, Len(message)))
    <2>1. CASE buffer.length < n + CharSize + IntSize
        <3>1. Arrive(buffer)
            BY <2>1 DEF SendCompressed
        <3> QED BY <1>1, <3>1, ArrivePlain
    <2>2. CASE ~(buffer.length < n + CharSize + IntSize)
        <3> DEFINE c == Pack(Pack(Pack(NewBuffer(n + 32), CharField(COMPRESS_DATA).bytes),
                                  IntField(buffer.length).bytes),
                             SubSeq(<<Junk>> \o Zip(n), 1, n))
                   d == FromBytes(SubSeq(c.data, 1, c.length))
        <3>1. Arrive(c)
            BY <2>2 DEF SendCompressed
        <3>2. Sound(d) /\ Shifted(d)
            BY <1>3, ShiftedArrives
        <3>3. buffer' = d
            BY <3>1 DEF Arrive
        <3> HIDE DEF d
        <3> QED BY <3>2, <3>3
    <2> QED BY <2>1, <2>2
<1>5. TypeOK'
    BY <1>1 DEF DataOpInv, TypeOK
<1>6. WellFormed' /\ TakenPrefix'
    BY <1>1 DEF DataOpInv, WellFormed, TakenPrefix, Follows
<1>7. Received'
    BY <1>1, <1>2, <1>4 DEF Received, Laid, Offsets, Shifted
<1> QED BY <1>1, <1>4, <1>5, <1>6, <1>7 DEF DataOpInv, PackedSoFar, AtField

\* The first byte of what arrived.
LEMMA TypeByteIs ==
    ASSUME NEW b, Sound(b), b.length > 0, NEW v \in Int, b.data[1] = <<"n", v, 1>>
    PROVE  TypeByte(b) = v
<1> DEFINE r == Reset(b)
           bytes == Bytes("n", v, 1)
<1>1. /\ b \in [size : Nat, length : Nat, pos : Nat, data : Seq(Cells)]
      /\ Len(b.data) = b.size /\ b.length <= b.size
    BY DEF Sound
<1>2. Sound(r) /\ r.pos = 0 /\ r.length = b.length /\ r.data = b.data
    BY <1>1 DEF Reset, Sound
<1>3. 1 \in Nat /\ bytes \in Seq(Cells) /\ Len(bytes) = 1 /\ bytes[1] = <<"n", v, 1>>
    BY OneByte
<1> HIDE DEF r, bytes
<1>4. Holds(r, r.pos, bytes)
    BY <1>1, <1>2, <1>3 DEF Holds
<1>5. \A d : Taken(r, 1, d) = bytes
    BY <1>2, <1>3, <1>4, TakenHolds
<1>6. Number(bytes) = v
    <2>1. \A k \in Nat \ {0} : Number(Bytes("n", v, k)) = v
        BY NumberOf
    <2> QED BY <2>1 DEF bytes
<1> QED BY <1>5, <1>6 DEF TypeByte, CharSize, r

LEMMA PostrecvInv == ASSUME DataOpInv, Postrecv PROVE DataOpInv'
<1>1. phase = "POSTRECV" /\ UNCHANGED <<channel, message, packed, taken>>
    BY DEF Postrecv
<1>2. /\ channel = "peer" /\ taken = << >> /\ Sound(buffer) /\ WellFormed /\ message \in Seq(AllFields)
      /\ Shifted(buffer) \/ \E off : Laid(buffer, off, Len(message))
    BY <1>1 DEF DataOpInv, Received, WellFormed
<1>3. WellFormed' /\ TakenPrefix'
    BY <1>1 DEF DataOpInv, WellFormed, TakenPrefix, Follows
<1>4. /\ buffer \in [size : Nat, length : Nat, pos : Nat, data : Seq(Cells)]
      /\ Len(buffer.data) = buffer.size /\ buffer.length <= buffer.size
    BY <1>2 DEF Sound
<1>5. CASE Shifted(buffer)
    <2> DEFINE zipped == SubSeq(buffer.data, CharSize + IntSize + 1, buffer.length)
    <2>1. buffer.length > 5 /\ buffer.data[1] = <<"n", 18, 1>> /\ buffer.data[6] = Junk
        BY <1>5 DEF Shifted, CharSize, IntSize, COMPRESS_DATA
    <2>2. IsCompressed(buffer)
        <3>1. 18 \in Int /\ buffer.length > 0
            BY <1>4, <2>1
        <3> QED BY <1>2, <2>1, <3>1, TypeByteIs DEF IsCompressed, COMPRESS_DATA
    <2>3. Len(zipped) = buffer.length - 5 /\ zipped[1] = Junk
        <3>1. \A i \in 6 .. buffer.length : buffer.data[i] \in Cells
            BY <1>4
        <3>2. 6 \in Int /\ buffer.length \in Int
            BY <1>4
        <3>3. /\ Len(SubSeq(buffer.data, 6, buffer.length)) = IF 6 <= buffer.length THEN buffer.length - 6 + 1 ELSE 0
              /\ \A i \in 1 .. buffer.length - 6 + 1 :
                    SubSeq(buffer.data, 6, buffer.length)[i] = buffer.data[6 + i - 1]
            BY <3>1, <3>2, SubSeqProperties
        <3>4. zipped = SubSeq(buffer.data, 6, buffer.length)
            BY DEF CharSize, IntSize
        <3> HIDE DEF zipped
        <3>5. 1 \in 1 .. buffer.length - 6 + 1 /\ 6 + 1 - 1 = 6
            BY <1>4, <2>1
        <3>6. zipped[1] = buffer.data[6]
            BY <3>3, <3>4, <3>5
        <3>7. Len(zipped) = buffer.length - 5
            BY <1>4, <2>1, <3>3, <3>4
        <3> QED BY <2>1, <3>6, <3>7
    <2>4. ~Unzips(zipped)
        <3> HIDE DEF zipped
        <3>1. Zip(Len(zipped))[1] = <<"z", Len(zipped), 1>>
            BY <1>4, <2>1, <2>3, BytesType DEF Zip, Bytes
        <3>2. Junk[1] # "z"
            BY DEF Junk
        <3> QED BY <2>3, <3>1, <3>2 DEF Unzips
    <2> HIDE DEF zipped
    <2>5. phase' = "POSTRECV" /\ buffer' = [buffer EXCEPT !.pos = CharSize + IntSize]
        BY <2>2, <2>4 DEF Postrecv, zipped
    <2>6. /\ buffer' \in [size : Nat, length : Nat, pos : Nat, data : Seq(Cells)]
          /\ buffer'.size = buffer.size /\ buffer'.length = buffer.length /\ buffer'.pos = 5
          /\ buffer'.data = buffer.data
        BY <1>4, <2>5 DEF CharSize, IntSize
    <2>7. Sound(buffer') /\ Shifted(buffer')
        BY <1>4, <1>5, <2>1, <2>6 DEF Sound, Shifted
    <2>8. TypeOK'
        BY <1>1, <2>5 DEF DataOpInv, TypeOK
    <2>9. Received'
        BY <1>1, <1>2, <2>7 DEF Received, Shifted
    <2> QED BY <1>3, <2>5, <2>7, <2>8, <2>9 DEF DataOpInv, PackedSoFar, AtField
<1>6. CASE \E off : Laid(buffer, off, Len(message))
    <2>1. PICK off : Laid(buffer, off, Len(message))
        BY <1>6
    <2>2. PICK type \in PeerTypes : message[1] = CharField(type)
        BY <1>2 DEF WellFormed
    <2>3. type \in Int /\ type # COMPRESS_DATA /\ type # CRYPT_DATA
        BY DEF PeerTypes, SMALL_FILE_DATA, LARGE_FILE_BEGIN, MESSAGE_DATA, LASTPOS, REPLY, LARGE_FILE_PART,
               COMPRESS_DATA, CRYPT_DATA
    <2>4. FieldAt(buffer, 0, CharField(type)) /\ off[0] = 0
        <3>1. Len(message) \in Nat /\ Len(message) > 0
            BY <1>2 DEF WellFormed
        <3>2. 1 \in 1..Len(message) /\ 1 - 1 = 0
            BY <3>1
        <3> QED BY <2>1, <2>2, <3>2 DEF Laid, Offsets
    <2>5. buffer.length > 0 /\ buffer.data[1] = <<"n", type, 1>>
        <3>1. CharField(type).type = "char" /\ CharField(type).bytes = Bytes("n", type, 1)
            BY DEF CharField, CharSize
        <3>2. Count(CharField(type)) = << >> /\ Len(Count(CharField(type))) = 0
            BY <3>1 DEF Count
        <3>3. Holds(buffer, 0, Bytes("n", type, 1))
            BY <2>4, <3>1, <3>2 DEF FieldAt
        <3>4. Len(Bytes("n", type, 1)) = 1 /\ Bytes("n", type, 1)[1] = <<"n", type, 1>>
            BY <2>3, OneByte
        <3> QED BY <1>4, <3>3, <3>4 DEF Holds
    <2>6. TypeByte(buffer) = type
        BY <1>2, <2>3, <2>5, TypeByteIs
    <2>7. phase' = "UNPACK" /\ buffer' = Reset(buffer)
        BY <2>3, <2>6 DEF Postrecv, IsCompressed
    <2>8. /\ buffer' \in [size : Nat, length : Nat, pos : Nat, data : Seq(Cells)]
          /\ buffer'.size = buffer.size /\ buffer'.length = buffer.length /\ buffer'.pos = 0
          /\ buffer'.data = buffer.data
        BY <1>4, <2>7 DEF Reset
    <2>9. Sound(buffer')
        BY <1>4, <2>8 DEF Sound
    <2>10. Laid(buffer', off, Len(message))
        <3>1. Len(message) \in 0..Len(message)
            BY <1>2
        <3> QED BY <1>2, <1>4, <2>1, <2>8, <3>1, LaidKept
    <2>11. Laid(buffer, off, Len(message))'
        BY <1>1, <2>10 DEF Laid, Offsets
    <2>12. AtField'
        <3>1. taken' = << >> /\ Len(taken') = 0
            BY <1>1, <1>2
        <3> QED BY <2>4, <2>8, <2>11, <3>1 DEF AtField
    <2>13. TypeOK'
        BY <1>1, <2>7 DEF DataOpInv, TypeOK
    <2> QED BY <1>3, <2>7, <2>9, <2>12, <2>13 DEF DataOpInv, PackedSoFar, Received
<1> QED BY <1>2, <1>5, <1>6

\* The reader knows which field comes next, and when there is none.
LEMMA NextFieldIs ==
    ASSUME DataOpInv, phase = "UNPACK"
    PROVE  /\ channel \in {"peer", "request", "response"}
           /\ Len(taken) < Len(message) => NextField = message[Len(taken) + 1].type
           /\ Len(taken) = Len(message) => NextField = "none"
<1> DEFINE n == Len(taken)
<1>1. /\ channel \in {"peer", "request", "response"}
      /\ message \in Seq(AllFields) /\ Len(message) \in Nat /\ Len(message) > 0
      /\ taken \in Seq(AllFields) /\ n \in Nat /\ n <= Len(message)
      /\ \A k \in 1..n : taken[k] = message[k]
    BY DEF DataOpInv, TypeOK, WellFormed, TakenPrefix
<1>2. taken = << >> <=> n = 0
    BY <1>1
<1>3. n > 0 => taken[1] = message[1] /\ taken[n] = message[n]
    BY <1>1
<1> HIDE DEF n
<1>4. ASSUME channel \in {"peer", "request"}, NEW rest, NEW type \in Int, NEW size \in Nat \ {0},
             NEW kind, kind = IF channel = "peer" THEN "char" ELSE "int",
             message[1].type = kind, message[1].bytes = Bytes("n", type, size),
             rest = IF channel = "peer" THEN PeerFields(type) ELSE RequestFields(type),
             Len(rest) \in Nat, Follows(message, rest)
      PROVE  /\ n < Len(message) => NextField = message[n + 1].type
             /\ n = Len(message) => NextField = "none"
    <2>1. CASE n = 0
        <3>1. NextField = kind
            BY <1>2, <1>4, <2>1 DEF NextField
        <3> QED BY <1>1, <1>4, <2>1, <3>1
    <2>2. CASE n > 0
        <3>1. Number(taken[1].bytes) = type
            BY <1>3, <1>4, <2>2, NumberOf
        <3>2. NextField = IF n <= Len(rest) THEN rest[n] ELSE "none"
            BY <1>1, <1>2, <1>4, <2>2, <3>1 DEF NextField, n
        <3>3. Len(message) = Len(rest) + 1 /\ \A k \in 1..Len(rest) : message[k + 1].type = rest[k]
            BY <1>4 DEF Follows
        <3>4. CASE n <= Len(rest)
            <4>1. n \in 1..Len(rest)
                BY <1>1, <1>4, <2>2, <3>4
            <4>2. message[n + 1].type = rest[n] /\ n # Len(message)
                BY <1>4, <3>3, <4>1
            <4> QED BY <3>2, <3>4, <4>2
        <3>5. CASE ~(n <= Len(rest))
            BY <1>1, <1>4, <3>2, <3>3, <3>5
        <3> QED BY <3>4, <3>5
    <2> QED BY <1>1, <2>1, <2>2
<1>5. CASE channel = "peer"
    <2>1. PICK type \in PeerTypes : message[1] = CharField(type) /\ Follows(message, PeerFields(type))
        BY <1>5 DEF DataOpInv, WellFormed
    <2>2. type \in Int
        BY DEF PeerTypes, SMALL_FILE_DATA, LARGE_FILE_BEGIN, MESSAGE_DATA, LASTPOS, REPLY, LARGE_FILE_PART
    <2>3. Len(PeerFields(type)) \in Nat
        BY <2>1 DEF Follows
    <2>4. message[1].type = "char" /\ message[1].bytes = Bytes("n", type, CharSize) /\ CharSize \in Nat \ {0}
        BY <2>1 DEF CharField, CharSize
    <2> QED BY <1>1, <1>4, <1>5, <2>1, <2>2, <2>3, <2>4 DEF n
<1>6. CASE channel = "request"
    <2>1. PICK type \in 0..8 : message[1] = IntField(type) /\ Follows(message, RequestFields(type))
        BY <1>6 DEF DataOpInv, WellFormed
    <2>2. Len(RequestFields(type)) \in Nat
        BY <2>1 DEF Follows
    <2>3. /\ message[1].type = "int" /\ message[1].bytes = Bytes("n", type, IntSize)
          /\ IntSize \in Nat \ {0} /\ type \in Int
        BY <2>1 DEF IntField, IntSize
    <2> QED BY <1>1, <1>4, <1>6, <2>1, <2>2, <2>3 DEF n
<1>7. CASE channel = "response"
    <2> DEFINE last == Len(message)
    <2>1. /\ message[last].type = "int" /\ \A k \in 1..last - 1 : message[k].type = "string"
        BY <1>7 DEF DataOpInv, WellFormed
    <2>2. PICK off : Laid(buffer, off, last) /\ buffer.pos = off[n]
        BY DEF DataOpInv, AtField, n
    <2>3. /\ off \in [0..last -> Nat] /\ buffer.length = off[last]
          /\ \A k \in 1..last : off[k] = off[k - 1] + Wire(message[k])
          /\ \A j, k \in 0..last : j < k => off[j] < off[k]
        BY <2>2 DEF Laid, Offsets
    <2>4. last \in Nat /\ last > 0 /\ n <= last /\ last \in 1..last /\ last - 1 \in 0..last /\ n \in 0..last
        BY <1>1
    <2>5. off[last] = off[last - 1] + 4
        <3>1. message[last] \in AllFields
            BY <1>1, <2>4
        <3>2. Wire(message[last]) = SizeOf["int"]
            BY <2>1, <3>1, WireShapes
        <3>3. SizeOf["int"] = 4
            BY DEF SizeOf, IntSize
        <3> QED BY <2>3, <2>4, <3>2, <3>3
    <2> HIDE DEF last
    <2>6. CASE n = last
        <3>1. taken # << >> /\ taken[Len(taken)].type = "int"
            BY <1>2, <1>3, <2>1, <2>4, <2>6 DEF n
        <3>2. NextField = "none"
            BY <1>7, <3>1 DEF NextField
        <3> QED BY <1>1, <2>6, <3>2 DEF last, n
    <2>7. CASE n < last
        <3>1. ~(taken # << >> /\ taken[Len(taken)].type = "int")
            <4>1. CASE n = 0
                BY <1>2, <4>1
            <4>2. CASE n > 0
                <5>1. n \in 1..last - 1
                    BY <1>1, <2>4, <2>7, <4>2
                <5>2. taken[n].type = "string"
                    BY <1>3, <2>1, <4>2, <5>1
                <5> QED BY <5>2 DEF n
            <4> QED BY <1>1, <4>1, <4>2
        <3>2. NextField = IF MoreLines(buffer) THEN "string" ELSE "int"
            BY <1>7, <3>1 DEF NextField
        <3>3. CASE n = last - 1
            <4>1. ~MoreLines(buffer)
                <5>1. off[last - 1] \in Nat
                    BY <2>3, <2>4
                <5>2. buffer.pos = off[last - 1] /\ buffer.length = off[last - 1] + 4
                    BY <2>2, <2>3, <2>5, <3>3
                <5> QED BY <5>1, <5>2 DEF MoreLines, IntSize
            <4>2. n + 1 = last
                BY <2>4, <3>3
            <4>3. NextField = message[n + 1].type
                BY <2>1, <3>2, <4>1, <4>2
            <4> QED BY <1>1, <2>7, <4>3 DEF last, n
        <3>4. CASE n < last - 1
            <4>1. off[n] \in Nat /\ off[last - 1] \in Nat /\ off[n] < off[last - 1]
                BY <1>1, <2>3, <2>4, <3>4
            <4>2. buffer.pos = off[n] /\ buffer.length = off[last - 1] + 4
                BY <2>2, <2>3, <2>5
            <4>3. MoreLines(buffer)
                BY <4>1, <4>2 DEF MoreLines, IntSize
            <4>4. message[n + 1].type = "string"
                <5>1. n + 1 \in 1..last - 1
                    BY <1>1, <2>4, <3>4
                <5> QED BY <2>1, <5>1
            <4>5. NextField = message[n + 1].type
                BY <3>2, <4>3, <4>4
            <4> QED BY <1>1, <2>7, <4>5 DEF last, n
        <3> QED BY <1>1, <2>4, <2>7, <3>3, <3>4
    <2> QED BY <1>1, <2>4, <2>6, <2>7 DEF last, n
<1> QED BY <1>1, <1>5, <1>6, <1>7 DEF n

LEMMA UnpackNextInv == ASSUME DataOpInv, UnpackNext PROVE DataOpInv'
<1> DEFINE n == Len(taken)
           f == message[n + 1]
<1>1. phase = "UNPACK" /\ UNCHANGED <<channel, message, packed>>
    BY DEF UnpackNext
<1>2. /\ message \in Seq(AllFields) /\ Len(message) \in Nat /\ Sound(buffer)
      /\ taken \in Seq(AllFields) /\ n \in Nat /\ n <= Len(message)
      /\ \A k \in 1..n : taken[k] = message[k]
    BY DEF DataOpInv, TypeOK, WellFormed, TakenPrefix
<1>3. /\ n < Len(message) => NextField = f.type
      /\ n = Len(message) => NextField = "none"
    BY <1>1, NextFieldIs
<1>4. WellFormed'
    BY <1>1 DEF DataOpInv, WellFormed, Follows
<1>5. CASE n = Len(message)
    <2>1. phase' = "DONE" /\ UNCHANGED <<buffer, taken>>
        BY <1>1, <1>3, <1>5 DEF UnpackNext
    <2>2. taken = message
        BY <1>2, <1>5, SeqEqual
    <2>3. TypeOK'
        BY <1>1, <2>1 DEF DataOpInv, TypeOK
    <2>4. TakenPrefix'
        BY <1>1, <2>1 DEF DataOpInv, TakenPrefix
    <2>5. Sound(buffer') /\ (phase = "DONE" => taken = message)'
        BY <1>1, <1>2, <2>1, <2>2
    <2> QED BY <1>4, <2>1, <2>3, <2>4, <2>5 DEF DataOpInv, PackedSoFar, Received, AtField
<1>6. CASE n < Len(message)
    <2>1. n + 1 \in 1..Len(message) /\ n \in 0..Len(message) /\ n + 1 - 1 = n
        BY <1>2, <1>6
    <2>2. f \in AllFields
        BY <1>2, <2>1
    <2> HIDE DEF f
    <2>3. PICK off : Laid(buffer, off, Len(message)) /\ buffer.pos = off[n]
        BY <1>1 DEF DataOpInv, AtField
    <2>4. FieldAt(buffer, buffer.pos, f) /\ off[n + 1] = off[n] + Wire(f)
        BY <2>1, <2>3 DEF Laid, Offsets, f
    <2>5. f.type # "none"
        BY <2>2, FieldKinds DEF FieldTypes
    <2>6. /\ phase' = "UNPACK" /\ taken' = Append(taken, Field(buffer, f.type))
          /\ buffer' = AfterField(buffer, f.type)
        BY <1>1, <1>3, <1>6, <2>5 DEF UnpackNext
    <2>7. /\ Field(buffer, f.type) = f
          /\ AfterField(buffer, f.type) = [buffer EXCEPT !.pos = buffer.pos + Wire(f)]
          /\ buffer.pos + Wire(f) <= buffer.length
        BY <1>2, <2>2, <2>4, FieldRead
    <2>8. taken' = Append(taken, f) /\ buffer' = [buffer EXCEPT !.pos = buffer.pos + Wire(f)]
        BY <2>6, <2>7
    <2>9. buffer.pos \in Nat /\ Wire(f) \in Nat
        BY <1>2, <2>2, WireShapes DEF Sound
    <2>10. /\ buffer \in [size : Nat, length : Nat, pos : Nat, data : Seq(Cells)]
           /\ Len(buffer.data) = buffer.size /\ buffer.length <= buffer.size
        BY <1>2 DEF Sound
    <2>11. /\ buffer' \in [size : Nat, length : Nat, pos : Nat, data : Seq(Cells)]
           /\ buffer'.size = buffer.size /\ buffer'.length = buffer.length
           /\ buffer'.pos = buffer.pos + Wire(f) /\ buffer'.data = buffer.data
        BY <2>8, <2>9, <2>10
    <2>12. Sound(buffer')
        BY <2>7, <2>10, <2>11 DEF Sound
    <2>13. /\ taken' \in Seq(AllFields) /\ Len(taken') = n + 1
           /\ \A k \in 1..n : taken'[k] = taken[k]
           /\ taken'[n + 1] = f
        BY <1>2, <2>2, <2>8
    <2>14. TakenPrefix'
        <3>1. ASSUME NEW k \in 1..n + 1 PROVE taken'[k] = message[k]
            BY <1>2, <2>13, <3>1 DEF f
        <3> HIDE DEF n
        <3> QED BY <1>1, <1>6, <1>2, <2>13, <3>1 DEF TakenPrefix
    <2>15. Laid(buffer', off, Len(message))
        <3>1. Len(message) \in 0..Len(message) /\ buffer.length \in Nat
            BY <1>2, <2>10
        <3> QED BY <1>2, <2>3, <2>11, <3>1, LaidKept
    <2>16. Laid(buffer, off, Len(message))'
        BY <1>1, <2>15 DEF Laid, Offsets
    <2>17. buffer'.pos = off[Len(taken')]
        BY <2>3, <2>4, <2>11, <2>13
    <2>18. AtField'
        BY <2>16, <2>17 DEF AtField
    <2>19. TypeOK'
        <3> HIDE DEF n
        <3> QED BY <1>1, <1>2, <1>6, <2>6, <2>13 DEF DataOpInv, TypeOK
    <2> QED BY <1>4, <2>6, <2>12, <2>14, <2>18, <2>19 DEF DataOpInv, PackedSoFar, Received
<1> QED BY <1>2, <1>5, <1>6

-----------------------------------------------------------------------------

LEMMA StepInv == DataOpInv /\ [Next]_vars => DataOpInv'
<1> SUFFICES ASSUME DataOpInv, [Next]_vars PROVE DataOpInv'
    OBVIOUS
<1>1. CASE PackNext
    BY <1>1, PackNextInv
<1>2. CASE \E compress \in BOOLEAN : PackFails(compress)
    BY <1>2, PackFailsInv
<1>3. CASE SendPlain
    BY <1>3, SendPlainInv
<1>4. CASE \E n \in ZipSizes : SendCompressed(n)
    BY <1>4, SendCompressedInv
<1>5. CASE Postrecv
    BY <1>5, PostrecvInv
<1>6. CASE UnpackNext
    BY <1>6, UnpackNextInv
<1>7. CASE UNCHANGED vars
    BY <1>7 DEF vars, DataOpInv, TypeOK, WellFormed, Follows, TakenPrefix, PackedSoFar, Received, AtField,
                Laid, Offsets, Shifted
<1> QED BY <1>1, <1>2, <1>3, <1>4, <1>5, <1>6, <1>7 DEF Next

\* The invariant of DataOp holds throughout.
LEMMA InvHolds == Spec => []DataOpInv
BY InitInv, StepInv, PTL DEF Spec

\* Every message stays one of the known ones, and no reader takes more fields
\* than the writer packed (rawdata.cpp, dataop.cpp, control_part.cpp).
THEOREM DataOpTypeOK == Spec => []TypeOK
<1>1. DataOpInv => TypeOK
    BY DEF DataOpInv
<1> QED BY <1>1, InvHolds, PTL

\* However large the fields, the buffers and the steps of growth are: every
\* byte is packed inside the buffer of the RawData, and every byte unpacked is
\* one of its message (RawData::pack, realloc and unpack).  Nothing is said of
\* the arrays that a field is copied to, or of zlib's output.
THEOREM StaysInside == Spec => []Inside
<1>1. DataOpInv => Inside
    <2> SUFFICES ASSUME DataOpInv PROVE Inside
        OBVIOUS
    <2>1. /\ buffer \in [size : Nat, length : Nat, pos : Nat, data : Seq(Cells)]
          /\ Len(buffer.data) = buffer.size
          /\ buffer.length <= buffer.size /\ buffer.pos <= buffer.length
        BY DEF DataOpInv, Sound
    <2>2. DOMAIN buffer.data = 1..buffer.size
        BY <2>1
    <2> QED BY <2>1, <2>2 DEF Inside
<1> QED BY <1>1, InvHolds, PTL

\* What is unpacked is what was packed, for every message between the peers,
\* every request and every response (pack_..., unpack_..., parse_result).
THEOREM UnpackedIsPacked == Spec => []RoundTrip
<1>1. DataOpInv => RoundTrip
    BY DEF DataOpInv, RoundTrip
<1> QED BY <1>1, InvHolds, PTL

=============================================================================
