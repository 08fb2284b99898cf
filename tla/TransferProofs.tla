---------------------------- MODULE TransferProofs ----------------------------
(***************************************************************************)
(* That recv_data returns the payloads that were sent, proved for every    *)
(* number and size of messages and every size of the buffers.              *)
(*                                                                         *)
(* The bytes on the wire form a chain: the first is the one the receiver   *)
(* expects, each is followed by its successor in the stream, and the last  *)
(* precedes the one the sender writes next.                                *)
(***************************************************************************)
EXTENDS Transfer, SequenceTheorems, TLAPS

\* The byte that follows the first k bytes of message m.
Place(m, k) == IF m = 0 THEN <<1, 1>>
               ELSE IF k = 0 \/ k < Frame(m) THEN <<m, k + 1>> ELSE <<m + 1, 1>>

Successor(b) == Place(b[1], b[2])
WriterNext == Place(msg, at)

Expected == Len(taken) + 1
Consumed == IF reader = "LENGTH" THEN Len(got)
            ELSE IF reader = "PAYLOAD" THEN Header + Len(got) ELSE 0
ReaderNext == Place(Expected, Consumed)

\* The receiver may still read: it has not failed, or it may ask again and has
\* lost nothing by the failure.
Live == reader # "FAILED" \/ (failure = -2 /\ got = << >>)

SenderOK ==
    /\ msg = 0 => at = 0
    /\ msg # 0 => at <= Frame(msg)
    /\ writer = "WRITING" => msg # 0

ReceiverOK ==
    /\ Reading => open["receiver"]
    /\ reader = "LENGTH" =>
        /\ need = Header
        /\ Len(got) <= need
        /\ got # << >> => Expected \in 1..msg
        /\ \A i \in 1..Len(got) : got[i] = <<Expected, i>>
    /\ reader = "PAYLOAD" =>
        /\ Expected \in 1..msg
        /\ need = Size[Expected]
        /\ Len(got) <= need
        /\ \A i \in 1..Len(got) : got[i] = <<Expected, Header + i>>

Chain ==
    /\ \A i \in 1..Len(wire) : wire[i][1] \in 1..msg /\ wire[i][2] \in 1..Frame(wire[i][1])
    /\ \A i \in 1..Len(wire) - 1 : wire[i + 1] = Successor(wire[i])
    /\ Live /\ wire # << >> => wire[1] = ReaderNext
    /\ open["sender"] /\ open["receiver"] /\ wire # << >> => Successor(wire[Len(wire)]) = WriterNext
    /\ open["sender"] /\ open["receiver"] /\ wire = << >> /\ Live => ReaderNext = WriterNext

Whole == \A n \in 1..Len(taken) : n <= msg /\ taken[n] = Payload(n)

-----------------------------------------------------------------------------

\* The sizes of the messages are positive, and a frame is longer than its
\* length.
LEMMA Sizes ==
    ASSUME NEW m \in Messages
    PROVE  Size[m] \in Nat \ {0} /\ Frame(m) \in Nat /\ Frame(m) > Header /\ m \in Nat \ {0}
BY TransferAssumption DEF Frame, Messages

LEMMA MessagesAre == Len(Size) \in Nat /\ Messages = 1..Len(Size)
BY TransferAssumption DEF Messages

\* What Seq, Head, Tail and Append do to the first and the last byte.
LEMMA Appended ==
    ASSUME NEW S, NEW s \in Seq(S), NEW e \in S
    PROVE  /\ Append(s, e) \in Seq(S)
           /\ Append(s, e) # << >>
           /\ Len(Append(s, e)) = Len(s) + 1
           /\ Append(s, e)[Len(s) + 1] = e
           /\ \A i \in 1..Len(s) : Append(s, e)[i] = s[i]
OBVIOUS

LEMMA Shortened ==
    ASSUME NEW S, NEW s \in Seq(S), s # << >>
    PROVE  /\ Tail(s) \in Seq(S)
           /\ Head(s) = s[1]
           /\ s[1] \in S
           /\ Len(s) \in Nat \ {0}
           /\ Len(Tail(s)) = Len(s) - 1
           /\ \A i \in 1..Len(s) - 1 : Tail(s)[i] = s[i + 1]
           /\ Tail(s) = << >> <=> Len(s) = 1
<1>1. Len(s) # 0 /\ Len(s) \in Nat
  BY EmptySeq
<1>2. Tail(s) \in Seq(S) /\ Len(Tail(s)) = Len(s) - 1
  BY HeadTailProperties
<1>3. Tail(s) = << >> <=> Len(s) = 1
  <2>1. \A q \in Seq(S) : q = << >> <=> Len(q) = 0
    BY EmptySeq
  <2>2. Tail(s) = << >> <=> Len(Tail(s)) = 0
    BY <1>2, <2>1
  <2> QED
    BY <1>1, <1>2, <2>2
<1>4. Head(s) = s[1] /\ s[1] \in S
  BY <1>1
<1> QED
  BY <1>1, <1>2, <1>3, <1>4, HeadTailProperties

LEMMA TypeInvariant == Spec => []TypeOK
<1>1. Init => TypeOK
  <2> SUFFICES ASSUME Init PROVE TypeOK
    OBVIOUS
  <2>1. << >> \in Seq(Bytes) /\ << >> \in Seq(Seq(Bytes))
    BY EmptySeq
  <2>2. up \in [Ends -> BOOLEAN] /\ open \in [Ends -> BOOLEAN]
    BY DEF Init
  <2>3. wire \in Seq(Bytes) /\ got \in Seq(Bytes) /\ taken \in Seq(Seq(Bytes))
    BY <2>1 DEF Init
  <2>4. msg = 0 /\ at = 0 /\ writer = "AWAY" /\ reader = "AWAY" /\ failure = 0 /\ need = 0 /\ returned = {}
    BY DEF Init
  <2>5. emergency \in BOOLEAN /\ torn \in BOOLEAN
    BY Zenon DEF Init
  <2> QED
    BY <2>2, <2>3, <2>4, <2>5 DEF TypeOK
<1>2. TypeOK /\ [Next]_vars => TypeOK'
  <2> SUFFICES ASSUME TypeOK, [Next]_vars PROVE TypeOK'
    OBVIOUS
  <2>1. CASE SendData
    BY <2>1 DEF TypeOK, SendData, readerVars
  <2>2. CASE WriteByte
    <3>1. <<msg, at + 1>> \in Bytes
      BY <2>2 DEF WriteByte, MayWrite, TypeOK, Bytes
    <3> QED
      BY <2>2, <3>1 DEF TypeOK, WriteByte, MayWrite, readerVars
  <2>3. CASE WriteReturns
    BY <2>3, Sizes DEF TypeOK, WriteReturns, MayWrite, readerVars
  <2>4. CASE WriteFails
    BY <2>4 DEF TypeOK, WriteFails, readerVars
  <2>5. CASE HasData
    BY <2>5, EmptySeq, TransferAssumption DEF TypeOK, HasData, Call, writerVars
  <2>6. CASE ReadByte
    <3>1. Head(wire) \in Bytes /\ Tail(wire) \in Seq(Bytes)
      BY <2>6 DEF ReadByte, TypeOK
    <3> QED
      BY <2>6, <3>1 DEF TypeOK, ReadByte, writerVars
  <2>7. CASE PayloadRead
    BY <2>7, EmptySeq DEF TypeOK, PayloadRead, Call, writerVars
  <2>8. ASSUME NEW n \in Values, LengthRead(n) PROVE TypeOK'
    <3>1. n \in Int
      <4>1. Lengths \subseteq Int
        BY TransferAssumption
      <4>2. Decoded \subseteq Int
        BY Sizes DEF Decoded
      <4> QED
        BY <4>1, <4>2 DEF Values
    <3> QED
      BY <2>8, <3>1, EmptySeq DEF TypeOK, LengthRead, Call, ReadFails, writerVars
  <2>9. CASE ReadTimesOut \/ ReadEnds \/ ReadStopped
    BY <2>9 DEF TypeOK, ReadTimesOut, ReadEnds, ReadStopped, ReadFails, writerVars
  <2>10. CASE AskAgain
    BY <2>10, EmptySeq, TransferAssumption DEF TypeOK, AskAgain, Call, writerVars
  <2>11. ASSUME NEW e \in Ends, CloseConn(e) PROVE TypeOK'
    BY <2>11 DEF TypeOK, CloseConn, writerVars, readerVars
  <2>12. ASSUME NEW k \in 0..Len(wire), Break(k) PROVE TypeOK'
    <3>1. SubSeq(wire, 1, k) \in Seq(Bytes)
      BY DEF TypeOK
    <3> QED
      BY <2>12, <3>1 DEF TypeOK, Break, writerVars, readerVars
  <2>13. ASSUME NEW e \in Ends, Stop(e) PROVE TypeOK'
    BY <2>13 DEF TypeOK, Stop, writerVars, readerVars
  <2>14. CASE UNCHANGED vars
    BY <2>14 DEF TypeOK, vars, writerVars, readerVars
  <2> QED
    BY <2>1, <2>2, <2>3, <2>4, <2>5, <2>6, <2>7, <2>8, <2>9, <2>10, <2>11, <2>12, <2>13, <2>14
    DEF Next, WriterStep, ReaderStep, Ends
<1> QED
  BY <1>1, <1>2, PTL DEF Spec

-----------------------------------------------------------------------------
(* One lemma per group of actions: the chain is kept as long as no end has    *)
(* gone on after half a message.                                              *)

LEMMA Places ==
    /\ Place(0, 0) = <<1, 1>>
    /\ \A m \in Nat \ {0} : Place(m, 0) = <<m, 1>>
    /\ \A m \in Messages : Place(m, Frame(m)) = <<m + 1, 1>>
    /\ \A m \in Messages : \A k \in 0..Frame(m) - 1 : Place(m, k) = <<m, k + 1>>
BY Sizes, TransferAssumption DEF Place

\* Everything up to the message that is being sent is a message.
LEMMA UpToMsg ==
    ASSUME TypeOK, NEW m \in 1..msg
    PROVE  m \in Messages
BY MessagesAre DEF TypeOK

Good == SenderOK /\ ReceiverOK /\ Chain /\ Whole

LEMMA WriteByteKeeps ==
    ASSUME TypeOK, Good, WriteByte
    PROVE  Good'
<1> DEFINE b == <<msg, at + 1>>
<1>1. msg \in Messages /\ msg \in 1..msg /\ Frame(msg) \in Nat /\ at \in 0..Frame(msg) - 1
  BY Sizes DEF WriteByte, MayWrite, TypeOK
<1>2. /\ msg' = msg /\ at' = at + 1 /\ open' = open /\ writer' = writer
      /\ reader' = reader /\ failure' = failure /\ need' = need /\ got' = got /\ taken' = taken
      /\ open["sender"]
  BY DEF WriteByte, readerVars
<1>3. SenderOK'
  BY <1>1, <1>2 DEF SenderOK, Frame
<1>4. ReceiverOK' /\ Whole'
  BY <1>2 DEF Good, ReceiverOK, Whole, Reading, Expected
<1>5. ReaderNext' = ReaderNext /\ Live' = Live
  BY <1>2 DEF ReaderNext, Live, Expected, Consumed
<1>6. WriterNext = b /\ WriterNext' = Successor(b)
  BY <1>1, <1>2, Places DEF WriterNext, Successor
<1>7. CASE open["receiver"]
  <2>1. wire' = Append(wire, b)
    BY <1>7 DEF WriteByte
  <2>2. b \in Bytes /\ b[1] \in 1..msg /\ b[2] \in 1..Frame(b[1])
    BY <1>1 DEF Bytes
  <2>3. /\ wire' # << >> /\ Len(wire') = Len(wire) + 1 /\ wire'[Len(wire) + 1] = b
        /\ \A i \in 1..Len(wire) : wire'[i] = wire[i]
        /\ Len(wire) \in Nat
    <3>1. wire \in Seq(Bytes) /\ b \in Bytes
      BY <2>2 DEF TypeOK
    <3>2. Len(wire) \in Nat
      BY <3>1
    <3> HIDE DEF b
    <3> QED
      BY <2>1, <3>1, <3>2, Appended
  <2>4. \A i \in 1..Len(wire') : wire'[i][1] \in 1..msg' /\ wire'[i][2] \in 1..Frame(wire'[i][1])
    BY <1>2, <2>2, <2>3 DEF Good, Chain
  <2>5. \A i \in 1..Len(wire') - 1 : wire'[i + 1] = Successor(wire'[i])
    <3> SUFFICES ASSUME NEW i \in 1..Len(wire) PROVE wire'[i + 1] = Successor(wire[i])
      BY <2>3
    <3>1. CASE i < Len(wire)
      BY <3>1, <2>3 DEF Good, Chain
    <3>2. CASE i = Len(wire)
      <4>1. wire # << >>
        BY <3>2, EmptySeq DEF TypeOK
      <4> QED
        BY <1>2, <1>6, <1>7, <2>3, <3>2, <4>1 DEF Good, Chain
    <3> QED
      BY <3>1, <3>2, <2>3
  <2>6. Live' => wire'[1] = ReaderNext'
    <3>1. CASE wire = << >>
      <4>1. Len(wire) = 0
        BY <3>1, EmptySeq
      <4> QED
        BY <1>2, <1>5, <1>6, <1>7, <2>3, <3>1, <4>1 DEF Good, Chain
    <3>2. CASE wire # << >>
      <4>1. 1 \in 1..Len(wire)
        BY <3>2, EmptySeq DEF TypeOK
      <4> QED
        BY <1>5, <2>3, <3>2, <4>1 DEF Good, Chain
    <3> QED
      BY <3>1, <3>2
  <2>7. Successor(wire'[Len(wire')]) = WriterNext'
    BY <1>6, <2>3
  <2>8. Chain'
    BY <2>3, <2>4, <2>5, <2>6, <2>7 DEF Chain, Successor, Place, Frame
  <2> QED
    BY <1>3, <1>4, <2>8 DEF Good
<1>8. CASE ~open["receiver"]
  <2>1. wire' = wire
    BY <1>8 DEF WriteByte
  <2>2. Chain'
    BY <1>2, <1>5, <1>8, <2>1 DEF Good, Chain, Successor, Place, Frame
  <2> QED
    BY <1>3, <1>4, <2>2 DEF Good
<1> QED
  BY <1>7, <1>8

LEMMA ReadByteKeeps ==
    ASSUME TypeOK, Good, ReadByte
    PROVE  Good'
<1>1. /\ msg' = msg /\ at' = at /\ open' = open /\ writer' = writer
      /\ reader' = reader /\ failure' = failure /\ need' = need /\ taken' = taken
      /\ reader \in {"LENGTH", "PAYLOAD"} /\ Len(got) < need
      /\ wire # << >> /\ got' = Append(got, Head(wire)) /\ wire' = Tail(wire)
  BY DEF ReadByte, MayRead, Reading, writerVars
<1>2. /\ Head(wire) = wire[1] /\ wire[1] \in Bytes
      /\ Len(wire) \in Nat \ {0} /\ Len(wire') = Len(wire) - 1
      /\ \A i \in 1..Len(wire) - 1 : wire'[i] = wire[i + 1]
      /\ wire' = << >> <=> Len(wire) = 1
  BY <1>1, Shortened DEF TypeOK
<1>3. /\ Len(got) \in Nat /\ Len(got') = Len(got) + 1 /\ got'[Len(got) + 1] = wire[1]
      /\ \A i \in 1..Len(got) : got'[i] = got[i]
      /\ got' # << >>
  <2>1. got \in Seq(Bytes) /\ Len(got) \in Nat
    BY DEF TypeOK
  <2>2. got' = Append(got, wire[1])
    BY <1>1, <1>2
  <2> QED
    BY <1>2, <2>1, <2>2, Appended
<1>4. wire[1] = Place(Expected, Consumed) /\ Consumed' = Consumed + 1 /\ Expected' = Expected
  BY <1>1, <1>2, <1>3, TransferAssumption DEF Good, Chain, Live, ReaderNext, Consumed, Expected
<1>5. Expected \in Nat \ {0} /\ Consumed \in Nat
  BY <1>3, TransferAssumption DEF Expected, Consumed, TypeOK
\* The byte that is read is the one that is expected.
<1>6. Expected \in 1..msg /\ wire[1] = <<Expected, Consumed + 1>>
  <2>1. wire[1][1] \in 1..msg
    BY <1>2 DEF Good, Chain
  <2>2. CASE Consumed = 0
    <3>1. wire[1] = <<Expected, 1>>
      BY <1>4, <1>5, <2>2, Places
    <3> QED
      BY <2>1, <2>2, <3>1
  <2>3. CASE Consumed # 0
    <3>1. Expected \in 1..msg
      <4>1. CASE reader = "PAYLOAD"
        BY <4>1 DEF Good, ReceiverOK
      <4>2. CASE reader = "LENGTH"
        <5>1. got # << >>
          BY <2>3, <4>2, EmptySeq DEF Consumed
        <5> QED
          BY <4>2, <5>1 DEF Good, ReceiverOK
      <4> QED
        BY <1>1, <4>1, <4>2
    <3>2. Expected \in Messages
      BY <3>1, UpToMsg
    <3>3. Consumed < Frame(Expected)
      BY <1>1, <1>3, <3>2, Sizes, TransferAssumption DEF Consumed, Good, ReceiverOK, Frame
    <3> QED
      BY <1>4, <1>5, <3>1, <3>2, <3>3, Sizes, Places
  <2> QED
    BY <2>2, <2>3
<1>7. ReaderNext' = Successor(wire[1])
  BY <1>4, <1>6 DEF ReaderNext, Successor, Place, Frame
<1>8. SenderOK' /\ Whole'
  BY <1>1, <1>4 DEF Good, SenderOK, Whole, Frame
<1>9. ReceiverOK'
  <2>1. Reading' => open'["receiver"]
    BY <1>1 DEF Good, ReceiverOK, Reading
  <2>2. CASE reader = "LENGTH"
    <3>1. got'[Len(got) + 1] = <<Expected, Len(got) + 1>>
      BY <1>3, <1>6, <2>2 DEF Consumed
    <3>2. \A i \in 1..Len(got') : got'[i] = <<Expected, i>>
      BY <1>3, <2>2, <3>1 DEF Good, ReceiverOK
    <3>3. need = Header /\ Len(got') <= need
      BY <1>1, <1>3, <2>2, TransferAssumption DEF Good, ReceiverOK
    <3> QED
      BY <1>1, <1>4, <1>6, <2>1, <2>2, <3>2, <3>3 DEF ReceiverOK
  <2>3. CASE reader = "PAYLOAD"
    <3>1. got'[Len(got) + 1] = <<Expected, Header + (Len(got) + 1)>>
      BY <1>3, <1>6, <2>3, TransferAssumption DEF Consumed
    <3>2. \A i \in 1..Len(got') : got'[i] = <<Expected, Header + i>>
      BY <1>3, <2>3, <3>1 DEF Good, ReceiverOK
    <3>3. need \in Nat /\ need = Size[Expected]
      BY <1>6, <2>3, UpToMsg, Sizes DEF Good, ReceiverOK
    <3>4. Len(got') <= need
      BY <1>1, <1>3, <3>3
    <3> QED
      BY <1>1, <1>4, <1>6, <2>1, <2>3, <3>2, <3>3, <3>4 DEF ReceiverOK
  <2> QED
    BY <1>1, <2>2, <2>3
<1>10. Chain'
  <2>1. \A i \in 1..Len(wire') : wire'[i][1] \in 1..msg' /\ wire'[i][2] \in 1..Frame(wire'[i][1])
    BY <1>1, <1>2 DEF Good, Chain
  <2>2. \A i \in 1..Len(wire') - 1 : wire'[i + 1] = Successor(wire'[i])
    <3> SUFFICES ASSUME NEW i \in 1..Len(wire) - 2 PROVE wire'[i + 1] = Successor(wire'[i])
      BY <1>2
    <3>1. wire'[i] = wire[i + 1] /\ wire'[i + 1] = wire[(i + 1) + 1] /\ i + 1 \in 1..Len(wire) - 1
      BY <1>2
    <3>2. wire[(i + 1) + 1] = Successor(wire[i + 1])
      BY <3>1 DEF Good, Chain
    <3> QED
      BY <3>1, <3>2
  <2>3. wire' # << >> => wire'[1] = ReaderNext'
    BY <1>2, <1>7 DEF Good, Chain
  <2>4. WriterNext' = WriterNext
    BY <1>1 DEF WriterNext, Place, Frame
  <2>5. open["sender"] /\ open["receiver"] /\ wire' # << >> => Successor(wire'[Len(wire')]) = WriterNext
    <3>1. wire' # << >> => wire'[Len(wire')] = wire[Len(wire)]
      BY <1>2
    <3> QED
      BY <1>1, <3>1 DEF Good, Chain
  <2>6. open["sender"] /\ open["receiver"] /\ wire' = << >> => ReaderNext' = WriterNext
    BY <1>1, <1>2, <1>7 DEF Good, Chain
  <2> QED
    BY <1>1, <2>1, <2>2, <2>3, <2>4, <2>5, <2>6 DEF Chain, Successor, Place, Frame
<1> QED
  BY <1>8, <1>9, <1>10 DEF Good

\* A message that was left with nothing written, or whole, has the next one
\* begin where the stream stands.
LEMMA SendDataKeeps ==
    ASSUME TypeOK, Good, SendData, ~HalfWritten
    PROVE  Good'
<1>1. /\ open' = open /\ wire' = wire /\ at' = 0 /\ msg' \in Messages
      /\ reader' = reader /\ failure' = failure /\ need' = need /\ got' = got /\ taken' = taken
      /\ msg' = IF msg # 0 /\ at = 0 THEN msg ELSE msg + 1
  BY DEF SendData, readerVars
<1>2. msg \in Nat /\ msg' \in Nat \ {0} /\ msg <= msg' /\ Frame(msg') \in Nat
  <2>1. msg \in Nat
    BY Sizes DEF TypeOK
  <2> QED
    BY <1>1, <2>1, Sizes
<1>3. WriterNext' = WriterNext
  <2>1. WriterNext' = <<msg', 1>>
    BY <1>1, <1>2, Places DEF WriterNext
  <2>2. CASE msg = 0
    BY <1>1, <2>1, <2>2, Places DEF Good, SenderOK, WriterNext
  <2>3. CASE msg # 0 /\ at = 0
    BY <1>1, <1>2, <2>1, <2>3, Places DEF WriterNext
  <2>4. CASE msg # 0 /\ at # 0
    <3>1. msg \in Messages /\ at = Frame(msg)
      BY <2>4, Sizes DEF TypeOK, HalfWritten, Good, SenderOK
    <3> QED
      BY <1>1, <2>1, <2>4, <3>1, Places DEF WriterNext
  <2> QED
    BY <2>2, <2>3, <2>4
<1>4. SenderOK'
  BY <1>1, <1>2 DEF SenderOK, Frame
<1>5. ReceiverOK' /\ Whole'
  <2>1. \A n \in 1..msg : n \in 1..msg'
    BY <1>2
  <2>2. Len(taken) \in Nat
    BY DEF TypeOK
  <2>3. ReceiverOK'
    BY <1>1, <2>1 DEF Good, ReceiverOK, Reading, Expected
  <2>4. Whole'
    BY <1>1, <1>2, <2>2 DEF Good, Whole, Payload
  <2> QED
    BY <2>3, <2>4
<1>6. ReaderNext' = ReaderNext /\ Live' = Live
  BY <1>1 DEF ReaderNext, Live, Expected, Consumed
<1>7. Chain'
  <2>1. \A n \in 1..msg : n \in 1..msg'
    BY <1>2
  <2> QED
    BY <1>1, <1>3, <1>6, <2>1 DEF Good, Chain, Successor, Place, Frame
<1> QED
  BY <1>4, <1>5, <1>7 DEF Good

\* Calls that begin or fail, ends that close or are stopped: no byte moves.
LEMMA ReceiverAsks ==
    ASSUME TypeOK, Good, HasData \/ (AskAgain /\ got = << >>)
    PROVE  Good'
<1>1. /\ open' = open /\ wire' = wire /\ at' = at /\ msg' = msg /\ writer' = writer
      /\ failure' = failure /\ taken' = taken
      /\ reader' = "LENGTH" /\ need' = Header /\ got' = << >> /\ open["receiver"]
  BY DEF HasData, AskAgain, Call, writerVars
<1>2. Len(got') = 0
  BY <1>1, EmptySeq
<1>3. Live /\ Live' /\ Consumed = 0 /\ Consumed' = 0
  BY <1>1, <1>2 DEF HasData, AskAgain, Live, Consumed
<1>4. ReaderNext' = ReaderNext /\ WriterNext' = WriterNext
  BY <1>1, <1>3 DEF ReaderNext, WriterNext, Place, Frame, Expected
<1>5. SenderOK' /\ Whole'
  BY <1>1 DEF Good, SenderOK, Whole, Frame
<1>6. ReceiverOK'
  BY <1>1, <1>2, TransferAssumption DEF ReceiverOK, Reading
<1>7. Chain'
  BY <1>1, <1>3, <1>4 DEF Good, Chain, Successor, Place, Frame
<1> QED
  BY <1>5, <1>6, <1>7 DEF Good

LEMMA ReceiverFails ==
    ASSUME TypeOK, Good, Reading, NEW code, ReadFails(code), code = -2 => reader = "LENGTH"
    PROVE  Good'
<1>1. /\ open' = open /\ wire' = wire /\ at' = at /\ msg' = msg /\ writer' = writer
      /\ failure' = code /\ taken' = taken /\ reader' = "FAILED" /\ need' = need /\ got' = got
  BY DEF ReadFails, writerVars
<1>2. SenderOK' /\ Whole' /\ ReceiverOK'
  BY <1>1 DEF Good, SenderOK, Whole, Frame, ReceiverOK, Reading
<1>3. Live' => Live /\ ReaderNext' = ReaderNext
  <2> SUFFICES ASSUME Live' PROVE Live /\ ReaderNext' = ReaderNext
    OBVIOUS
  <2>1. code = -2 /\ got = << >> /\ reader = "LENGTH"
    BY <1>1 DEF Live
  <2>2. Consumed = 0 /\ Consumed' = 0
    BY <1>1, <2>1, EmptySeq DEF Consumed
  <2> QED
    BY <1>1, <2>1, <2>2 DEF Live, ReaderNext, Place, Frame, Expected
<1>4. WriterNext' = WriterNext
  BY <1>1 DEF WriterNext, Place, Frame
<1>5. Chain'
  BY <1>1, <1>3, <1>4 DEF Good, Chain, Successor, Place, Frame
<1> QED
  BY <1>2, <1>5 DEF Good

\* The bytes read for a length are the length of the message that follows.
LEMMA LengthReadKeeps ==
    ASSUME TypeOK, Good, NEW n \in Values, LengthRead(n)
    PROVE  Good'
<1>1. reader = "LENGTH" /\ Len(got) = Header /\ Reading
  BY DEF LengthRead, MayRead, Good, ReceiverOK
<1>2. got # << >>
  BY <1>1, EmptySeq, TransferAssumption
<1>3. Expected \in 1..msg /\ Expected \in Messages
  BY <1>1, <1>2, UpToMsg DEF Good, ReceiverOK
<1>4. got = Length(Expected)
  <2>1. got = [i \in 1..Len(got) |-> got[i]]
    BY DEF TypeOK
  <2>2. \A i \in 1..Header : got[i] = <<Expected, i>>
    BY <1>1 DEF Good, ReceiverOK
  <2> QED
    BY <1>1, <2>1, <2>2, Zenon DEF Length
<1>5. Decoded = {Size[Expected]}
  <2>1. \A m \in Messages : got = Length(m) => m = Expected
    <3> SUFFICES ASSUME NEW m \in Messages, Length(m) = Length(Expected) PROVE m = Expected
      BY <1>4
    <3>1. 1 \in 1..Header
      BY TransferAssumption
    <3>2. Length(m)[1] = <<m, 1>> /\ Length(Expected)[1] = <<Expected, 1>>
      BY <3>1, Zenon DEF Length
    <3>3. <<m, 1>> = <<Expected, 1>>
      BY <3>2
    <3> QED
      BY <3>3
  <2> QED
    BY <1>3, <1>4, <2>1 DEF Decoded
<1>6. n = Size[Expected] /\ n \in Nat \ {0}
  BY <1>3, <1>5, Sizes DEF Values
<1>7. /\ open' = open /\ wire' = wire /\ at' = at /\ msg' = msg /\ writer' = writer
      /\ failure' = failure /\ taken' = taken
      /\ reader' = "PAYLOAD" /\ need' = n /\ got' = << >>
  BY <1>6 DEF LengthRead, Call, writerVars
<1>8. Len(got') = 0 /\ Expected' = Expected
  BY <1>7, EmptySeq DEF Expected
<1>9. Live /\ Live' /\ Consumed = Header /\ Consumed' = Header
  BY <1>1, <1>7, <1>8, TransferAssumption DEF Live, Consumed
<1>10. ReaderNext' = ReaderNext /\ WriterNext' = WriterNext
  BY <1>7, <1>8, <1>9 DEF ReaderNext, WriterNext, Place, Frame
<1>11. SenderOK' /\ Whole'
  BY <1>7 DEF Good, SenderOK, Whole, Frame
<1>12. ReceiverOK'
  BY <1>1, <1>3, <1>6, <1>7, <1>8 DEF Good, ReceiverOK, Reading
<1>13. Chain'
  BY <1>7, <1>9, <1>10 DEF Good, Chain, Successor, Place, Frame
<1> QED
  BY <1>11, <1>12, <1>13 DEF Good

\* What recv_data returns is the payload of the message that was expected.
LEMMA PayloadReadKeeps ==
    ASSUME TypeOK, Good, PayloadRead
    PROVE  Good'
<1>1. /\ open' = open /\ wire' = wire /\ at' = at /\ msg' = msg /\ writer' = writer
      /\ reader = "PAYLOAD" /\ Len(got) = need /\ failure' = failure
      /\ taken' = Append(taken, got) /\ reader' = "AWAY"
  BY DEF PayloadRead, MayRead, Call, writerVars
<1>2. Expected \in 1..msg /\ Expected \in Messages
  BY <1>1, UpToMsg DEF Good, ReceiverOK
<1>3. Size[Expected] \in Nat \ {0} /\ Len(got) = Size[Expected]
  BY <1>1, <1>2, Sizes DEF Good, ReceiverOK
<1>4. got = Payload(Expected)
  <2>1. got = [i \in 1..Len(got) |-> got[i]]
    BY DEF TypeOK
  <2>2. \A i \in 1..Size[Expected] : got[i] = <<Expected, Header + i>>
    BY <1>1, <1>3 DEF Good, ReceiverOK
  <2> QED
    BY <1>3, <2>1, <2>2, Zenon DEF Payload
<1>5. /\ Len(taken) \in Nat /\ Len(taken') = Expected
      /\ taken'[Expected] = got /\ \A n \in 1..Len(taken) : taken'[n] = taken[n]
  <2>1. taken \in Seq(Seq(Bytes)) /\ got \in Seq(Bytes) /\ Len(taken) \in Nat
    BY DEF TypeOK
  <2>2. Len(taken') = Len(taken) + 1 /\ taken'[Len(taken) + 1] = got
        /\ \A n \in 1..Len(taken) : taken'[n] = taken[n]
    BY <1>1, <2>1, Appended
  <2> QED
    BY <2>1, <2>2 DEF Expected
<1>6. Whole'
  <2> SUFFICES ASSUME NEW n \in 1..Expected PROVE n <= msg /\ taken'[n] = Payload(n)
    BY <1>1, <1>5 DEF Whole, Payload
  <2>1. CASE n = Expected
    BY <1>2, <1>4, <1>5, <2>1
  <2>2. CASE n # Expected
    BY <1>5, <2>2 DEF Good, Whole, Expected
  <2> QED
    BY <2>1, <2>2
<1>7. ReaderNext' = ReaderNext
  <2>1. Consumed = Frame(Expected) /\ Consumed' = 0 /\ Expected' = Expected + 1
    BY <1>1, <1>3, <1>5 DEF Consumed, Frame, Expected
  <2>2. ReaderNext = <<Expected + 1, 1>>
    BY <1>2, <2>1, Places DEF ReaderNext
  <2>3. ReaderNext' = <<Expected + 1, 1>>
    BY <1>2, <2>1, Places, Sizes DEF ReaderNext, Place, Frame
  <2> QED
    BY <2>2, <2>3
<1>8. SenderOK' /\ ReceiverOK' /\ WriterNext' = WriterNext /\ Live /\ Live'
  BY <1>1 DEF Good, SenderOK, ReceiverOK, Reading, WriterNext, Place, Frame, Live
<1>9. Chain'
  BY <1>1, <1>7, <1>8 DEF Good, Chain, Successor, Place, Frame
<1> QED
  BY <1>6, <1>8, <1>9 DEF Good

\* The connection breaks, an end closes, a process is stopped, a call of the
\* sender returns: no byte is added, and what is left is still a chain.
LEMMA EndsKeep ==
    ASSUME TypeOK, Good,
           UNCHANGED <<msg, at, readerVars>>,
           writer' = "WRITING" => writer = "WRITING",
           \A e \in Ends : open'[e] => open[e],
           open["receiver"] /\ ~open'["receiver"] => ~Reading,
           \/ wire' = wire
           \/ ~open'["sender"] /\ \E k \in 0..Len(wire) : wire' = SubSeq(wire, 1, k)
    PROVE  Good'
<1>1. /\ msg' = msg /\ at' = at
      /\ reader' = reader /\ failure' = failure /\ need' = need /\ got' = got /\ taken' = taken
  BY DEF readerVars
<1>2. (open'["sender"] => open["sender"]) /\ (open'["receiver"] => open["receiver"])
  BY DEF Ends
<1>3. SenderOK' /\ Whole'
  BY <1>1 DEF Good, SenderOK, Whole, Frame, Payload
<1>4. ReceiverOK'
  <2>1. Reading => open'["receiver"]
    BY DEF Good, ReceiverOK, TypeOK, Ends
  <2> QED
    BY <1>1, <2>1 DEF Good, ReceiverOK, Reading, Expected
<1>5. ReaderNext' = ReaderNext /\ Live' = Live /\ WriterNext' = WriterNext
  BY <1>1 DEF ReaderNext, Live, WriterNext, Place, Frame, Expected, Consumed
<1>6. CASE wire' = wire
  <2>1. Chain'
    BY <1>1, <1>2, <1>5, <1>6 DEF Good, Chain, Successor, Place, Frame
  <2> QED
    BY <1>3, <1>4, <2>1 DEF Good
<1>7. ASSUME ~open'["sender"], NEW k \in 0..Len(wire), wire' = SubSeq(wire, 1, k) PROVE Good'
  <2>1. Len(wire) \in Nat /\ Len(wire') = k /\ wire' \in Seq(Bytes) /\ \A i \in 1..k : wire'[i] = wire[i]
    BY <1>7 DEF TypeOK
  <2>2. wire' # << >> => k >= 1 /\ wire # << >>
    BY <2>1, EmptySeq DEF TypeOK
  <2>3. \A i \in 1..Len(wire') : wire'[i][1] \in 1..msg /\ wire'[i][2] \in 1..Frame(wire'[i][1])
    BY <2>1 DEF Good, Chain
  <2>4. \A i \in 1..Len(wire') - 1 : wire'[i + 1] = Successor(wire'[i])
    BY <2>1 DEF Good, Chain
  <2>5. Live /\ wire' # << >> => wire'[1] = ReaderNext
    BY <2>1, <2>2 DEF Good, Chain
  <2>6. Chain'
    BY <1>1, <1>5, <1>7, <2>3, <2>4, <2>5 DEF Chain, Successor, Place, Frame
  <2> QED
    BY <1>3, <1>4, <2>6 DEF Good
<1> QED
  BY <1>6, <1>7

-----------------------------------------------------------------------------

\* As long as no end went on after half a message, the chain holds.
Framed == ~torn => Good

LEMMA FramedInvariant == Spec => []Framed
<1>1. Init => Framed
  <2> SUFFICES ASSUME Init PROVE Good
    BY DEF Framed
  <2>1. /\ Len(wire) = 0 /\ Len(taken) = 0 /\ msg = 0 /\ at = 0
        /\ writer = "AWAY" /\ reader = "AWAY" /\ wire = << >>
    BY EmptySeq DEF Init
  <2>2. ReaderNext = <<1, 1>> /\ WriterNext = <<1, 1>>
    BY <2>1, Places DEF ReaderNext, WriterNext, Expected, Consumed
  <2> QED
    BY <2>1, <2>2 DEF Good, SenderOK, ReceiverOK, Chain, Whole, Reading
<1>2. TypeOK /\ Framed /\ [Next]_vars => Framed'
  <2> SUFFICES ASSUME TypeOK, Framed, [Next]_vars, ~torn' PROVE Good'
    BY DEF Framed
  <2>1. CASE SendData
    BY <2>1, SendDataKeeps DEF SendData, Framed
  <2>2. CASE WriteByte
    BY <2>2, WriteByteKeeps DEF WriteByte, Framed
  <2>3. CASE WriteReturns \/ WriteFails
    <3>1. ~torn /\ UNCHANGED <<msg, at, readerVars>> /\ wire' = wire /\ open' = open /\ writer' # "WRITING"
      BY <2>3 DEF WriteReturns, WriteFails
    <3> QED
      BY <3>1, EndsKeep DEF Framed
  <2>4. CASE HasData
    BY <2>4, ReceiverAsks DEF HasData, Framed
  <2>5. CASE AskAgain
    BY <2>5, ReceiverAsks DEF AskAgain, Framed
  <2>6. CASE ReadByte
    BY <2>6, ReadByteKeeps DEF ReadByte, Framed
  <2>7. CASE PayloadRead
    BY <2>7, PayloadReadKeeps DEF PayloadRead, Framed
  <2>8. ASSUME NEW n \in Values, LengthRead(n) PROVE Good'
    <3>1. torn' = torn
      BY <2>8 DEF LengthRead, ReadFails
    <3> QED
      BY <2>8, <3>1, LengthReadKeeps DEF Framed
  <2>9. CASE ReadTimesOut \/ ReadEnds \/ ReadStopped
    <3>1. PICK code \in {-1, -2} : ReadFails(code) /\ (code = -2 => reader = "LENGTH") /\ Reading
      BY <2>9 DEF ReadTimesOut, ReadEnds, ReadStopped, NothingToRead, MayRead
    <3>2. Good
      BY <3>1 DEF ReadFails, Framed
    <3> QED
      BY <3>1, <3>2, ReceiverFails
  <2>10. ASSUME NEW e \in Ends, CloseConn(e) PROVE Good'
    <3>1. ~torn /\ UNCHANGED <<msg, at, readerVars>> /\ wire' = wire /\ writer' = writer
      BY <2>10 DEF CloseConn, writerVars
    <3>2. \A d \in Ends : open'[d] => open[d]
      BY <2>10 DEF CloseConn, TypeOK
    <3>3. open["receiver"] /\ ~open'["receiver"] => ~Reading
      BY <2>10 DEF CloseConn, TypeOK, Ends
    <3> QED
      BY <3>1, <3>2, <3>3, EndsKeep DEF Framed
  <2>11. ASSUME NEW k \in 0..Len(wire), Break(k) PROVE Good'
    <3>1. ~torn /\ UNCHANGED <<msg, at, readerVars>> /\ writer' = writer /\ wire' = SubSeq(wire, 1, k)
      BY <2>11 DEF Break, writerVars
    <3>2. /\ \A d \in Ends : open'[d] => open[d]
          /\ open'["receiver"] = open["receiver"] /\ ~open'["sender"]
      BY <2>11 DEF Break, TypeOK, Ends
    <3>3. Good
      BY <3>1 DEF Framed
    <3> QED
      BY <3>1, <3>2, <3>3, EndsKeep
  <2>12. ASSUME NEW e \in Ends, Stop(e) PROVE Good'
    <3>1. ~torn /\ UNCHANGED <<msg, at, readerVars>> /\ wire' = wire /\ open' = open /\ writer' = writer
      BY <2>12 DEF Stop, writerVars
    <3> QED
      BY <3>1, EndsKeep DEF Framed
  <2>13. CASE UNCHANGED vars
    <3>1. ~torn /\ UNCHANGED <<msg, at, readerVars>> /\ wire' = wire /\ open' = open /\ writer' = writer
      BY <2>13 DEF vars, writerVars
    <3> QED
      BY <3>1, EndsKeep DEF Framed
  <2> QED
    BY <2>1, <2>2, <2>3, <2>4, <2>5, <2>6, <2>7, <2>8, <2>9, <2>10, <2>11, <2>12, <2>13
    DEF Next, WriterStep, ReaderStep, Ends
<1> QED
  BY <1>1, <1>2, TypeInvariant, PTL DEF Spec

\* Every variable keeps its type: no place in a message, no length and no byte
\* leaves its range, however the calls of the two ends interleave.
THEOREM TransferTypes == Spec => []TypeOK
BY TypeInvariant

\* recv_data returns the payloads that send_data was given, whole, in order and
\* without a gap, until an end goes on after half a message.
THEOREM TransferInOrder == Spec => []InOrder
<1>1. Framed => InOrder
  BY DEF Framed, Good, Whole, InOrder
<1> QED
  BY <1>1, FramedInvariant, PTL
=============================================================================
