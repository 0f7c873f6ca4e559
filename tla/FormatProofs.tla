---------------------------- MODULE FormatProofs ----------------------------
(***************************************************************************)
(* What the engine reads and writes byte by byte, for every message, every *)
(* size of its parts and every width of a number: the order of sequence    *)
(* numbers; the bounds the parsers of DNS answers and TLS hellos keep, and *)
(* that they end; that the names, addresses and server names they report   *)
(* are those the message encodes; and that the checksums of the packets    *)
(* written are the ones the receiver expects.                              *)
(*                                                                         *)
(* What a loop or a recursive definition computes is proved by induction on *)
(* a number: the set of the numbers for which it holds contains 0 and the  *)
(* successor of each of its members (SetInduction).                        *)
(***************************************************************************)
EXTENDS DnsAnswer, TlsHello, Wire, PositionProofs, SequenceTheorems, TLAPS

(***************************************************************************)
(* Sequence numbers.                                                       *)
(***************************************************************************)
\* compare_u32 of two numbers less than Half after a third one is the order of
\* their distances from it, also where one of them or both have wrapped.
LEMMA CompareOffsets ==
  ASSUME NEW n \in Serial
  PROVE  LET r == compare_u32(Plus(n.base, n.a), Plus(n.base, n.b))
         IN  /\ n.a < n.b => r = -1
             /\ n.a = n.b => r = 0
             /\ n.a > n.b => r = 1
<1> DEFINE x == Plus(n.base, n.a)
           y == Plus(n.base, n.b)
<1>1. /\ Half \in Nat /\ U32 = 2 * Half + 2
      /\ n.base \in Int /\ n.base >= 0 /\ n.base < U32
      /\ n.a \in Int /\ n.a >= 0 /\ n.a < Half
      /\ n.b \in Int /\ n.b >= 0 /\ n.b < Half
  BY WireAssumption DEF Serial, U32
<1>2. /\ x = IF n.base + n.a >= U32 THEN n.base + n.a - U32 ELSE n.base + n.a
      /\ y = IF n.base + n.b >= U32 THEN n.base + n.b - U32 ELSE n.base + n.b
  BY DEF Plus
<1>3. x \in Int /\ y \in Int
  BY <1>1, <1>2
<1>4. compare_u32(x, y) = IF x = y THEN 0
                          ELSE IF (x < y /\ y - x < Half) \/ (x > y /\ x - y > Half)
                               THEN -1 ELSE 1
  BY DEF compare_u32
<1> HIDE DEF x, y
<1>5. CASE n.a < n.b
  BY <1>1, <1>2, <1>3, <1>4, <1>5 DEF x, y
<1>6. CASE n.a = n.b
  BY <1>1, <1>4, <1>6 DEF x, y
<1>7. CASE n.a > n.b
  BY <1>1, <1>2, <1>3, <1>4, <1>7 DEF x, y
<1>8. QED
  BY <1>1, <1>5, <1>6, <1>7

\* Numbers that wait to be compared are two of one connection.
Waiting == serial.pc = "compare" => serial.of \in Serial

SerialInv == Waiting /\ SerialOrder

\* Nothing is compared at first.
LEMMA InitSerial ==
  ASSUME WireInit
  PROVE  SerialInv
<1>1. CASE serial = NoSerial
  BY <1>1 DEF SerialInv, Waiting, SerialOrder, NoSerial
<1>2. CASE serial \in {[pc |-> "compare", of |-> n] : n \in Serials}
  <2>1. PICK n \in Serials : serial = [pc |-> "compare", of |-> n]
    BY <1>2
  <2>2. n \in Serial /\ serial.pc = "compare" /\ serial.of = n
    BY <2>1, WireAssumption
  <2>3. QED
    BY <2>2 DEF SerialInv, Waiting, SerialOrder
<1>3. QED
  BY <1>1, <1>2 DEF WireInit

\* A comparison gives the answer CompareOffsets states.
LEMMA CompareKeeps ==
  ASSUME SerialInv, CompareSerials
  PROVE  SerialInv'
<1> DEFINE n == serial.of
           r == compare_u32(Plus(n.base, n.a), Plus(n.base, n.b))
<1>1. n \in Serial
  BY DEF SerialInv, Waiting, CompareSerials
<1>2. /\ n.a < n.b => r = -1
      /\ n.a = n.b => r = 0
      /\ n.a > n.b => r = 1
  BY <1>1, CompareOffsets
<1>3. serial' = [pc |-> "compared", of |-> n, result |-> r]
  BY DEF CompareSerials
<1> HIDE DEF n, r
<1>4. serial'.pc = "compared" /\ serial'.of = n /\ serial'.result = r
  BY <1>3
<1>5. QED
  BY <1>2, <1>4 DEF SerialInv, Waiting, SerialOrder

\* Every comparison of sequence numbers the engine makes within half of their
\* range has the answer their distances give, for every width of the numbers.
THEOREM SerialSafety == WireSpec => []SerialOrder
<1>1. WireInit => SerialInv
  BY InitSerial
<1>2. SerialInv /\ [WireNext]_wireVars => SerialInv'
  <2> SUFFICES ASSUME SerialInv, [WireNext]_wireVars
               PROVE  SerialInv'
    OBVIOUS
  <2>1. CASE CompareSerials
    BY <2>1, CompareKeeps
  <2>2. CASE WritePacket
    BY <2>2 DEF WritePacket, SerialInv, Waiting, SerialOrder
  <2>3. CASE UNCHANGED wireVars
    BY <2>3 DEF wireVars, SerialInv, Waiting, SerialOrder
  <2>4. QED
    BY <2>1, <2>2, <2>3 DEF WireNext
<1>3. SerialInv => SerialOrder
  BY DEF SerialInv
<1>4. QED
  BY <1>1, <1>2, <1>3, PTL DEF WireSpec

(***************************************************************************)
(* Bytes.                                                                  *)
(***************************************************************************)
\* What is read of a buffer is a natural number, also beyond its end.
LEMMA ByteFacts ==
  ASSUME NEW data \in Seq(Byte), NEW i \in Int
  PROVE  /\ Radix \in Nat /\ Radix > 1
         /\ At(data, i) \in Nat /\ At(data, i) < Radix
         /\ Word(data, i) \in Nat
<1>1. Radix \in Nat /\ Radix > 1
  BY RadixAssumption
<1>2. ASSUME NEW k \in Int PROVE At(data, k) \in Nat /\ At(data, k) < Radix
  <2>1. CASE k \in 0..(Len(data) - 1)
    <3>1. k + 1 \in 1..Len(data)
      BY <2>1
    <3>2. data[k + 1] \in Byte
      BY <3>1
    <3>3. QED
      BY <1>1, <2>1, <3>2 DEF At, Byte
  <2>2. CASE k \notin 0..(Len(data) - 1)
    BY <1>1, <2>2 DEF At
  <2>3. QED
    BY <2>1, <2>2
<1>3. Word(data, i) \in Nat
  <2>1. At(data, i) \in Nat /\ At(data, i + 1) \in Nat
    BY <1>2
  <2>2. At(data, i) * Radix \in Nat
    BY <1>1, <2>1
  <2>3. QED
    BY <2>1, <2>2 DEF Word
<1>4. QED
  BY <1>1, <1>2, <1>3

\* A part of a buffer.
LEMMA CopyFacts ==
  ASSUME NEW data \in Seq(Byte), NEW i \in Int, NEW n \in Nat
  PROVE  Copy(data, i, n) \in Seq(Nat) /\ Len(Copy(data, i, n)) = n
<1>1. ASSUME NEW k \in 1..n PROVE At(data, i + k - 1) \in Nat
  <2> DEFINE j == i + k - 1
  <2>1. j \in Int
    OBVIOUS
  <2> HIDE DEF j
  <2>2. At(data, j) \in Nat
    BY <2>1, ByteFacts
  <2>3. QED
    BY <2>2 DEF j
<1>2. Copy(data, i, n) \in [1..n -> Nat]
  BY <1>1 DEF Copy
<1>3. QED
  BY <1>2

(***************************************************************************)
(* parse_sni.                                                              *)
(***************************************************************************)
TlsType ==
  [pc : {"record", "session", "suites", "compression", "extensions", "loop", "done"},
   index : Nat, edatalen : Nat, eindex : Nat, found : BOOLEAN, name : Seq(Nat), read : Int]

\* The extensions end with the record: what lies within them lies within it.
TlsInv ==
  /\ record \in Record /\ tls \in TlsType
  /\ tls.pc = "loop" => tls.index + tls.edatalen = RecordSize
  /\ TlsInBounds

\* The parts of the record that are read.
LEMMA RecordFacts ==
  ASSUME TlsInv
  PROVE  /\ record.data \in Seq(Byte) /\ RecordSize \in Nat
         /\ tls.read < RecordSize /\ tls.read \in Int /\ Len(tls.name) <= SniLength
         /\ tls.index \in Nat /\ tls.eindex \in Nat /\ tls.edatalen \in Nat
         /\ \A i \in Nat : Wrapped(i) \in Nat
<1>1. record.data \in Seq(Byte)
  BY DEF TlsInv, Record
<1>2. \A i \in Nat : Wrapped(i) \in Nat
  BY RadixAssumption DEF Wrapped
<1>3. RecordSize \in Nat
  BY <1>1 DEF RecordSize
<1>4. /\ tls.read \in Int /\ tls.index \in Nat /\ tls.eindex \in Nat /\ tls.edatalen \in Nat
  BY DEF TlsInv, TlsType
<1>5. tls.read < RecordSize /\ Len(tls.name) <= SniLength
  BY DEF TlsInv, TlsInBounds
<1>6. QED
  BY <1>1, <1>2, <1>3, <1>4, <1>5

\* The parser goes on to a part that is not the loop, or to its end.
LEMMA AdvanceKeeps ==
  ASSUME TlsInv, UNCHANGED record,
         NEW pc \in {"session", "suites", "compression", "extensions"},
         NEW index \in Nat, NEW n \in Nat, n < RecordSize, Advance(pc, index, n)
  PROVE  TlsInv'
<1> DEFINE r == Larger(tls.read, n)
           w == Wrapped(index)
<1>1. w \in Nat /\ r \in Int /\ r < RecordSize
  <2>1. w \in Nat /\ tls.read \in Int /\ tls.read < RecordSize
    BY RecordFacts
  <2>2. QED
    BY <2>1 DEF Larger
<1>2. tls \in TlsType /\ tls' = [tls EXCEPT !.pc = pc, !.index = w, !.read = r]
  BY DEF TlsInv, Advance
<1> HIDE DEF r, w
<1>3. /\ tls' \in TlsType /\ tls'.pc = pc /\ tls'.read = r /\ tls'.name = tls.name
  BY <1>1, <1>2 DEF TlsType
<1>4. RecordSize' = RecordSize /\ record' \in Record
  BY DEF RecordSize, TlsInv
<1>5. TlsInBounds'
  BY <1>1, <1>3, <1>4, RecordFacts DEF TlsInBounds
<1>6. QED
  BY <1>3, <1>4, <1>5 DEF TlsInv

\* It ends.
LEMMA RefuseKeeps ==
  ASSUME TlsInv, UNCHANGED record, Refuse
  PROVE  TlsInv'
<1>1. tls \in TlsType /\ tls' = [tls EXCEPT !.pc = "done"]
  BY DEF TlsInv, Refuse
<1>2. tls' \in TlsType /\ tls'.pc = "done" /\ tls'.read = tls.read /\ tls'.name = tls.name
  BY <1>1 DEF TlsType
<1>3. RecordSize' = RecordSize /\ record' \in Record
  BY DEF RecordSize, TlsInv
<1>4. TlsInBounds'
  BY <1>2, <1>3, RecordFacts DEF TlsInBounds
<1>5. QED
  BY <1>2, <1>3, <1>4 DEF TlsInv

\* The parts before the extensions: each is read only after a check that it is
\* there, wherever the wrapped index points.
LEMMA PartsKeep ==
  ASSUME TlsInv, CheckRecord \/ SkipSession \/ SkipSuites \/ SkipCompression
  PROVE  TlsInv'
<1>1. /\ tls.index \in Nat /\ RecordLen \in Nat /\ Fixed \in Nat /\ record.data \in Seq(Byte)
      /\ At(record.data, tls.index) \in Nat /\ Word(record.data, tls.index) \in Nat
      /\ tls.index + 1 \in Nat /\ RecordSize \in Nat
  <2> DEFINE i == tls.index
             d == record.data
  <2>1. i \in Nat /\ d \in Seq(Byte) /\ RecordSize \in Nat
    BY RecordFacts
  <2> HIDE DEF i, d
  <2>2. i \in Int /\ i + 1 \in Nat
    BY <2>1
  <2>3. At(d, i) \in Nat /\ Word(d, i) \in Nat
    BY <2>1, <2>2, ByteFacts
  <2>4. RecordLen \in Nat /\ Fixed \in Nat
    BY TlsAssumption
  <2>5. QED
    BY <2>1, <2>2, <2>3, <2>4 DEF i, d
<1>2. CASE CheckRecord
  BY <1>1, <1>2, RefuseKeeps, AdvanceKeeps DEF CheckRecord
<1>3. CASE SkipSession
  <2>1. tls.index + 1 + At(record.data, tls.index) \in Nat
    BY <1>1
  <2>2. QED
    BY <1>1, <1>3, <2>1, RefuseKeeps, AdvanceKeeps DEF SkipSession
<1>4. CASE SkipSuites
  <2>1. tls.index + 2 + Word(record.data, tls.index) \in Nat
    BY <1>1
  <2>2. QED
    BY <1>1, <1>4, <2>1, RefuseKeeps, AdvanceKeeps DEF SkipSuites
<1>5. CASE SkipCompression
  <2>1. tls.index + 1 + At(record.data, tls.index) \in Nat
    BY <1>1
  <2>2. QED
    BY <1>1, <1>5, <2>1, RefuseKeeps, AdvanceKeeps DEF SkipCompression
<1>6. QED
  BY <1>2, <1>3, <1>4, <1>5

\* The extensions are opened if they end with the record.
LEMMA OpenKeeps ==
  ASSUME TlsInv, OpenExtensions
  PROVE  TlsInv'
<1> DEFINE e == Word(record.data, tls.index)
           w == Wrapped(tls.index + 2)
           n == tls.index + 1
           r == Larger(tls.read, n)
<1>1. CASE Refuse
  BY <1>1, RefuseKeeps DEF OpenExtensions
<1>2. CASE ~Refuse
  <2>1. /\ n < RecordSize /\ w + e = RecordSize
        /\ tls' = [tls EXCEPT !.pc = "loop", !.index = w, !.edatalen = e, !.read = r]
        /\ record' = record
    BY <1>2 DEF OpenExtensions
  <2>2. tls.index \in Nat /\ tls.index + 2 \in Nat /\ n \in Nat /\ tls.index \in Int
    <3>1. tls.index \in Nat
      BY RecordFacts
    <3>2. QED
      BY <3>1
  <2>3. e \in Nat /\ w \in Nat /\ r \in Int /\ r < RecordSize
    <3>1. record.data \in Seq(Byte) /\ w \in Nat /\ tls.read \in Int /\ tls.read < RecordSize
      BY <2>2, RecordFacts
    <3>2. e \in Nat
      BY <2>2, <3>1, ByteFacts
    <3>3. r \in Int /\ r < RecordSize
      BY <2>1, <2>2, <3>1 DEF Larger
    <3>4. QED
      BY <3>1, <3>2, <3>3
  <2>4. tls \in TlsType
    BY DEF TlsInv
  <2> HIDE DEF e, w, r, n
  <2>5. /\ tls' \in TlsType /\ tls'.pc = "loop" /\ tls'.index = w /\ tls'.edatalen = e
        /\ tls'.read = r /\ tls'.name = tls.name
    BY <2>1, <2>3, <2>4 DEF TlsType
  <2>6. RecordSize' = RecordSize /\ record' \in Record
    BY <2>1 DEF RecordSize, TlsInv
  <2>7. TlsInBounds'
    BY <2>3, <2>5, <2>6, RecordFacts DEF TlsInBounds
  <2>8. QED
    BY <2>1, <2>5, <2>6, <2>7 DEF TlsInv
<1>3. QED
  BY <1>1, <1>2

\* An extension is skipped.
LEMMA SkipKeeps ==
  ASSUME TlsInv, SkipExtension
  PROVE  TlsInv'
<1> DEFINE x == ExtLen
           n == tls.index + Body - 1
           r == Larger(tls.read, n)
           b == Body + x
<1>1. /\ tls.pc = "loop" /\ tls.eindex + 3 < tls.edatalen /\ record' = record
      /\ tls' = [tls EXCEPT !.eindex = b, !.read = r]
  BY DEF SkipExtension, ExtFits
<1>2. /\ tls.index \in Nat /\ tls.eindex \in Nat /\ tls.edatalen \in Nat /\ RecordSize \in Nat
      /\ tls.index + tls.edatalen = RecordSize /\ tls \in TlsType
  BY <1>1, RecordFacts DEF TlsInv
<1>3. n \in Nat /\ n < RecordSize /\ tls.index + (tls.eindex + 2) \in Nat
  BY <1>1, <1>2 DEF Body
<1>4. x \in Nat
  <2> DEFINE i == tls.index + (tls.eindex + 2)
  <2>1. i \in Int /\ record.data \in Seq(Byte)
    BY <1>3, RecordFacts
  <2>2. x = Word(record.data, i)
    BY DEF ExtLen, EWord
  <2> HIDE DEF i, x
  <2>3. QED
    BY <2>1, <2>2, ByteFacts
<1>5. b \in Nat
  BY <1>2, <1>4 DEF Body
<1>6. r \in Int /\ r < RecordSize
  <2>1. tls.read \in Int /\ tls.read < RecordSize
    BY RecordFacts
  <2> HIDE DEF n
  <2>2. QED
    BY <1>3, <2>1 DEF Larger
<1> HIDE DEF b, r, n, x
<1>7. /\ tls' \in TlsType /\ tls'.index = tls.index /\ tls'.edatalen = tls.edatalen
      /\ tls'.read = r /\ tls'.name = tls.name
  BY <1>1, <1>2, <1>5, <1>6 DEF TlsType
<1>8. RecordSize' = RecordSize /\ record' \in Record
  BY <1>1 DEF RecordSize, TlsInv
<1>9. TlsInBounds'
  BY <1>6, <1>7, <1>8, RecordFacts DEF TlsInBounds
<1>10. QED
  BY <1>2, <1>7, <1>8, <1>9 DEF TlsInv

\* The name is copied if it lies within the extensions and fits the buffer.
LEMMA NameKeeps ==
  ASSUME TlsInv, ServerName
  PROVE  TlsInv'
<1> DEFINE l == EWord(Body + 3)
           n == tls.index + Body + 4 + l
           r == Larger(tls.read, n)
           c == Copy(record.data, tls.index + Body + 5, l)
           y == TRUE
<1>1. CASE Refuse
  BY <1>1, RefuseKeeps DEF ServerName
<1>2. CASE ~Refuse
  <2>1. /\ tls.pc = "loop" /\ Body + 5 + l < tls.edatalen /\ l < SniLength /\ record' = record
        /\ tls' = [tls EXCEPT !.pc = "done", !.found = y, !.name = c, !.read = r]
    BY <1>2 DEF ServerName, NameFits
  <2>2. /\ tls.index \in Nat /\ tls.eindex \in Nat /\ tls.edatalen \in Nat /\ RecordSize \in Nat
        /\ tls.index + tls.edatalen = RecordSize /\ tls \in TlsType /\ SniLength \in Nat
    BY <2>1, RecordFacts, TlsAssumption DEF TlsInv
  <2>3. Body \in Nat /\ tls.index + (Body + 3) \in Nat /\ tls.index + Body + 5 \in Nat
    BY <2>2 DEF Body
  <2> DEFINE i == tls.index + (Body + 3)
             j == tls.index + Body + 5
  <2>4. l \in Nat
    <3>1. i \in Int /\ record.data \in Seq(Byte)
      BY <2>3, RecordFacts
    <3>2. l = Word(record.data, i)
      BY DEF EWord
    <3> HIDE DEF i, l
    <3>3. QED
      BY <3>1, <3>2, ByteFacts
  <2> HIDE DEF l
  <2>5. c \in Seq(Nat) /\ Len(c) = l
    <3>1. j \in Int /\ record.data \in Seq(Byte)
      <4>1. j \in Int
        BY <2>3
      <4>2. QED
        BY <4>1, RecordFacts
    <3>2. c = Copy(record.data, j, l)
      OBVIOUS
    <3> HIDE DEF j, c
    <3>3. QED
      BY <2>4, <3>1, <3>2, CopyFacts
  <2> HIDE DEF c, i, j
  <2>6. n \in Nat /\ n < RecordSize
    BY <2>1, <2>2, <2>3, <2>4
  <2>7. r \in Int /\ r < RecordSize
    <3>1. tls.read \in Int /\ tls.read < RecordSize
      BY RecordFacts
    <3> HIDE DEF n
    <3>2. QED
      BY <2>6, <3>1 DEF Larger
  <2>8. y \in BOOLEAN
    OBVIOUS
  <2> HIDE DEF r, n, y
  <2>9. tls' \in TlsType /\ tls'.pc = "done" /\ tls'.read = r /\ tls'.name = c
    BY <2>1, <2>2, <2>5, <2>7, <2>8 DEF TlsType
  <2>10. RecordSize' = RecordSize /\ record' \in Record
    BY <2>1 DEF RecordSize, TlsInv
  <2>11. Len(c) <= SniLength
    BY <2>1, <2>2, <2>4, <2>5
  <2>12. TlsInBounds'
    BY <2>7, <2>9, <2>10, <2>11 DEF TlsInBounds
  <2>13. QED
    BY <2>9, <2>10, <2>12 DEF TlsInv
<1>3. QED
  BY <1>1, <1>2

\* Nothing is read at first.
LEMMA TlsStarts == TlsInit => TlsInv
<1> SUFFICES ASSUME TlsInit PROVE TlsInv
  OBVIOUS
<1>1. record \in Record /\ SniLength \in Nat
  BY TlsAssumption DEF TlsInit
<1>2. RecordSize \in Nat
  BY <1>1 DEF RecordSize, Record
<1>3. /\ tls \in TlsType /\ tls.pc = "record" /\ tls.read = -1 /\ tls.name = <<>>
  BY DEF TlsInit, NoTls, TlsType
<1>4. TlsInBounds
  BY <1>1, <1>2, <1>3 DEF TlsInBounds
<1>5. QED
  BY <1>1, <1>3, <1>4 DEF TlsInv

\* Every step stays within the payload.
LEMMA TlsKeeps == TlsInv /\ [TlsNext]_tlsVars => TlsInv'
<1> SUFFICES ASSUME TlsInv, [TlsNext]_tlsVars PROVE TlsInv'
  OBVIOUS
<1>1. CASE CheckRecord \/ SkipSession \/ SkipSuites \/ SkipCompression
  BY <1>1, PartsKeep
<1>2. CASE OpenExtensions
  BY <1>2, OpenKeeps
<1>3. CASE EndExtensions \/ RefuseExtension
  BY <1>3, RefuseKeeps DEF EndExtensions, RefuseExtension
<1>4. CASE SkipExtension
  BY <1>4, SkipKeeps
<1>5. CASE ServerName
  BY <1>5, NameKeeps
<1>6. CASE UNCHANGED tlsVars
  BY <1>6 DEF tlsVars, TlsInv, TlsInBounds, RecordSize
<1>7. QED
  BY <1>1, <1>2, <1>3, <1>4, <1>5, <1>6 DEF TlsNext

\* parse_sni reads no byte outside the payload and writes none outside the
\* buffer of the name, for every payload: the index may wrap around anywhere.
THEOREM TlsSafety == TlsSpec => []TlsInBounds
<1>1. TlsInv => TlsInBounds
  BY DEF TlsInv
<1>2. QED
  BY <1>1, TlsStarts, TlsKeeps, PTL DEF TlsSpec

(***************************************************************************)
(* parse_dns_response and get_qname.                                       *)
(***************************************************************************)
ParseFields == {"pc", "to", "off", "a", "question", "reported"}

QnameType ==
  [off : Nat, ptr : Nat, len : Nat, text : Seq(Nat), count : Nat, jumped : BOOLEAN]

\* In the loop of get_qname the byte read last lies within the message.
DnsInv ==
  /\ response \in Response
  /\ DOMAIN parse = ParseFields /\ parse.off \in Int /\ parse.to \in {"question", "answer"}
  /\ qname \in QnameType
  /\ touched \in [read : Int, written : Int]
  /\ parse.pc = "name" => qname.ptr < Size
  /\ DnsInBounds

\* The parts of the message and of the locals.
LEMMA MessageFacts ==
  ASSUME DnsInv
  PROVE  /\ response.data \in Seq(Byte) /\ Size \in Nat /\ QnameMax \in Nat
         /\ touched.read \in Int /\ touched.read < Size
         /\ touched.written \in Int /\ touched.written <= QnameMax
         /\ qname.off \in Nat /\ qname.ptr \in Nat /\ qname.len \in Nat
         /\ qname.text \in Seq(Nat) /\ Len(qname.text) \in Nat /\ qname.count \in Nat
         /\ parse.off \in Int
<1>1. response.data \in Seq(Byte)
  BY DEF DnsInv, Response
<1>2. Size \in Nat
  BY <1>1 DEF Size
<1>3. /\ qname.off \in Nat /\ qname.ptr \in Nat /\ qname.len \in Nat /\ qname.text \in Seq(Nat)
      /\ qname.count \in Nat
  BY DEF DnsInv, QnameType
<1>4. Len(qname.text) \in Nat
  BY <1>3
<1>5. touched.read \in Int /\ touched.written \in Int /\ parse.off \in Int
  BY DEF DnsInv
<1>6. touched.read < Size /\ touched.written <= QnameMax
  BY DEF DnsInv, DnsInBounds
<1>7. QnameMax \in Nat
  BY DnsAssumption
<1>8. QED
  BY <1>1, <1>2, <1>3, <1>4, <1>5, <1>6, <1>7

\* Reading at n.
LEMMA ReadFacts ==
  ASSUME DnsInv, NEW n \in Int, n < Size, Read(n), UNCHANGED response
  PROVE  /\ touched' \in [read : Int, written : Int] /\ Size' = Size /\ DnsInBounds'
<1> DEFINE r == Larger(touched.read, n)
<1>1. touched' = [touched EXCEPT !.read = r] /\ touched \in [read : Int, written : Int]
  BY DEF DnsInv, Read
<1>2. r \in Int /\ r < Size
  <2>1. touched.read \in Int /\ touched.read < Size
    BY MessageFacts
  <2>2. QED
    BY <2>1 DEF Larger
<1> HIDE DEF r
<1>3. /\ touched' \in [read : Int, written : Int] /\ touched'.read = r
      /\ touched'.written = touched.written
  BY <1>1, <1>2
<1>4. Size' = Size
  BY DEF Size
<1>5. QED
  BY <1>2, <1>3, <1>4, MessageFacts DEF DnsInBounds

\* The message's bytes.
LEMMA DataFacts ==
  ASSUME DnsInv, NEW i \in Int
  PROVE  Data(i) \in Nat
<1>1. response.data \in Seq(Byte)
  BY MessageFacts
<1>2. QED
  BY <1>1, ByteFacts DEF Data

\* get_qname is called: its first byte is read if the message has it.
LEMMA CallKeeps ==
  ASSUME DnsInv, UNCHANGED response, NEW p, DOMAIN p = ParseFields, p.off \in Int,
         NEW off \in Nat, NEW to \in {"question", "answer"},
         NEW before \in Int, before < Size, Call(p, off, to, before)
  PROVE  DnsInv'
<1>1. CASE off < Size
  <2> DEFINE no == FALSE
             z == 0
             l == Data(off)
             n == Larger(before, off)
             t == <<>>
  <2>1. /\ qname' = [off |-> off, ptr |-> off, len |-> l, text |-> t, count |-> z, jumped |-> no]
        /\ parse' = [p EXCEPT !.pc = "name", !.to = to] /\ Read(n)
    BY <1>1 DEF Call
  <2>2. l \in Nat
    BY DataFacts
  <2>3. n \in Int /\ n < Size
    BY <1>1 DEF Larger
  <2>4. no \in BOOLEAN /\ z \in Nat /\ t \in Seq(Nat)
    OBVIOUS
  <2> HIDE DEF no, z, l, n, t
  <2>5. qname' \in QnameType /\ qname'.ptr = off
    BY <2>1, <2>2, <2>4 DEF QnameType
  <2>6. DOMAIN parse' = ParseFields /\ parse'.off = p.off /\ parse'.to = to
    BY <2>1 DEF ParseFields
  <2>7. touched' \in [read : Int, written : Int] /\ Size' = Size /\ DnsInBounds'
    BY <2>1, <2>3, ReadFacts
  <2>8. QED
    BY <1>1, <2>5, <2>6, <2>7 DEF DnsInv
<1>2. CASE ~(off < Size)
  <2> DEFINE t == <<>>
  <2>1. /\ qname' = [qname EXCEPT !.off = off, !.text = t]
        /\ parse' = [p EXCEPT !.pc = to, !.to = to, !.off = Fail] /\ Read(before)
    BY <1>2 DEF Call
  <2>2. t \in Seq(Nat) /\ Fail \in Int
    BY DEF Fail
  <2>3. qname \in QnameType
    BY DEF DnsInv
  <2> HIDE DEF t
  <2>4. qname' \in QnameType
    BY <2>1, <2>2, <2>3 DEF QnameType
  <2>5. DOMAIN parse' = ParseFields /\ parse'.off = Fail /\ parse'.to = to /\ parse'.pc = to
    BY <2>1 DEF ParseFields
  <2>6. touched' \in [read : Int, written : Int] /\ Size' = Size /\ DnsInBounds'
    BY <2>1, ReadFacts
  <2>7. QED
    BY <2>2, <2>4, <2>5, <2>6 DEF DnsInv
<1>3. QED
  BY <1>1, <1>2

\* get_qname returns.
LEMMA ReturnKeeps ==
  ASSUME DnsInv, UNCHANGED response, NEW n \in Int, Return(n)
  PROVE  DnsInv'
<1>1. parse' = [parse EXCEPT !.pc = parse.to, !.off = n] /\ qname' = qname /\ touched' = touched
  BY DEF Return
<1>2. DOMAIN parse = ParseFields /\ parse.to \in {"question", "answer"}
  BY DEF DnsInv
<1>3. DOMAIN parse' = ParseFields /\ parse'.off = n /\ parse'.to = parse.to /\ parse'.pc = parse.to
  BY <1>1, <1>2 DEF ParseFields
<1>4. DnsInBounds'
  BY <1>1 DEF DnsInv, DnsInBounds, Size
<1>5. QED
  BY <1>1, <1>2, <1>3, <1>4 DEF DnsInv

\* The parser ends.
LEMMA DoneKeeps ==
  ASSUME DnsInv, UNCHANGED response, Done
  PROVE  DnsInv'
<1>1. parse' = [parse EXCEPT !.pc = "done"] /\ qname' = qname /\ touched' = touched
  BY DEF Done
<1>2. DOMAIN parse = ParseFields
  BY DEF DnsInv
<1>3. DOMAIN parse' = ParseFields /\ parse'.off = parse.off /\ parse'.to = parse.to /\ parse'.pc = "done"
  BY <1>1, <1>2 DEF ParseFields
<1>4. DnsInBounds'
  BY <1>1 DEF DnsInv, DnsInBounds, Size
<1>5. QED
  BY <1>1, <1>3, <1>4 DEF DnsInv

\* A pointer is followed only if both its bytes and its target are there.
LEMMA PointerKeeps ==
  ASSUME DnsInv, FollowPointer
  PROVE  DnsInv'
<1> DEFINE x == Target
           l == Data(x)
           c == qname.count + 1
           yes == TRUE
           b == qname.ptr + 1
           n == Larger(b, x)
<1>1. /\ b < Size /\ x < Size /\ Read(n) /\ response' = response /\ parse' = parse
      /\ qname' = [qname EXCEPT !.ptr = x, !.len = l, !.jumped = yes, !.count = c]
  BY DEF FollowPointer, Pointer
<1>2. /\ qname.ptr \in Nat /\ qname.len \in Nat /\ qname.count \in Nat
  BY MessageFacts
<1>3. b \in Int /\ c \in Nat /\ yes \in BOOLEAN
  BY <1>2
<1>4. x \in Nat
  <2>1. Flag \in Nat /\ Flag > 0 /\ Radix \in Nat
    BY DnsAssumption, RadixAssumption DEF Byte
  <2> DEFINE m == qname.len % Flag
             d == Data(b)
  <2>2. m \in Nat
    BY <1>2, <2>1
  <2> HIDE DEF b
  <2>3. d \in Nat
    BY <1>3, DataFacts
  <2>4. x = m * Radix + d
    BY DEF Target, b
  <2> HIDE DEF m, d, x
  <2>5. m * Radix \in Nat
    BY <2>1, <2>2
  <2>6. QED
    BY <2>3, <2>4, <2>5
<1> HIDE DEF x, b
<1>5. l \in Nat
  <2>1. x \in Int
    BY <1>4
  <2>2. QED
    BY <2>1, DataFacts
<1>6. n \in Int /\ n < Size
  BY <1>1, <1>3, <1>4 DEF Larger
<1> HIDE DEF l, c, yes, n
<1>7. qname \in QnameType
  BY DEF DnsInv
<1>8. qname' \in QnameType /\ qname'.ptr = x
  BY <1>1, <1>3, <1>4, <1>5, <1>7 DEF QnameType
<1>9. touched' \in [read : Int, written : Int] /\ Size' = Size /\ DnsInBounds'
  BY <1>1, <1>6, ReadFacts
<1>10. QED
  BY <1>1, <1>8, <1>9 DEF DnsInv

\* A label is copied only if it and the byte behind it are there and the buffer
\* has room for it.
LEMMA LabelKeeps ==
  ASSUME DnsInv, CopyLabel
  PROVE  DnsInv'
<1> DEFINE n == qname.ptr + 1 + qname.len
           l == Data(n)
           c == qname.count + 1
           b == qname.ptr + 1
           s == Copy(response.data, b, qname.len)
           t == Appended(s)
           r == Larger(touched.read, n)
           k == Len(qname.text) + qname.len
           w == Larger(touched.written, k)
<1>1. /\ n < Size /\ k <= QnameMax /\ response' = response /\ parse' = parse
      /\ qname' = [qname EXCEPT !.text = t, !.ptr = n, !.len = l, !.count = c]
      /\ touched' = [read |-> r, written |-> w]
  BY DEF CopyLabel, LabelFits
<1>2. /\ qname.ptr \in Nat /\ qname.len \in Nat /\ qname.count \in Nat /\ qname.text \in Seq(Nat)
      /\ Len(qname.text) \in Nat /\ response.data \in Seq(Byte)
      /\ touched.read \in Int /\ touched.read < Size
      /\ touched.written \in Int /\ touched.written <= QnameMax /\ Size \in Nat /\ QnameMax \in Nat
  BY MessageFacts
<1>3. n \in Nat /\ n \in Int /\ c \in Nat /\ b \in Int /\ k \in Nat
  <2> HIDE DEF l, s, t, r, w
  <2>1. qname.ptr \in Nat /\ qname.len \in Nat /\ qname.count \in Nat /\ Len(qname.text) \in Nat
    BY <1>2
  <2>2. n \in Nat /\ b \in Nat
    BY <2>1
  <2>3. c \in Nat
    BY <2>1
  <2>4. k \in Nat
    BY <2>1
  <2>5. QED
    BY <2>2, <2>3, <2>4
<1> HIDE DEF n, b, k, c
<1>4. l \in Nat
  BY <1>3, DataFacts
<1>5. s \in Seq(Nat)
  BY <1>2, <1>3, CopyFacts
<1> HIDE DEF s
<1>6. t \in Seq(Nat)
  <2>1. Dot \in Nat
    BY RadixAssumption DEF Dot
  <2>2. <<Dot>> \in Seq(Nat)
    BY <2>1
  <2>3. qname.text \o s \o <<Dot>> \in Seq(Nat)
    BY <1>2, <1>5, <2>2
  <2>4. QED
    BY <2>3 DEF Appended
<1>7. r \in Int /\ r < Size
  BY <1>1, <1>2, <1>3 DEF Larger
<1>8. w \in Int /\ w <= QnameMax
  BY <1>1, <1>2, <1>3 DEF Larger
<1> HIDE DEF l, t, r, w
<1>9. qname \in QnameType
  BY DEF DnsInv
<1>10. qname' \in QnameType /\ qname'.ptr = n
  BY <1>1, <1>3, <1>4, <1>6, <1>9 DEF QnameType
<1>11. touched' \in [read : Int, written : Int] /\ touched'.read = r /\ touched'.written = w
  BY <1>1, <1>7, <1>8
<1>12. Size' = Size
  BY <1>1 DEF Size
<1>13. DnsInBounds'
  BY <1>7, <1>8, <1>11, <1>12 DEF DnsInBounds
<1>14. QED
  BY <1>1, <1>10, <1>11, <1>12, <1>13 DEF DnsInv

\* The end of a name.
LEMMA NameEnds ==
  ASSUME DnsInv, RefuseName \/ EndName
  PROVE  DnsInv'
<1>1. Fail \in Int
  BY DEF Fail
<1>2. AfterName \in Int
  <2>1. qname.off \in Nat /\ qname.ptr \in Nat
    BY MessageFacts
  <2>2. QED
    BY <2>1 DEF AfterName
<1>3. CASE RefuseName
  BY <1>1, <1>3, ReturnKeeps DEF RefuseName
<1>4. CASE EndName
  BY <1>1, <1>2, <1>4, ReturnKeeps DEF EndName
<1>5. QED
  BY <1>3, <1>4

\* The header and the question.
LEMMA QuestionKeeps ==
  ASSUME DnsInv, CheckHeader \/ ReadQuestion
  PROVE  DnsInv'
<1>1. DOMAIN parse = ParseFields /\ parse.off \in Int /\ Size \in Nat
  BY MessageFacts DEF DnsInv
<1>2. HeaderLen \in Nat /\ HeaderLen > 0 /\ QFixed \in Nat /\ QFixed > 0
  BY DnsAssumption
<1>3. CASE CheckHeader
  <2>1. CASE IsAnswer
    <3> DEFINE n == HeaderLen - 1
    <3>1. n \in Int /\ n < Size
      BY <1>1, <1>2, <2>1 DEF IsAnswer
    <3>2. Call(parse, HeaderLen, "question", n) /\ response' = response
      BY <1>3, <2>1 DEF CheckHeader
    <3> HIDE DEF n
    <3>3. QED
      BY <1>1, <1>2, <3>1, <3>2, CallKeeps
  <2>2. CASE ~IsAnswer
    BY <1>3, <2>2, DoneKeeps DEF CheckHeader
  <2>3. QED
    BY <2>1, <2>2
<1>4. CASE ReadQuestion
  <2>1. CASE parse.off > 0 /\ parse.off + QFixed <= Size
    <3> DEFINE o == parse.off + QFixed
               n == parse.off + QFixed - 1
               p == [parse EXCEPT !.question = NameRead]
    <3>1. n \in Int /\ n < Size /\ o \in Nat
      BY <1>1, <1>2, <2>1
    <3>2. Call(p, o, "answer", n) /\ response' = response
      BY <1>4, <2>1 DEF ReadQuestion
    <3>3. DOMAIN p = ParseFields /\ p.off \in Int
      BY <1>1 DEF ParseFields
    <3> HIDE DEF n, o, p
    <3>4. QED
      BY <3>1, <3>2, <3>3, CallKeeps
  <2>2. CASE ~(parse.off > 0 /\ parse.off + QFixed <= Size)
    BY <1>4, <2>2, DoneKeeps DEF ReadQuestion
  <2>3. QED
    BY <2>1, <2>2
<1>5. QED
  BY <1>3, <1>4

\* An answer is read only if its fixed part, its data and the address its type
\* announces are there.
LEMMA AnswerKeeps ==
  ASSUME DnsInv, ReadAnswer
  PROVE  DnsInv'
<1> DEFINE k == Data(parse.off)
           l == AddrLen(k)
           p == [parse EXCEPT !.a = @ + 1, !.reported = @ \o Reported(parse.off)]
           n == parse.off + RRFixed + l - 1
           o == AfterRecord(parse.off)
<1>1. DOMAIN parse = ParseFields /\ parse.off \in Int /\ Size \in Nat
  BY MessageFacts DEF DnsInv
<1>2. RRFixed \in Nat /\ RRFixed > 0 /\ ALen \in Nat /\ AAAALen \in Nat
  BY DnsAssumption
<1>3. l \in Nat
  BY <1>2 DEF AddrLen, A, AAAA
<1> HIDE DEF l
<1>4. /\ parse.off > 0 /\ parse.off + RRFixed + l <= Size /\ response' = response
      /\ \/ Call(p, o, "answer", n)
         \/ parse' = [p EXCEPT !.pc = "done"] /\ Read(n) /\ UNCHANGED qname
  BY DEF ReadAnswer, l
<1>5. n \in Int /\ n < Size
  BY <1>1, <1>2, <1>3, <1>4
<1>6. o \in Nat
  <2> DEFINE i == parse.off + RRFixed - 1
             d == Data(i)
  <2>1. i \in Int
    BY <1>1, <1>2
  <2> HIDE DEF i
  <2>2. d \in Nat
    BY <2>1, DataFacts
  <2>3. o = parse.off + RRFixed + d
    BY DEF AfterRecord, i
  <2> HIDE DEF d, o
  <2>4. QED
    BY <1>1, <1>2, <1>4, <2>2, <2>3
<1>7. DOMAIN p = ParseFields /\ p.off = parse.off /\ p.to = parse.to
  BY <1>1 DEF ParseFields
<1> HIDE DEF p, n, o
<1>8. CASE Call(p, o, "answer", n)
  BY <1>1, <1>4, <1>5, <1>6, <1>7, <1>8, CallKeeps
<1>9. CASE parse' = [p EXCEPT !.pc = "done"] /\ Read(n) /\ UNCHANGED qname
  <2>1. /\ DOMAIN parse' = ParseFields /\ parse'.off = parse.off /\ parse'.to = parse.to
        /\ parse'.pc = "done"
    BY <1>7, <1>9 DEF ParseFields
  <2>2. touched' \in [read : Int, written : Int] /\ Size' = Size /\ DnsInBounds'
    BY <1>4, <1>5, <1>9, ReadFacts
  <2>3. QED
    BY <1>1, <1>4, <1>9, <2>1, <2>2 DEF DnsInv
<1>10. QED
  BY <1>4, <1>8, <1>9

\* DnsInv is inductive.
LEMMA DnsStarts == DnsInit => DnsInv
<1> SUFFICES ASSUME DnsInit PROVE DnsInv
  OBVIOUS
<1>1. response \in Response /\ QnameMax \in Nat
  BY DnsAssumption DEF DnsInit
<1>2. Size \in Nat
  BY <1>1 DEF Size, Response
<1>3. /\ DOMAIN parse = ParseFields /\ parse.off \in Int /\ parse.to = "question"
      /\ parse.pc = "header"
  BY DEF DnsInit, NoParse, ParseFields, Fail
<1>4. qname \in QnameType
  BY DEF DnsInit, NoName, QnameType
<1>5. touched \in [read : Int, written : Int] /\ touched.read = -1 /\ touched.written = -1
  BY DEF DnsInit, Untouched
<1>6. DnsInBounds
  BY <1>1, <1>2, <1>5 DEF DnsInBounds
<1>7. QED
  BY <1>1, <1>3, <1>4, <1>5, <1>6 DEF DnsInv

\* Every step keeps it.
LEMMA DnsKeeps == DnsInv /\ [DnsNext]_dnsVars => DnsInv'
<1> SUFFICES ASSUME DnsInv, [DnsNext]_dnsVars PROVE DnsInv'
  OBVIOUS
<1>1. CASE CheckHeader \/ ReadQuestion
  BY <1>1, QuestionKeeps
<1>2. CASE ReadAnswer
  BY <1>2, AnswerKeeps
<1>3. CASE RefuseAnswer
  BY <1>3, DoneKeeps DEF RefuseAnswer
<1>4. CASE FollowPointer
  BY <1>4, PointerKeeps
<1>5. CASE CopyLabel
  BY <1>5, LabelKeeps
<1>6. CASE RefuseName \/ EndName
  BY <1>6, NameEnds
<1>7. CASE UNCHANGED dnsVars
  BY <1>7 DEF dnsVars, DnsInv, DnsInBounds, Size
<1>8. QED
  BY <1>1, <1>2, <1>3, <1>4, <1>5, <1>6, <1>7 DEF DnsNext

\* The parser of DNS answers reads no byte outside the message and writes none
\* outside the buffer of a name, for every message: whatever its lengths,
\* pointers and counts say, and wherever it is cut.
THEOREM DnsSafety == DnsSpec => []DnsInBounds
<1>1. DnsInv => DnsInBounds
  BY DEF DnsInv
<1>2. QED
  BY <1>1, DnsStarts, DnsKeeps, PTL DEF DnsSpec

(***************************************************************************)
(* What a name is: the recursive definition, step by step.                 *)
(***************************************************************************)
NameType == [ok : BOOLEAN, text : Seq(Nat), parts : Nat, after : Nat, pointer : BOOLEAN]

\* The offset behind the part of a name at i, and of the part that follows it.
PartEnd(data, i) == i + (IF At(data, i) < Flag THEN At(data, i) ELSE 1)
NextPart(data, i) ==
  IF At(data, i) < Flag THEN PartEnd(data, i) + 1
  ELSE (At(data, i) % Flag) * Radix + At(data, i + 1)

\* Bytes and offsets are natural numbers.
LEMMA PartFacts ==
  ASSUME NEW data \in Seq(Byte), NEW i \in Nat
  PROVE  /\ At(data, i) \in Nat /\ At(data, i + 1) \in Nat
         /\ PartEnd(data, i) \in Nat /\ NextPart(data, i) \in Nat
         /\ Copy(data, i + 1, At(data, i)) \o <<Dot>> \in Seq(Nat)
         /\ Len(Copy(data, i + 1, At(data, i)) \o <<Dot>>) = At(data, i) + 1
         /\ i >= Len(data) => At(data, i) = 0
<1> DEFINE b == At(data, i)
           d == At(data, i + 1)
           s == Copy(data, i + 1, b)
<1>1. b \in Nat /\ d \in Nat
  <2>1. i \in Int /\ i + 1 \in Int
    OBVIOUS
  <2>2. QED
    BY <2>1, ByteFacts
<1>2. i >= Len(data) => b = 0
  BY DEF At
<1>3. Flag \in Nat /\ Flag > 0 /\ Radix \in Nat
  BY DnsAssumption, RadixAssumption DEF Byte
<1> HIDE DEF b, d
<1>4. PartEnd(data, i) \in Nat
  BY <1>1 DEF PartEnd, b
<1>5. NextPart(data, i) \in Nat
  <2>1. b % Flag \in Nat
    BY <1>1, <1>3
  <2>2. ASSUME NEW q \in Nat PROVE q * Radix + d \in Nat
    BY <1>1, <1>3
  <2>3. (b % Flag) * Radix + d \in Nat
    BY <2>1, <2>2
  <2>4. QED
    BY <1>4, <2>3 DEF NextPart, b, d
<1>6. s \in Seq(Nat) /\ Len(s) = b
  BY <1>1, CopyFacts
<1> HIDE DEF s
<1>7. Dot \in Nat
  BY <1>3 DEF Dot
<1>8. s \o <<Dot>> \in Seq(Nat) /\ Len(s \o <<Dot>>) = b + 1
  BY <1>1, <1>6, <1>7
<1>9. QED
  BY <1>1, <1>2, <1>4, <1>5, <1>8 DEF b, d, s

\* The name at an offset, from those at all others.
LEMMA NameAtFacts ==
  ASSUME NEW data \in Seq(Byte), NEW i \in Nat, NEW rest \in [Nat -> NameType]
  PROVE  LET m == NameAt(data, i, rest)
             r == rest[NextPart(data, i)]
         IN  /\ m \in NameType
             /\ IF PartEnd(data, i) >= Len(data) THEN m = Bad
                ELSE IF At(data, i) = 0
                THEN m.ok = TRUE /\ m.text = <<>> /\ m.parts = 0 /\ m.after = i + 1 /\ m.pointer = FALSE
                ELSE /\ m.ok = r.ok /\ m.parts = r.parts + 1
                     /\ IF At(data, i) < Flag
                        THEN /\ m.text = Copy(data, i + 1, At(data, i)) \o <<Dot>> \o r.text
                             /\ m.after = r.after /\ m.pointer = r.pointer
                        ELSE m.text = r.text /\ m.after = i + 2 /\ m.pointer = TRUE
<1> DEFINE b == At(data, i)
           s == Copy(data, i + 1, b) \o <<Dot>>
           r == rest[NextPart(data, i)]
           m == NameAt(data, i, rest)
<1>1. b \in Nat /\ NextPart(data, i) \in Nat /\ s \in Seq(Nat) /\ PartEnd(data, i) \in Nat
  BY PartFacts
<1>2. r \in NameType
  BY <1>1
<1>3. Bad \in NameType
  BY DEF Bad, NameType
<1>4. m = IF PartEnd(data, i) >= Len(data) THEN Bad
          ELSE IF b = 0 THEN [Bad EXCEPT !.ok = TRUE, !.after = i + 1]
          ELSE IF b < Flag THEN [r EXCEPT !.text = s \o @, !.parts = @ + 1]
          ELSE [r EXCEPT !.after = i + 2, !.pointer = TRUE, !.parts = @ + 1]
  BY DEF NameAt, PartEnd, NextPart
<1> HIDE DEF b, s, r, m
<1>5. s \o r.text \in Seq(Nat)
  BY <1>1, <1>2 DEF NameType
<1>6. r.parts \in Nat
  BY <1>2 DEF NameType
<1>7. CASE PartEnd(data, i) >= Len(data)
  BY <1>3, <1>4, <1>7 DEF b, s, r, m
<1>8. CASE ~(PartEnd(data, i) >= Len(data)) /\ b = 0
  <2>1. m = [Bad EXCEPT !.ok = TRUE, !.after = i + 1]
    BY <1>4, <1>8
  <2>2. m \in NameType
    <3>1. m = [ok |-> TRUE, text |-> <<>>, parts |-> 0, after |-> i + 1, pointer |-> FALSE]
      BY <2>1 DEF Bad
    <3>2. QED
      BY <3>1 DEF NameType
  <2>4. m.ok = TRUE /\ m.text = <<>> /\ m.parts = 0 /\ m.after = i + 1 /\ m.pointer = FALSE
    BY <2>1 DEF Bad
  <2>3. QED
    BY <1>8, <2>2, <2>4 DEF b, s, r, m
<1>9. CASE ~(PartEnd(data, i) >= Len(data)) /\ b # 0 /\ b < Flag
  <2>1. m = [r EXCEPT !.text = s \o @, !.parts = @ + 1]
    BY <1>4, <1>9
  <2>2. /\ m \in NameType /\ m.ok = r.ok /\ m.parts = r.parts + 1
        /\ m.text = s \o r.text /\ m.after = r.after /\ m.pointer = r.pointer
    <3> DEFINE t == s \o r.text
               q == r.parts + 1
    <3>0. m = [r EXCEPT !.text = t, !.parts = q]
      BY <2>1
    <3>1. t \in Seq(Nat) /\ q \in Nat
      BY <1>2, <1>5, <1>6
    <3> HIDE DEF t, q
    <3>2. m \in NameType
      BY <1>2, <3>0, <3>1 DEF NameType
    <3>3. m.ok = r.ok /\ m.parts = q /\ m.text = t /\ m.after = r.after /\ m.pointer = r.pointer
      BY <1>2, <3>0, <3>1 DEF NameType
    <3>4. QED
      BY <3>2, <3>3 DEF t, q
  <2>3. QED
    BY <1>9, <2>2 DEF b, s, r, m
<1>10. CASE ~(PartEnd(data, i) >= Len(data)) /\ b # 0 /\ ~(b < Flag)
  <2>1. m = [r EXCEPT !.after = i + 2, !.pointer = TRUE, !.parts = @ + 1]
    BY <1>4, <1>10
  <2>2. /\ m \in NameType /\ m.ok = r.ok /\ m.parts = r.parts + 1
        /\ m.text = r.text /\ m.after = i + 2 /\ m.pointer = TRUE
    <3> DEFINE y == TRUE
               q == r.parts + 1
    <3>0. m = [r EXCEPT !.after = i + 2, !.pointer = y, !.parts = q]
      BY <2>1
    <3>1. y \in BOOLEAN /\ q \in Nat /\ i + 2 \in Nat
      BY <1>6
    <3> HIDE DEF y, q
    <3>2. m \in NameType
      BY <1>2, <3>0, <3>1 DEF NameType
    <3>3. m.ok = r.ok /\ m.parts = q /\ m.text = r.text /\ m.after = i + 2 /\ m.pointer = y
      BY <1>2, <3>0, <3>1 DEF NameType
    <3>4. QED
      BY <3>2, <3>3 DEF y, q
  <2>3. QED
    BY <1>10, <2>2 DEF b, s, r, m
<1>11. QED
  BY <1>7, <1>8, <1>9, <1>10

\* The recursive definition has a value: it is the one its equation names.
LEMMA NamesFacts ==
  ASSUME NEW data \in Seq(Byte)
  PROVE  LET N == Names(data)
         IN  /\ N \in [Nat -> [Nat -> NameType]]
             /\ N[0] = [i \in Nat |-> Bad]
             /\ \A n \in Nat : N[n + 1] = [i \in Nat |-> NameAt(data, i, N[n])]
<1> DEFINE V == [Nat -> NameType]
           v == [i \in Nat |-> Bad]
           F == [rest \in V |-> [i \in Nat |-> NameAt(data, i, rest)]]
           Def(g) == [n \in Nat |-> IF n = 0 THEN v
                                    ELSE [i \in Nat |-> NameAt(data, i, g[n - 1])]]
<1>1. v \in V
  BY DEF Bad, NameType
<1>2. F \in [V -> V]
  BY NameAtFacts
<1>3. PICK f \in [Nat -> V] : f[0] = v /\ \A n \in Nat : f[n + 1] = F[f[n]]
  <2> HIDE DEF V, v, F
  <2>1. Iterates(V, v, F) # {}
    BY <1>1, <1>2, Iteration
  <2>2. QED
    BY <2>1 DEF Iterates
<1>4. f = Def(f)
  <2>1. ASSUME NEW n \in Nat, n # 0
        PROVE  f[n] = [i \in Nat |-> NameAt(data, i, f[n - 1])]
    <3>1. n - 1 \in Nat /\ (n - 1) + 1 = n
      BY <2>1
    <3>2. f[n - 1] \in V /\ f[n] = F[f[n - 1]]
      BY <1>3, <3>1
    <3>3. QED
      BY <3>2
  <2>2. QED
    BY <1>3, <2>1
<1>5. Names(data) = CHOOSE g : g = Def(g)
  BY DEF Names
<1>6. Names(data) = Def(Names(data))
  <2> HIDE DEF Def
  <2>1. QED
    BY <1>4, <1>5
<1> DEFINE N == Names(data)
<1>7. N[0] = v
  BY <1>6
<1>8. ASSUME NEW n \in Nat PROVE N[n + 1] = [i \in Nat |-> NameAt(data, i, N[n])]
  <2>1. n + 1 \in Nat /\ n + 1 # 0 /\ (n + 1) - 1 = n
    OBVIOUS
  <2>2. QED
    BY <1>6, <2>1
<1>9. N = [n \in Nat |-> N[n]]
  <2> HIDE DEF N
  <2>1. N = Def(N)
    BY <1>6 DEF N
  <2>2. QED
    BY <2>1
<1> HIDE DEF N
<1>10. \A n \in Nat : N[n] \in V
  <2> DEFINE S == {n \in Nat : N[n] \in V}
  <2>1. 0 \in S
    BY <1>1, <1>7
  <2>2. ASSUME NEW n \in Nat, n \in S PROVE n + 1 \in S
    <3>1. N[n] \in V
      BY <2>2
    <3>2. F[N[n]] \in V /\ F[N[n]] = [i \in Nat |-> NameAt(data, i, N[n])]
      BY <1>2, <3>1
    <3>3. QED
      <4>1. N[n + 1] = [i \in Nat |-> NameAt(data, i, N[n])]
        BY <1>8
      <4> HIDE DEF V, F
      <4>2. N[n + 1] \in V
        BY <3>2, <4>1
      <4>3. QED
        BY <4>2
  <2> HIDE DEF S
  <2>3. \A n \in Nat : n \in S
    BY <2>1, <2>2, SetInduction
  <2>4. QED
    BY <2>3 DEF S
<1>11. N \in [Nat -> V]
  BY <1>9, <1>10
<1>12. QED
  BY <1>7, <1>8, <1>11 DEF N

\* A name is decoded from its first part and from the name behind it.
LEMMA NameStep ==
  ASSUME NEW data \in Seq(Byte), NEW n \in Nat, NEW i \in Nat
  PROVE  LET m == Names(data)[n + 1][i]
             r == Names(data)[n][NextPart(data, i)]
         IN  /\ m \in NameType /\ r \in NameType
             /\ IF PartEnd(data, i) >= Len(data) THEN m = Bad
                ELSE IF At(data, i) = 0
                THEN m.ok = TRUE /\ m.text = <<>> /\ m.parts = 0 /\ m.after = i + 1 /\ m.pointer = FALSE
                ELSE /\ m.ok = r.ok /\ m.parts = r.parts + 1
                     /\ IF At(data, i) < Flag
                        THEN /\ m.text = Copy(data, i + 1, At(data, i)) \o <<Dot>> \o r.text
                             /\ m.after = r.after /\ m.pointer = r.pointer
                        ELSE m.text = r.text /\ m.after = i + 2 /\ m.pointer = TRUE
<1> DEFINE N == Names(data)
           rest == N[n]
<1>1. rest \in [Nat -> NameType] /\ N[n + 1] = [j \in Nat |-> NameAt(data, j, rest)]
  BY NamesFacts
<1>2. NextPart(data, i) \in Nat
  BY PartFacts
<1> HIDE DEF rest
<1>3. N[n + 1][i] = NameAt(data, i, rest) /\ rest[NextPart(data, i)] \in NameType
  BY <1>1, <1>2
<1> DEFINE a == NameAt(data, i, rest)
           r == rest[NextPart(data, i)]
<1>4. /\ a \in NameType
      /\ IF PartEnd(data, i) >= Len(data) THEN a = Bad
         ELSE IF At(data, i) = 0
         THEN a.ok = TRUE /\ a.text = <<>> /\ a.parts = 0 /\ a.after = i + 1 /\ a.pointer = FALSE
         ELSE /\ a.ok = r.ok /\ a.parts = r.parts + 1
              /\ IF At(data, i) < Flag
                 THEN /\ a.text = Copy(data, i + 1, At(data, i)) \o <<Dot>> \o r.text
                      /\ a.after = r.after /\ a.pointer = r.pointer
                 ELSE a.text = r.text /\ a.after = i + 2 /\ a.pointer = TRUE
  BY <1>1, NameAtFacts
<1>5. a = Names(data)[n + 1][i] /\ r = Names(data)[n][NextPart(data, i)] /\ r \in NameType
  BY <1>3 DEF rest
<1> HIDE DEF a, r
<1>6. QED
  BY <1>4, <1>5

\* A name with few parts has them also among the names with more.
LEMMA NamesGrow ==
  ASSUME NEW data \in Seq(Byte)
  PROVE  \A n \in Nat : \A i \in Nat :
           Names(data)[n][i].ok => Names(data)[n + 1][i] = Names(data)[n][i]
<1> DEFINE N == Names(data)
           S == {n \in Nat : \A i \in Nat : N[n][i].ok => N[n + 1][i] = N[n][i]}
<1>1. 0 \in S
  <2>1. ASSUME NEW i \in Nat PROVE ~N[0][i].ok
    BY NamesFacts DEF Bad
  <2> HIDE DEF N
  <2>2. QED
    BY <2>1
<1>2. ASSUME NEW n \in Nat, n \in S PROVE n + 1 \in S
  <2>1. ASSUME NEW i \in Nat, N[n + 1][i].ok
        PROVE  N[(n + 1) + 1][i] = N[n + 1][i]
    <3> DEFINE q == NextPart(data, i)
               m == n + 1
    <3>0. q \in Nat
      BY PartFacts
    <3>1. q \in Nat /\ m \in Nat
      BY <3>0
    <3>2. N[m][i] = NameAt(data, i, N[n]) /\ N[m + 1][i] = NameAt(data, i, N[m])
      <4>0. \A k \in Nat : N[k + 1] = [j \in Nat |-> NameAt(data, j, N[k])]
        BY NamesFacts
      <4>1. N[m] = [j \in Nat |-> NameAt(data, j, N[n])]
        BY <4>0
      <4> HIDE DEF N
      <4>2. N[m + 1] = [j \in Nat |-> NameAt(data, j, N[m])]
        <5> HIDE DEF m
        <5>1. QED
          BY <3>1, <4>0
      <4> HIDE DEF m, N
      <4>3. QED
        BY <4>1, <4>2
    <3>3. CASE PartEnd(data, i) >= Len(data) \/ At(data, i) = 0
      BY <3>2, <3>3 DEF NameAt, PartEnd
    <3>4. CASE ~(PartEnd(data, i) >= Len(data) \/ At(data, i) = 0)
      <4>1. N[m][i].ok = N[n][q].ok
        BY <3>4, NameStep
      <4>2. N[m][q] = N[n][q]
        BY <1>2, <2>1, <3>1, <4>1
      <4> DEFINE x == N[n]
                 y == N[m]
      <4>3. x[q] = y[q]
        BY <4>2
      <4> HIDE DEF x, y, m, N
      <4>4. NameAt(data, i, x) = NameAt(data, i, y)
        BY <4>3 DEF NameAt, NextPart, PartEnd
      <4>5. QED
        BY <3>2, <4>4 DEF x, y, m
    <3>5. QED
      BY <3>3, <3>4
  <2>2. QED
    BY <2>1
<1> HIDE DEF S
<1>3. \A n \in Nat : n \in S
  BY <1>1, <1>2, SetInduction
<1>4. QED
  BY <1>3 DEF S

\* Also when many more are allowed.
LEMMA NamesKeep ==
  ASSUME NEW data \in Seq(Byte)
  PROVE  \A k \in Nat : \A n \in Nat : \A i \in Nat :
           Names(data)[n][i].ok => Names(data)[n + k][i] = Names(data)[n][i]
<1> DEFINE N == Names(data)
           S == {k \in Nat : \A n \in Nat : \A i \in Nat : N[n][i].ok => N[n + k][i] = N[n][i]}
<1>0. \A n \in Nat : \A i \in Nat : N[n][i].ok => N[n + 1][i] = N[n][i]
  BY NamesGrow
<1> HIDE DEF N
<1>1. 0 \in S
  OBVIOUS
<1>2. ASSUME NEW k \in Nat, k \in S PROVE k + 1 \in S
  <2>1. ASSUME NEW n \in Nat, NEW i \in Nat, N[n][i].ok PROVE N[n + (k + 1)][i] = N[n][i]
    <3> DEFINE l == n + k
    <3>1. l \in Nat /\ n + (k + 1) = l + 1
      OBVIOUS
    <3>2. N[l][i] = N[n][i]
      BY <1>2, <2>1
    <3> HIDE DEF l
    <3>3. N[l + 1][i] = N[l][i]
      BY <1>0, <2>1, <3>1, <3>2
    <3>4. QED
      BY <3>1, <3>2, <3>3
  <2>2. QED
    BY <2>1
<1> HIDE DEF S
<1>3. \A k \in Nat : k \in S
  BY <1>1, <1>2, SetInduction
<1>4. QED
  BY <1>3 DEF S, N

\* The offsets of a message at which a name with fewer than n parts is.
NamedWithin(data, n) == {i \in 0..(Len(data) - 1) : Names(data)[n][i].ok}

\* They are finitely many; there is no name behind the message, and one part more
\* adds the offsets whose next part is at one of them.
LEMMA NamedFacts ==
  ASSUME NEW data \in Seq(Byte), NEW n \in Nat
  PROVE  /\ \A i \in Nat : Names(data)[n][i].ok <=> i \in NamedWithin(data, n)
         /\ IsFiniteSet(NamedWithin(data, n)) /\ Cardinality(NamedWithin(data, n)) \in Nat
         /\ Cardinality(NamedWithin(data, n)) <= Len(data)
         /\ NamedWithin(data, n) \subseteq NamedWithin(data, n + 1)
         /\ \A i \in Nat : i \in NamedWithin(data, n + 1) <=>
              /\ PartEnd(data, i) < Len(data)
              /\ At(data, i) = 0 \/ NextPart(data, i) \in NamedWithin(data, n)
<1> DEFINE E(k) == NamedWithin(data, k)
           L == Len(data)
           D == 0..(L - 1)
<1>0. L \in Nat
  OBVIOUS
<1>1. ASSUME NEW k \in Nat, NEW i \in Nat PROVE Names(data)[k][i].ok <=> i \in E(k)
  <2>1. CASE i < L
    <3>1. i \in 0..(L - 1)
      BY <1>0, <2>1
    <3>2. QED
      BY <3>1 DEF NamedWithin
  <2>2. CASE ~(i < L)
    <3>1. i \notin 0..(L - 1) /\ i >= L
      BY <1>0, <2>2
    <3>2. At(data, i) = 0
      BY <3>1, PartFacts
    <3>3. PartEnd(data, i) >= L
      <4>1. Flag \in Nat /\ Flag > 0
        BY DnsAssumption, RadixAssumption DEF Byte
      <4> HIDE DEF L
      <4>2. PartEnd(data, i) = i + 0
        BY <3>2, <4>1 DEF PartEnd
      <4>3. QED
        BY <1>0, <3>1, <4>2
    <3>4. ~Names(data)[k][i].ok
      <4>1. CASE k = 0
        BY <4>1, NamesFacts DEF Bad
      <4>2. CASE k # 0
        <5> DEFINE j == k - 1
        <5>1. j \in Nat /\ k = j + 1
          BY <4>2
        <5> HIDE DEF j
        <5>2. Names(data)[j + 1][i] = Bad
          BY <3>3, <5>1, NameStep
        <5>3. QED
          BY <5>1, <5>2 DEF Bad
      <4>3. QED
        BY <4>1, <4>2
    <3>5. QED
      BY <3>1, <3>4 DEF NamedWithin
  <2>3. QED
    BY <2>1, <2>2
<1>2. IsFiniteSet(E(n)) /\ Cardinality(E(n)) \in Nat /\ Cardinality(E(n)) <= L
  <2> HIDE DEF L
  <2>1. IsFiniteSet(D) /\ Cardinality(D) = L
    <3>1. IsFiniteSet(0..(L - 1)) /\ Cardinality(0..(L - 1)) = IF 0 > L - 1 THEN 0 ELSE (L - 1) - 0 + 1
      BY <1>0, FS_Interval
    <3>2. QED
      BY <1>0, <3>1
  <2>2. E(n) \in SUBSET D
    BY DEF NamedWithin, L
  <2> HIDE DEF E, D
  <2>3. IsFiniteSet(E(n)) /\ Cardinality(E(n)) <= L
    BY <2>1, <2>2, FS_Subset
  <2>4. QED
    BY <2>3, FS_CardinalityType
<1>3. E(n) \subseteq E(n + 1)
  <2>1. ASSUME NEW i \in E(n) PROVE i \in E(n + 1)
    <3>1. i \in Nat /\ Names(data)[n][i].ok
      BY DEF NamedWithin
    <3>2. Names(data)[n + 1][i].ok
      BY <3>1, NamesGrow
    <3>3. n + 1 \in Nat
      OBVIOUS
    <3> HIDE DEF E
    <3>4. QED
      BY <1>1, <3>1, <3>2, <3>3
  <2>2. QED
    BY <2>1
<1>4. ASSUME NEW i \in Nat
      PROVE  i \in E(n + 1) <=> /\ PartEnd(data, i) < L
                                /\ At(data, i) = 0 \/ NextPart(data, i) \in E(n)
  <2> DEFINE q == NextPart(data, i)
             p == PartEnd(data, i)
             m == Names(data)[n + 1][i]
  <2>1. q \in Nat /\ p \in Nat
    BY PartFacts
  <2>2. IF p >= L THEN ~m.ok
        ELSE IF At(data, i) = 0 THEN m.ok ELSE m.ok = Names(data)[n][q].ok
    <3>1. p >= L => m = Bad
      BY NameStep
    <3>2. p >= L => ~m.ok
      BY <3>1 DEF Bad
    <3>3. ~(p >= L) => IF At(data, i) = 0 THEN m.ok ELSE m.ok = Names(data)[n][q].ok
      BY NameStep
    <3>4. QED
      BY <3>2, <3>3
  <2>3. n + 1 \in Nat
    OBVIOUS
  <2>4. m.ok <=> i \in E(n + 1)
    BY <1>1, <2>3
  <2>5. Names(data)[n][q].ok <=> q \in E(n)
    BY <1>1, <2>1
  <2>6. p >= L <=> ~(p < L)
    BY <1>0, <2>1
  <2> HIDE DEF E, q, p, m, L
  <2>7. QED
    BY <2>2, <2>4, <2>5, <2>6 DEF p, q
<1>5. QED
  BY <1>1, <1>2, <1>3, <1>4

\* A name of a message has at most as many parts as the message has bytes: each
\* part more adds an offset, or no number of parts adds one.
LEMMA NamesEnd ==
  ASSUME NEW data \in Seq(Byte)
  PROVE  \A n \in Nat : NamedWithin(data, n) \subseteq NamedWithin(data, Len(data) + 1)
<1> DEFINE E(k) == NamedWithin(data, k)
           L == Len(data)
           S == {k \in Nat : Cardinality(E(k)) >= k \/ E(k + 1) = E(k)}
           T == {k \in Nat : E(L + k) = E(L) /\ E(L + (k + 1)) = E(L)}
           U == {k \in Nat : \A n \in Nat : E(n) \subseteq E(n + k)}
<1>0. L \in Nat
  OBVIOUS
<1>1. \A k \in Nat : IsFiniteSet(E(k)) /\ Cardinality(E(k)) \in Nat /\ Cardinality(E(k)) <= L
  BY NamedFacts
<1>2. \A k \in Nat : E(k) \subseteq E(k + 1)
  BY NamedFacts
<1>3. ASSUME NEW j \in Nat, NEW k \in Nat, E(j) = E(k) PROVE E(j + 1) = E(k + 1)
  <2>1. \A l \in Nat : \A i \in Nat : i \in E(l + 1) <=>
          /\ PartEnd(data, i) < L
          /\ At(data, i) = 0 \/ NextPart(data, i) \in E(l)
    BY NamedFacts
  <2>2. E(j + 1) \subseteq Nat /\ E(k + 1) \subseteq Nat
    BY DEF NamedWithin
  <2> HIDE DEF E, L
  <2>3. QED
    BY <1>3, <2>1, <2>2
<1> HIDE DEF E, L
<1>4. \A k \in Nat : k \in S
  <2>1. 0 \in S
    BY <1>1
  <2>2. ASSUME NEW k \in Nat, k \in S PROVE k + 1 \in S
    <3>1. CASE E(k + 1) = E(k)
      <4>1. k + 1 \in Nat
        OBVIOUS
      <4>2. E((k + 1) + 1) = E(k + 1)
        BY <1>3, <3>1, <4>1
      <4>3. QED
        BY <4>1, <4>2
    <3>2. CASE E(k + 1) # E(k)
      <4>1. Cardinality(E(k)) >= k
        BY <2>2, <3>2
      <4>2. k + 1 \in Nat
        OBVIOUS
      <4>3. E(k) \in SUBSET E(k + 1) /\ IsFiniteSet(E(k + 1))
        BY <1>1, <1>2, <4>2
      <4>4. Cardinality(E(k)) <= Cardinality(E(k + 1)) /\ Cardinality(E(k)) # Cardinality(E(k + 1))
        BY <3>2, <4>3, FS_Subset
      <4> DEFINE a == Cardinality(E(k))
                 b == Cardinality(E(k + 1))
      <4>5. a \in Nat /\ b \in Nat
        BY <1>1, <4>2
      <4> HIDE DEF a, b
      <4>6. b >= k + 1
        BY <4>1, <4>4, <4>5 DEF a, b
      <4>7. QED
        BY <4>2, <4>6 DEF b
    <3>3. QED
      BY <3>1, <3>2
  <2> HIDE DEF S
  <2>3. QED
    BY <2>1, <2>2, SetInduction
<1>5. E(L + 1) = E(L)
  <2>1. Cardinality(E(L)) >= L \/ E(L + 1) = E(L)
    BY <1>0, <1>4
  <2>2. CASE Cardinality(E(L)) >= L
    <3>1. L + 1 \in Nat
      BY <1>0
    <3>2. E(L) \in SUBSET E(L + 1) /\ IsFiniteSet(E(L + 1))
      BY <1>0, <1>1, <1>2, <3>1
    <3> DEFINE a == Cardinality(E(L))
               b == Cardinality(E(L + 1))
    <3>3. a \in Nat /\ b \in Nat /\ a <= L /\ b <= L
      BY <1>0, <1>1, <3>1
    <3>4. a <= b /\ (a = b => E(L) = E(L + 1))
      BY <3>2, FS_Subset
    <3> HIDE DEF a, b
    <3>5. a = b
      BY <1>0, <2>2, <3>3, <3>4 DEF a
    <3>6. QED
      BY <3>4, <3>5
  <2>3. QED
    BY <2>1, <2>2
<1>6. \A k \in Nat : k \in T
  <2>1. 0 \in T
    <3>1. L + 0 = L /\ L + (0 + 1) = L + 1
      BY <1>0
    <3>2. QED
      BY <1>5, <3>1
  <2>2. ASSUME NEW k \in Nat, k \in T PROVE k + 1 \in T
    <3> DEFINE j == L + k
    <3>1. j \in Nat /\ j + 1 \in Nat /\ L + (k + 1) = j + 1 /\ L + ((k + 1) + 1) = (j + 1) + 1
      BY <1>0
    <3>2. E(j + 1) = E(j) /\ E(j + 1) = E(L)
      BY <2>2, <3>1
    <3> HIDE DEF j
    <3>3. E((j + 1) + 1) = E(j + 1)
      BY <1>3, <3>1, <3>2
    <3>4. QED
      BY <3>1, <3>2, <3>3
  <2> HIDE DEF T
  <2>3. QED
    BY <2>1, <2>2, SetInduction
<1>7. \A k \in Nat : k \in U
  <2>1. 0 \in U
    OBVIOUS
  <2>2. ASSUME NEW k \in Nat, k \in U PROVE k + 1 \in U
    <3>1. ASSUME NEW n \in Nat PROVE E(n) \subseteq E(n + (k + 1))
      <4> DEFINE j == n + k
      <4>1. j \in Nat /\ n + (k + 1) = j + 1 /\ E(n) \subseteq E(j)
        BY <2>2
      <4> HIDE DEF j
      <4>2. E(j) \subseteq E(j + 1)
        BY <1>2, <4>1
      <4>3. QED
        BY <4>1, <4>2
    <3>2. QED
      BY <3>1
  <2> HIDE DEF U
  <2>3. QED
    BY <2>1, <2>2, SetInduction
<1>8. ASSUME NEW n \in Nat PROVE E(n) \subseteq E(L + 1)
  <2>1. CASE n <= L
    <3> DEFINE k == L - n
    <3>1. k \in Nat /\ n + k = L
      BY <1>0, <2>1
    <3> HIDE DEF k
    <3>2. E(n) \subseteq E(L)
      BY <1>7, <3>1
    <3>3. QED
      BY <1>5, <3>2
  <2>2. CASE ~(n <= L)
    <3> DEFINE k == n - L
    <3>1. k \in Nat /\ L + k = n
      BY <1>0, <2>2
    <3> HIDE DEF k
    <3>2. E(n) = E(L)
      BY <1>6, <3>1
    <3>3. QED
      BY <1>5, <3>2
  <2>3. QED
    BY <2>1, <2>2
<1>9. QED
  BY <1>8 DEF E, L

\* The name at an offset is the one with any number of parts.
LEMMA DecodedIs ==
  ASSUME NEW data \in Seq(Byte), NEW n \in Nat, NEW i \in Nat, Names(data)[n][i].ok
  PROVE  Decoded(data, i) = Names(data)[n][i]
<1> DEFINE N == Names(data)
           l == Len(data) + 1
<1>1. l \in Nat
  OBVIOUS
<1>2. i \in NamedWithin(data, n)
  BY NamedFacts
<1>3. i \in NamedWithin(data, l)
  BY <1>2, NamesEnd
<1>4. N[l][i].ok
  BY <1>3 DEF NamedWithin
<1>5. \A k, m \in Nat : N[m][i].ok => N[m + k][i] = N[m][i]
  BY NamesKeep
<1>6. Decoded(data, i) = N[l][i]
  BY DEF Decoded
<1> HIDE DEF N, l
<1>7. CASE n <= l
  <2> DEFINE k == l - n
  <2>1. k \in Nat /\ n + k = l
    BY <1>1, <1>7
  <2> HIDE DEF k
  <2>2. QED
    BY <1>5, <1>6, <2>1 DEF N
<1>8. CASE ~(n <= l)
  <2> DEFINE k == n - l
  <2>1. k \in Nat /\ l + k = n
    BY <1>1, <1>8
  <2> HIDE DEF k
  <2>2. QED
    BY <1>1, <1>4, <1>5, <1>6, <2>1 DEF N
<1>9. QED
  BY <1>7, <1>8

\* What a name is, without the number of its parts: there is one at i if the part
\* at i is inside the message and is the end or is followed by a name.
LEMMA DecodedStep ==
  ASSUME NEW data \in Seq(Byte), NEW i \in Nat
  PROVE  LET d == Decoded(data, i)
             r == Decoded(data, NextPart(data, i))
         IN  /\ d \in NameType /\ r \in NameType
             /\ d.ok <=> /\ PartEnd(data, i) < Len(data)
                         /\ At(data, i) = 0 \/ r.ok
             /\ d.ok /\ At(data, i) = 0 =>
                  d.text = <<>> /\ d.parts = 0 /\ d.after = i + 1 /\ d.pointer = FALSE
             /\ d.ok /\ At(data, i) # 0 =>
                  /\ d.parts = r.parts + 1
                  /\ IF At(data, i) < Flag
                     THEN /\ d.text = Copy(data, i + 1, At(data, i)) \o <<Dot>> \o r.text
                          /\ d.after = r.after /\ d.pointer = r.pointer
                     ELSE d.text = r.text /\ d.after = i + 2 /\ d.pointer = TRUE
<1> DEFINE N == Names(data)
           l == Len(data) + 1
           q == NextPart(data, i)
           d == Decoded(data, i)
           r == Decoded(data, q)
           m == N[l + 1][i]
<1>1. l \in Nat /\ Len(data) \in Nat
  OBVIOUS
<1>2. q \in Nat /\ PartEnd(data, i) \in Nat
  BY PartFacts
<1>3. d = N[l][i] /\ r = N[l][q]
  BY DEF Decoded
<1> HIDE DEF q, d, r, l
<1>4. d \in NameType /\ r \in NameType
  <2>1. N \in [Nat -> [Nat -> NameType]]
    BY NamesFacts
  <2> HIDE DEF N
  <2>2. QED
    BY <1>1, <1>2, <1>3, <2>1
<1>5. IF PartEnd(data, i) >= Len(data) THEN m = Bad
      ELSE IF At(data, i) = 0
      THEN m.ok = TRUE /\ m.text = <<>> /\ m.parts = 0 /\ m.after = i + 1 /\ m.pointer = FALSE
      ELSE /\ m.ok = N[l][q].ok /\ m.parts = N[l][q].parts + 1
           /\ IF At(data, i) < Flag
              THEN /\ m.text = Copy(data, i + 1, At(data, i)) \o <<Dot>> \o N[l][q].text
                   /\ m.after = N[l][q].after /\ m.pointer = N[l][q].pointer
              ELSE m.text = N[l][q].text /\ m.after = i + 2 /\ m.pointer = TRUE
  BY <1>1, NameStep DEF q
<1>6. m.ok => d = m
  <2>1. l + 1 \in Nat
    BY <1>1
  <2>2. QED
    BY <2>1, DecodedIs DEF d
<1>7. d.ok => m = d
  <2>1. N[l][i].ok => N[l + 1][i] = N[l][i]
    BY <1>1, NamesGrow
  <2>2. QED
    BY <1>3, <2>1
<1>8. ~Bad.ok
  BY DEF Bad
<1>9. PartEnd(data, i) >= Len(data) <=> ~(PartEnd(data, i) < Len(data))
  BY <1>1, <1>2
<1> HIDE DEF m, N
<1>10. d.ok <=> m.ok
  BY <1>6, <1>7
<1>11. d.ok <=> (PartEnd(data, i) < Len(data) /\ (At(data, i) = 0 \/ r.ok))
  BY <1>3, <1>5, <1>8, <1>9, <1>10
<1>12. d.ok /\ At(data, i) = 0 =>
         d.text = <<>> /\ d.parts = 0 /\ d.after = i + 1 /\ d.pointer = FALSE
  BY <1>5, <1>7, <1>8
<1>13. d.ok /\ At(data, i) # 0 =>
         /\ d.parts = r.parts + 1
         /\ IF At(data, i) < Flag
            THEN /\ d.text = Copy(data, i + 1, At(data, i)) \o <<Dot>> \o r.text
                 /\ d.after = r.after /\ d.pointer = r.pointer
            ELSE d.text = r.text /\ d.after = i + 2 /\ d.pointer = TRUE
  BY <1>3, <1>5, <1>7, <1>8
<1>14. QED
  BY <1>4, <1>11, <1>12, <1>13 DEF d, r, q

\* There is no name behind the message.
LEMMA NoNameBehind ==
  ASSUME NEW data \in Seq(Byte), NEW i \in Nat, i >= Len(data)
  PROVE  ~Decoded(data, i).ok
<1>1. Flag \in Nat /\ Flag > 0
  BY DnsAssumption, RadixAssumption DEF Byte
<1>2. At(data, i) = 0
  BY PartFacts
<1>3. PartEnd(data, i) = i + 0
  BY <1>1, <1>2 DEF PartEnd
<1>4. ~(PartEnd(data, i) < Len(data))
  <2> DEFINE l == Len(data)
  <2>1. l \in Nat
    OBVIOUS
  <2> HIDE DEF l
  <2>2. QED
    BY <1>3, <2>1 DEF l
<1>5. QED
  BY <1>4, DecodedStep

(***************************************************************************)
(* get_qname decodes the name.                                             *)
(***************************************************************************)
\* The name that is asked for, and what of it is still to be read.
Wanted == Decoded(response.data, qname.off)
Rest == Decoded(response.data, qname.ptr)

\* In the loop of get_qname: there is a name at the offset if there is one at the
\* pointer, and the locals are the difference of the two.
Walk ==
  parse.pc = "name" =>
    /\ qname.len = Data(qname.ptr)
    /\ Wanted.ok <=> Rest.ok
    /\ Wanted.ok =>
         /\ Wanted.parts = qname.count + Rest.parts
         /\ Len(Wanted.text) <= QnameMax => Wanted.text = qname.text \o Rest.text
         /\ IF qname.jumped
            THEN Wanted.pointer /\ (Data(qname.off) >= Flag => Wanted.after = qname.off + 2)
            ELSE Wanted.after = Rest.after /\ Wanted.pointer = Rest.pointer
    /\ ~qname.jumped /\ Data(qname.off) >= Flag => qname.ptr = qname.off

\* What is accepted is not an empty name.
Accepted == Returned /\ parse.off # Fail => Wanted.text # <<>> /\ parse.off > 0

NameInv == Walk /\ NameDecoded /\ Accepted

\* get_qname is called: all of the name is still to be read, or there is none.
LEMMA CallNames ==
  ASSUME DnsInv, UNCHANGED response, NEW p, DOMAIN p = ParseFields,
         NEW off \in Nat, NEW to \in {"question", "answer"},
         NEW before, Call(p, off, to, before)
  PROVE  NameInv'
<1> DEFINE d == response.data
           w == Decoded(d, off)
<1>1. d \in Seq(Byte) /\ response' = response /\ Size \in Nat
  BY MessageFacts
<1>2. w \in NameType
  BY <1>1, DecodedStep
<1> HIDE DEF w
<1>3. CASE off < Size
  <2>1. /\ qname' = [off |-> off, ptr |-> off, len |-> Data(off), text |-> <<>>,
                     count |-> 0, jumped |-> FALSE]
        /\ parse' = [p EXCEPT !.pc = "name", !.to = to]
    BY <1>3 DEF Call
  <2>2. parse'.pc = "name"
    BY <2>1 DEF ParseFields
  <2>3. /\ qname'.off = off /\ qname'.ptr = off /\ qname'.len = Data(off) /\ qname'.text = <<>>
        /\ qname'.count = 0 /\ qname'.jumped = FALSE
    BY <2>1
  <2>4. Wanted' = w /\ Rest' = w /\ (Data(qname.ptr))' = Data(off)
    BY <1>1, <2>3 DEF Wanted, Rest, w, Data
  <2>5. w.parts = 0 + w.parts /\ w.text = <<>> \o w.text
    BY <1>2 DEF NameType
  <2>6. Walk'
    BY <2>3, <2>4, <2>5 DEF Walk
  <2>7. NameDecoded' /\ Accepted'
    BY <2>2 DEF NameDecoded, Accepted, Returned
  <2>8. QED
    BY <2>6, <2>7 DEF NameInv
<1>4. CASE ~(off < Size)
  <2>1. /\ qname' = [qname EXCEPT !.off = off, !.text = <<>>]
        /\ parse' = [p EXCEPT !.pc = to, !.to = to, !.off = Fail]
    BY <1>4 DEF Call
  <2>2. parse'.pc # "name" /\ parse'.off = Fail
    BY <2>1 DEF ParseFields
  <2>3. qname'.off = off
    BY <2>1 DEF DnsInv, QnameType
  <2>4. ~w.ok
    BY <1>1, <1>4, NoNameBehind DEF Size, w
  <2>5. ~Legal(w)
    BY <2>4 DEF Legal
  <2>6. w = Decoded(response'.data, qname'.off)
    BY <1>1, <2>3 DEF w
  <2>7. NameDecoded'
    BY <2>2, <2>5, <2>6 DEF NameDecoded
  <2>8. Walk' /\ Accepted'
    BY <2>2 DEF Walk, Accepted
  <2>9. QED
    BY <2>7, <2>8 DEF NameInv
<1>5. QED
  BY <1>3, <1>4

\* The part of a name that is read next.
LEMMA PartRead ==
  ASSUME DnsInv, Walk, parse.pc = "name", qname.len # 0
  PROVE  LET n == NextPart(response.data, qname.ptr)
             r == Decoded(response.data, n)
         IN  /\ n \in Nat /\ r \in NameType /\ Rest \in NameType /\ Wanted \in NameType
             /\ PartEnd(response.data, qname.ptr) \in Nat
             /\ Flag \in Nat /\ Flag > 0
             /\ Wanted.ok <=> PartEnd(response.data, qname.ptr) < Size /\ r.ok
             /\ Wanted.ok =>
                  /\ Wanted.parts = (qname.count + 1) + r.parts
                  /\ IF qname.len < Flag
                     THEN /\ Rest.text = Copy(response.data, qname.ptr + 1, qname.len) \o <<Dot>> \o r.text
                          /\ Rest.after = r.after /\ Rest.pointer = r.pointer
                     ELSE Rest.text = r.text /\ Rest.after = qname.ptr + 2 /\ Rest.pointer = TRUE
<1> DEFINE d == response.data
           i == qname.ptr
           n == NextPart(d, i)
           e == PartEnd(d, i)
           r == Decoded(d, n)
<1>1. d \in Seq(Byte) /\ i \in Nat /\ qname.off \in Nat /\ qname.count \in Nat
  BY MessageFacts
<1>2. n \in Nat /\ e \in Nat
  BY <1>1, PartFacts
<1>3. At(d, i) = qname.len /\ Rest = Decoded(d, i) /\ Size = Len(d)
  BY DEF Walk, Data, Rest, Size
<1>4. /\ Rest \in NameType /\ r \in NameType
      /\ Rest.ok <=> (e < Len(d) /\ (At(d, i) = 0 \/ r.ok))
      /\ Rest.ok /\ At(d, i) # 0 =>
           /\ Rest.parts = r.parts + 1
           /\ IF At(d, i) < Flag
              THEN /\ Rest.text = Copy(d, i + 1, At(d, i)) \o <<Dot>> \o r.text
                   /\ Rest.after = r.after /\ Rest.pointer = r.pointer
              ELSE Rest.text = r.text /\ Rest.after = i + 2 /\ Rest.pointer = TRUE
  BY <1>1, DecodedStep DEF Rest
<1>5. Wanted \in NameType
  BY <1>1, DecodedStep DEF Wanted
<1>6. Flag \in Nat /\ Flag > 0
  BY DnsAssumption, RadixAssumption DEF Byte
<1> HIDE DEF r, n, e
<1>7. Wanted.ok <=> (e < Size /\ r.ok)
  BY <1>3, <1>4 DEF Walk
<1>8. Wanted.ok => Wanted.parts = (qname.count + 1) + r.parts
  <2> SUFFICES ASSUME Wanted.ok PROVE Wanted.parts = (qname.count + 1) + r.parts
    OBVIOUS
  <2>1. Wanted.parts = qname.count + Rest.parts /\ Rest.parts = r.parts + 1 /\ r.parts \in Nat
    BY <1>3, <1>4, <1>7 DEF Walk, NameType
  <2>2. QED
    BY <1>1, <2>1
<1>9. Wanted.ok =>
        IF qname.len < Flag
        THEN /\ Rest.text = Copy(d, i + 1, qname.len) \o <<Dot>> \o r.text
             /\ Rest.after = r.after /\ Rest.pointer = r.pointer
        ELSE Rest.text = r.text /\ Rest.after = i + 2 /\ Rest.pointer = TRUE
  BY <1>3, <1>4 DEF Walk
<1>10. QED
  BY <1>2, <1>4, <1>5, <1>6, <1>7, <1>8, <1>9 DEF r, n, e

\* A pointer leads to the rest of the name.
LEMMA PointerWalks ==
  ASSUME DnsInv, Walk, FollowPointer
  PROVE  NameInv'
<1> DEFINE d == response.data
           i == qname.ptr
           x == Target
           r == Decoded(d, x)
           w == Wanted
           c == qname.count + 1
<1>1. /\ parse.pc = "name" /\ qname.len # 0 /\ qname.len >= Flag /\ i + 1 < Size
      /\ response' = response /\ parse' = parse
      /\ qname' = [qname EXCEPT !.ptr = x, !.len = Data(x), !.jumped = TRUE, !.count = c]
  BY DEF FollowPointer, Pointer, InLoop
<1>2. /\ d \in Seq(Byte) /\ i \in Nat /\ qname.off \in Nat /\ qname.count \in Nat
      /\ qname.len \in Nat /\ qname \in QnameType /\ Size \in Nat
  BY MessageFacts DEF DnsInv
<1>3. At(d, i) = qname.len /\ Flag \in Nat /\ Flag > 0
  BY <1>1, PartRead DEF Walk, Data
<1>4. ~(qname.len < Flag)
  BY <1>1, <1>2, <1>3
<1>5. x = NextPart(d, i) /\ PartEnd(d, i) = i + 1
  BY <1>3, <1>4 DEF Target, NextPart, PartEnd, Data
<1>6. /\ r \in NameType /\ Rest \in NameType /\ w \in NameType
      /\ w.ok <=> (i + 1 < Size /\ r.ok)
      /\ w.ok => /\ w.parts = c + r.parts
                 /\ Rest.text = r.text /\ Rest.after = i + 2 /\ Rest.pointer = TRUE
  BY <1>1, <1>4, <1>5, PartRead
<1> HIDE DEF x, r, c
<1>7. /\ qname'.off = qname.off /\ qname'.ptr = x /\ qname'.len = Data(x) /\ qname'.jumped = TRUE
      /\ qname'.count = c /\ qname'.text = qname.text
  BY <1>1, <1>2 DEF QnameType
<1>8. /\ Wanted' = w /\ Rest' = r /\ (Data(qname.ptr))' = Data(x)
      /\ (Data(qname.off))' = Data(qname.off)
  BY <1>1, <1>7 DEF Wanted, Rest, Data, r
<1>9. ASSUME w.ok
      PROVE  /\ Len(w.text) <= QnameMax => w.text = qname.text \o r.text
             /\ w.pointer /\ (Data(qname.off) >= Flag => w.after = qname.off + 2)
  <2>1. Len(w.text) <= QnameMax => w.text = qname.text \o r.text
    BY <1>1, <1>6, <1>9 DEF Walk
  <2>2. CASE qname.jumped
    BY <1>1, <1>9, <2>1, <2>2 DEF Walk
  <2>3. CASE ~qname.jumped
    BY <1>1, <1>6, <1>9, <2>1, <2>3 DEF Walk
  <2>4. QED
    BY <2>2, <2>3
<1>10. Walk'
  BY <1>1, <1>6, <1>7, <1>8, <1>9 DEF Walk
<1>11. NameDecoded' /\ Accepted'
  BY <1>1 DEF NameDecoded, Accepted, Returned
<1>12. QED
  BY <1>10, <1>11 DEF NameInv

\* Texts are put together in any order.
LEMMA NatConcat ==
  \A a \in Seq(Nat) : \A b \in Seq(Nat) : \A c \in Seq(Nat) : (a \o b) \o c = a \o (b \o c)
  BY ConcatAssociative

\* A label that is put between what was read and the rest of the name: the buffer
\* that would hold the whole name holds it up to there.
LEMMA LabelText ==
  ASSUME NEW t \in Seq(Nat), NEW s \in Seq(Nat), NEW r \in Seq(Nat), NEW m \in Nat,
         NEW e \in Seq(Nat), Len(e) = 1
  PROVE  LET w == t \o (s \o e \o r)
             u == t \o s \o e
         IN  /\ w = u \o r /\ u \in Seq(Nat)
             /\ Len(w) >= Len(t) + Len(s) + 1
             /\ Len(w) <= m => Len(u) <= m
<1> DEFINE v == s \o e
<1>1. v \in Seq(Nat) /\ Len(v) = Len(s) + 1
  <2>1. v \in Seq(Nat)
    BY ConcatProperties
  <2>2. Len(v) = Len(s) + Len(e)
    BY ConcatProperties
  <2>3. QED
    BY <2>1, <2>2
<1>2. t \o s \o e = t \o v
  BY NatConcat
<1> HIDE DEF v
<1>3. t \o v \in Seq(Nat) /\ Len(t \o v) = Len(t) + (Len(s) + 1)
  <2>1. t \o v \in Seq(Nat)
    BY <1>1, ConcatProperties
  <2>2. Len(t \o v) = Len(t) + Len(v)
    BY <1>1, ConcatProperties
  <2>3. QED
    BY <1>1, <2>1, <2>2
<1>4. (t \o v) \o r = t \o (v \o r)
  <2>1. v \in Seq(Nat)
    BY <1>1
  <2>2. QED
    BY <2>1, NatConcat, Zenon
<1> DEFINE u == t \o v
           w == u \o r
<1>5. w = t \o (s \o e \o r) /\ u = t \o s \o e /\ w = u \o r
  BY <1>2, <1>4 DEF v
<1>6. Len(w) = Len(u) + Len(r)
  BY <1>3, ConcatProperties
<1> HIDE DEF u, w
<1> DEFINE a == Len(t)
           b == Len(s)
           c == Len(r)
           f == Len(u)
           g == Len(w)
<1>7. a \in Nat /\ b \in Nat /\ c \in Nat
  OBVIOUS
<1>8. f = a + (b + 1) /\ g = f + c
  BY <1>3, <1>6 DEF u
<1> HIDE DEF a, b, c, f, g
<1>9. g >= a + b + 1 /\ (g <= m => f <= m)
  BY <1>7, <1>8
<1>10. Len(w) >= Len(t) + Len(s) + 1 /\ (Len(w) <= m => Len(u) <= m)
  BY <1>9 DEF a, b, c, f, g
<1>11. u \in Seq(Nat)
  BY <1>3 DEF u
<1>12. QED
  BY <1>5, <1>10, <1>11

\* The dot behind a label.
LEMMA DotFacts == <<Dot>> \in Seq(Nat) /\ Len(<<Dot>>) = 1
<1>1. Dot \in Nat
  BY RadixAssumption DEF Dot
<1>2. QED
  BY <1>1

\* A label is the next part of the name.
LEMMA LabelWalks ==
  ASSUME DnsInv, Walk, CopyLabel
  PROVE  NameInv'
<1> DEFINE d == response.data
           i == qname.ptr
           x == i + 1 + qname.len
           r == Decoded(d, x)
           w == Wanted
           c == qname.count + 1
           s == Copy(d, i + 1, qname.len)
           t == qname.text
           a == Appended(s)
<1>1. /\ parse.pc = "name" /\ qname.len # 0 /\ ~(qname.len >= Flag /\ i + 1 < Size)
      /\ x < Size /\ response' = response /\ parse' = parse
      /\ qname' = [qname EXCEPT !.text = a, !.ptr = x, !.len = Data(x), !.count = c]
  BY DEF CopyLabel, Pointer, InLoop, LabelFits
<1>2. /\ d \in Seq(Byte) /\ i \in Nat /\ qname.off \in Nat /\ qname.count \in Nat
      /\ qname.len \in Nat /\ qname \in QnameType /\ Size \in Nat /\ t \in Seq(Nat)
      /\ QnameMax \in Nat
  BY MessageFacts DEF DnsInv
<1>3. At(d, i) = qname.len /\ Flag \in Nat /\ Flag > 0
  BY <1>1, PartRead DEF Walk, Data
<1>4. qname.len < Flag
  BY <1>1, <1>2, <1>3
<1>5. x = NextPart(d, i) /\ PartEnd(d, i) = i + qname.len
  <2>1. PartEnd(d, i) = i + qname.len /\ NextPart(d, i) = (i + qname.len) + 1
    BY <1>3, <1>4 DEF NextPart, PartEnd
  <2>2. QED
    BY <1>2, <2>1
<1>6. /\ r \in NameType /\ Rest \in NameType /\ w \in NameType
      /\ w.ok <=> (PartEnd(d, i) < Size /\ r.ok)
      /\ w.ok => /\ w.parts = c + r.parts
                 /\ Rest.text = s \o <<Dot>> \o r.text
                 /\ Rest.after = r.after /\ Rest.pointer = r.pointer
  BY <1>1, <1>4, <1>5, PartRead
<1>7. PartEnd(d, i) < Size
  BY <1>1, <1>2, <1>5
<1>8. s \in Seq(Nat) /\ r.text \in Seq(Nat)
  <2> DEFINE j == i + 1
  <2>1. j \in Int
    BY <1>2
  <2> HIDE DEF j
  <2>2. Copy(d, j, qname.len) \in Seq(Nat)
    BY <1>2, <2>1, CopyFacts
  <2>3. QED
    BY <1>6, <2>2 DEF j, NameType
<1> HIDE DEF x, r, c, s, a
<1>9. /\ qname'.off = qname.off /\ qname'.ptr = x /\ qname'.len = Data(x)
      /\ qname'.jumped = qname.jumped /\ qname'.count = c /\ qname'.text = a
  BY <1>1, <1>2 DEF QnameType
<1>10. /\ Wanted' = w /\ Rest' = r /\ (Data(qname.ptr))' = Data(x)
       /\ (Data(qname.off))' = Data(qname.off)
  BY <1>1, <1>9 DEF Wanted, Rest, Data, r
<1>11. ASSUME w.ok, Len(w.text) <= QnameMax PROVE w.text = a \o r.text
  <2> DEFINE u == t \o s \o <<Dot>>
             v == r.text
  <2>1. w.text = t \o (s \o <<Dot>> \o v)
    BY <1>1, <1>6, <1>11 DEF Walk
  <2>2. v \in Seq(Nat)
    BY <1>8
  <2> HIDE DEF v
  <2>3. w.text = u \o v /\ Len(u) <= QnameMax /\ u \in Seq(Nat)
    <3> DEFINE e == <<Dot>>
    <3>1. e \in Seq(Nat) /\ Len(e) = 1
      BY DotFacts
    <3>2. w.text = t \o (s \o e \o v) /\ u = t \o s \o e
      BY <2>1
    <3> HIDE DEF e
    <3>3. t \in Seq(Nat) /\ s \in Seq(Nat) /\ QnameMax \in Nat
      BY <1>2, <1>8
    <3> HIDE DEF t
    <3>4. t \o (s \o e \o v) = (t \o s \o e) \o v
      <4>1. s \o e \in Seq(Nat)
        BY <3>1, <3>3, ConcatProperties
      <4>2. (t \o s) \o e = t \o (s \o e)
        BY <3>1, <3>3, NatConcat, Zenon
      <4>3. (t \o (s \o e)) \o v = t \o ((s \o e) \o v)
        BY <2>2, <3>3, <4>1, NatConcat, Zenon
      <4>4. QED
        BY <4>2, <4>3
    <3>5. t \o s \o e \in Seq(Nat)
      BY <2>2, <3>1, <3>3, LabelText
    <3>6. Len(t \o (s \o e \o v)) <= QnameMax => Len(t \o s \o e) <= QnameMax
      BY <2>2, <3>1, <3>3, LabelText
    <3> HIDE DEF u
    <3>7. QED
      BY <1>11, <3>2, <3>4, <3>5, <3>6
  <2>5. a = u
    <3>1. a = IF Len(u) > QnameMax THEN <<>> ELSE u
      BY DEF a, Appended
    <3>2. Len(u) \in Nat
      BY <2>3
    <3> HIDE DEF u
    <3>3. QED
      BY <1>2, <2>3, <3>1, <3>2
  <2>6. QED
    BY <2>3, <2>5 DEF v
<1>12. ASSUME w.ok
       PROVE  IF qname.jumped
              THEN w.pointer /\ (Data(qname.off) >= Flag => w.after = qname.off + 2)
              ELSE w.after = r.after /\ w.pointer = r.pointer
  BY <1>1, <1>6, <1>12 DEF Walk
<1>13. ~(~qname.jumped /\ Data(qname.off) >= Flag)
  <2> SUFFICES ASSUME ~qname.jumped, Data(qname.off) >= Flag PROVE FALSE
    OBVIOUS
  <2>1. qname.ptr = qname.off
    BY <1>1 DEF Walk
  <2>2. Data(qname.off) = qname.len
    BY <1>1, <2>1 DEF Walk
  <2>3. QED
    BY <1>2, <1>3, <1>4, <2>2
<1>14. Walk'
  BY <1>1, <1>6, <1>7, <1>9, <1>10, <1>11, <1>12, <1>13 DEF Walk
<1>15. NameDecoded' /\ Accepted'
  BY <1>1 DEF NameDecoded, Accepted, Returned
<1>16. QED
  BY <1>14, <1>15 DEF NameInv

\* What get_qname refuses is no name, or one that is too long.
LEMMA RefuseNames ==
  ASSUME DnsInv, Walk, RefuseName
  PROVE  NameInv'
<1> DEFINE d == response.data
           i == qname.ptr
           x == NextPart(d, i)
           r == Decoded(d, x)
           w == Wanted
<1>1. /\ parse.pc = "name" /\ qname.len # 0 /\ response' = response
      /\ \/ ~(qname.count <= MaxHops)
         \/ qname.len >= Flag /\ i + 1 < Size /\ Target >= Size
         \/ ~(qname.len >= Flag /\ i + 1 < Size) /\ ~LabelFits
      /\ parse' = [parse EXCEPT !.pc = parse.to, !.off = Fail] /\ qname' = qname
  BY DEF RefuseName, Return, Pointer, InLoop
<1>2. /\ d \in Seq(Byte) /\ i \in Nat /\ qname.off \in Nat /\ qname.count \in Nat
      /\ qname.len \in Nat /\ Size \in Nat /\ qname.text \in Seq(Nat) /\ QnameMax \in Nat
      /\ MaxHops \in Nat
  BY MessageFacts, DnsAssumption
<1>3. At(d, i) = qname.len /\ Flag \in Nat /\ Flag > 0 /\ x \in Nat
  BY <1>1, PartRead DEF Walk, Data
<1>4. /\ r \in NameType /\ w \in NameType
      /\ w.ok <=> (PartEnd(d, i) < Size /\ r.ok)
      /\ w.ok => w.parts = (qname.count + 1) + r.parts
  BY <1>1, PartRead
<1>5. r.ok => x < Size
  <2>1. x >= Size => ~r.ok
    BY <1>2, <1>3, NoNameBehind DEF Size
  <2>2. QED
    BY <1>2, <1>3, <2>1
<1>6. ~Legal(w)
  <2> SUFFICES ASSUME Legal(w) PROVE FALSE
    OBVIOUS
  <2>1. w.ok /\ Len(w.text) <= QnameMax /\ w.parts <= MaxHops + 1
    BY DEF Legal
  <2>2. PartEnd(d, i) < Size /\ x < Size /\ r.parts \in Nat
    BY <1>4, <1>5, <2>1 DEF NameType
  <2>3. qname.count <= MaxHops
    BY <1>2, <1>4, <2>1, <2>2
  <2>4. CASE qname.len >= Flag
    <3>1. ~(qname.len < Flag)
      BY <1>2, <1>3, <2>4
    <3>2. x = Target /\ PartEnd(d, i) = i + 1
      BY <1>3, <3>1 DEF Target, NextPart, PartEnd, Data
    <3> HIDE DEF x
    <3>3. ~(Target >= Size)
      BY <1>2, <1>3, <2>2, <3>2
    <3>4. LabelFits => i + 1 < Size
      BY <2>2, <3>2
    <3>5. QED
      BY <1>1, <2>2, <2>3, <2>4, <3>2, <3>3
  <2>5. CASE qname.len < Flag
    <3>1. ~(qname.len >= Flag)
      BY <1>2, <1>3, <2>5
    <3>2. x = (i + qname.len) + 1
      BY <1>3, <2>5 DEF NextPart, PartEnd
    <3> DEFINE s == Copy(d, i + 1, qname.len)
               v == r.text
    <3>3. qname.ptr + 1 + qname.len < Size
      <4> HIDE DEF x
      <4>1. QED
        BY <1>2, <2>2, <3>2
    <3>4. w.text = qname.text \o (s \o <<Dot>> \o v)
      <4>1. Rest.text = s \o <<Dot>> \o v
        BY <1>1, <2>1, <2>5, PartRead
      <4>2. QED
        BY <1>1, <2>1, <4>1 DEF Walk
    <3>5. s \in Seq(Nat) /\ Len(s) = qname.len /\ v \in Seq(Nat)
      <4> DEFINE j == i + 1
      <4>1. j \in Int
        BY <1>2
      <4> HIDE DEF j
      <4>2. Copy(d, j, qname.len) \in Seq(Nat) /\ Len(Copy(d, j, qname.len)) = qname.len
        BY <1>2, <4>1, CopyFacts
      <4>3. QED
        BY <1>4, <4>2 DEF j, NameType
    <3> HIDE DEF s, v
    <3>6. Len(w.text) >= Len(qname.text) + Len(s) + 1
      <4> DEFINE e == <<Dot>>
      <4>1. e \in Seq(Nat) /\ Len(e) = 1
        BY DotFacts
      <4>2. w.text = qname.text \o (s \o e \o v)
        BY <3>4
      <4> DEFINE t == qname.text
      <4>3. t \in Seq(Nat) /\ s \in Seq(Nat) /\ v \in Seq(Nat) /\ QnameMax \in Nat
        BY <1>2, <3>5
      <4>4. w.text = t \o (s \o e \o v)
        BY <4>2
      <4> HIDE DEF e, t
      <4>5. Len(t \o (s \o e \o v)) >= Len(t) + Len(s) + 1
        BY <4>1, <4>3, LabelText
      <4>6. QED
        BY <4>4, <4>5 DEF t
    <3>7. Len(qname.text) + qname.len <= QnameMax
      <4> DEFINE m == Len(w.text)
                 k == Len(qname.text)
      <4>1. m \in Nat /\ k \in Nat
        BY <1>2, <1>4 DEF NameType
      <4> HIDE DEF m, k
      <4>2. m <= QnameMax /\ m >= k + qname.len + 1
        BY <2>1, <3>5, <3>6 DEF m, k
      <4>3. k + qname.len <= QnameMax
        BY <1>2, <4>1, <4>2
      <4>4. QED
        BY <4>3 DEF k
    <3>8. QED
      BY <1>1, <2>3, <3>1, <3>3, <3>7 DEF LabelFits
  <2>6. QED
    BY <1>2, <1>3, <2>4, <2>5
<1>7. parse'.pc # "name" /\ parse'.off = Fail
  <2>1. DOMAIN parse = ParseFields /\ parse.to \in {"question", "answer"}
    BY DEF DnsInv
  <2>2. QED
    BY <1>1, <2>1 DEF ParseFields
<1>8. w = Decoded(response'.data, qname'.off)
  BY <1>1 DEF Wanted
<1> HIDE DEF w
<1>9. NameDecoded'
  BY <1>6, <1>7, <1>8 DEF NameDecoded
<1>10. Walk' /\ Accepted'
  BY <1>7 DEF Walk, Accepted
<1>11. QED
  BY <1>9, <1>10 DEF NameInv

\* At the end of a name all of it has been read.
LEMMA EndNames ==
  ASSUME DnsInv, Walk, EndName
  PROVE  NameInv'
<1> DEFINE d == response.data
           i == qname.ptr
           w == Wanted
           f == IF qname.text = <<>> THEN Fail ELSE AfterName
<1>1. /\ parse.pc = "name" /\ qname.len = 0 /\ response' = response
      /\ parse' = [parse EXCEPT !.pc = parse.to, !.off = f] /\ qname' = qname
  BY DEF EndName, Return
<1>2. /\ d \in Seq(Byte) /\ i \in Nat /\ qname.off \in Nat /\ Size \in Nat
      /\ qname.text \in Seq(Nat) /\ i < Size
  BY <1>1, MessageFacts DEF DnsInv
<1>3. At(d, i) = 0 /\ Flag \in Nat /\ Flag > 0
  BY <1>1, DnsAssumption, RadixAssumption DEF Walk, Data, Byte
<1>4. PartEnd(d, i) = i
  <2>1. PartEnd(d, i) = i + 0
    BY <1>3 DEF PartEnd
  <2>2. QED
    BY <1>2, <2>1
<1>5. Rest.ok /\ Rest.text = <<>> /\ Rest.after = i + 1
  BY <1>2, <1>3, <1>4, DecodedStep DEF Rest, Size
<1>6. w \in NameType
  BY <1>2, DecodedStep DEF Wanted
<1>7. w.ok
  BY <1>1, <1>5 DEF Walk
<1>8. Len(w.text) <= QnameMax => w.text = qname.text
  BY <1>1, <1>2, <1>5, <1>7 DEF Walk
<1>9. AfterName > 0 /\ AfterName # Fail
  BY <1>2 DEF AfterName, Fail
<1>10. ~(Data(qname.off) < Flag /\ w.pointer) => w.after = AfterName
  <2>1. CASE qname.jumped
    <3>1. Data(qname.off) \in Nat
      <4>1. qname.off \in Int
        BY <1>2
      <4>2. QED
        BY <4>1, DataFacts
    <3>2. w.pointer /\ (Data(qname.off) >= Flag => w.after = qname.off + 2)
      BY <1>1, <1>7, <2>1 DEF Walk
    <3>3. QED
      BY <1>3, <2>1, <3>1, <3>2 DEF AfterName
  <2>2. CASE ~qname.jumped
    BY <1>1, <1>5, <1>7, <2>2 DEF Walk, AfterName
  <2>3. QED
    BY <2>1, <2>2
<1>11. parse'.pc # "name" /\ parse'.off = f
  <2>1. DOMAIN parse = ParseFields /\ parse.to \in {"question", "answer"}
    BY DEF DnsInv
  <2> HIDE DEF f
  <2>2. QED
    BY <1>1, <2>1 DEF ParseFields
<1>12. w = Decoded(response'.data, qname'.off) /\ qname'.text = qname.text
  BY <1>1 DEF Wanted
<1>13. Mixed(response'.data, qname'.off) <=> Data(qname.off) < Flag /\ w.pointer
  BY <1>1, <1>12 DEF Mixed, Data
<1>14. Legal(w) => w.text = qname.text /\ qname.text # <<>>
  BY <1>8 DEF Legal
<1> HIDE DEF w
<1>15. NameDecoded'
  BY <1>7, <1>9, <1>10, <1>11, <1>12, <1>13, <1>14 DEF NameDecoded
<1>16. Walk'
  BY <1>11 DEF Walk
<1>17. Accepted'
  <2>1. w.text = <<>> => qname.text = <<>>
    <3>1. Len(<<>>) <= QnameMax
      BY DnsAssumption
    <3>2. QED
      BY <1>8, <3>1
  <2>2. Wanted' = w
    BY <1>12 DEF Wanted
  <2>3. QED
    BY <1>9, <1>11, <2>1, <2>2 DEF Accepted
<1>18. QED
  BY <1>15, <1>16, <1>17 DEF NameInv

\* Nothing is said of a parser that has ended.
LEMMA DoneNames ==
  ASSUME parse'.pc \in {"header", "done"}
  PROVE  NameInv'
BY DEF NameInv, Walk, NameDecoded, Accepted, Returned

\* get_qname is called for the question and for every answer.
LEMMA CallsName ==
  ASSUME DnsInv, CheckHeader \/ ReadQuestion \/ ReadAnswer \/ RefuseAnswer
  PROVE  NameInv'
<1>1. DOMAIN parse = ParseFields /\ parse.off \in Int /\ response.data \in Seq(Byte)
  BY MessageFacts DEF DnsInv
<1>2. /\ HeaderLen \in Nat /\ HeaderLen > 0 /\ QFixed \in Nat /\ QFixed > 0
      /\ RRFixed \in Nat /\ RRFixed > 0
  BY DnsAssumption
<1>3. Done => parse'.pc \in {"header", "done"}
  BY <1>1 DEF Done, ParseFields
<1>4. CASE CheckHeader
  <2>1. response' = response /\ (Call(parse, HeaderLen, "question", HeaderLen - 1) \/ Done)
    BY <1>4 DEF CheckHeader
  <2> DEFINE b == HeaderLen - 1
  <2>2. Call(parse, HeaderLen, "question", b) \/ Done
    BY <2>1
  <2> HIDE DEF b
  <2>3. QED
    BY <1>1, <1>2, <1>3, <2>1, <2>2, CallNames, DoneNames
<1>5. CASE ReadQuestion
  <2> DEFINE p == [parse EXCEPT !.question = NameRead]
             o == parse.off + QFixed
             b == parse.off + QFixed - 1
  <2>1. response' = response /\ (Done \/ (parse.off > 0 /\ Call(p, o, "answer", b)))
    BY <1>5 DEF ReadQuestion
  <2>2. DOMAIN p = ParseFields
    BY <1>1 DEF ParseFields
  <2>3. parse.off > 0 => o \in Nat
    BY <1>1, <1>2
  <2> HIDE DEF p, o, b
  <2>4. QED
    BY <1>3, <2>1, <2>2, <2>3, CallNames, DoneNames
<1>6. CASE ReadAnswer
  <2> DEFINE p == [parse EXCEPT !.a = @ + 1, !.reported = @ \o Reported(parse.off)]
             b == parse.off + RRFixed + AddrLen(Data(parse.off)) - 1
             o == AfterRecord(parse.off)
  <2>1. /\ response' = response /\ parse.off > 0
        /\ Call(p, o, "answer", b) \/ parse' = [p EXCEPT !.pc = "done"]
    BY <1>6 DEF ReadAnswer
  <2>2. DOMAIN p = ParseFields
    BY <1>1 DEF ParseFields
  <2>3. o \in Nat
    <3> DEFINE i == parse.off + RRFixed - 1
               e == Data(i)
    <3>1. i \in Int
      BY <1>1, <1>2
    <3> HIDE DEF i
    <3>2. e \in Nat
      BY <3>1, DataFacts
    <3>3. o = parse.off + RRFixed + e
      BY DEF AfterRecord, i
    <3> HIDE DEF e, o
    <3>4. QED
      BY <1>1, <1>2, <2>1, <3>2, <3>3
  <2> HIDE DEF p, o, b
  <2>4. CASE Call(p, o, "answer", b)
    BY <2>1, <2>2, <2>3, <2>4, CallNames
  <2>5. CASE parse' = [p EXCEPT !.pc = "done"]
    <3>1. parse'.pc = "done"
      BY <2>2, <2>5 DEF ParseFields
    <3>2. QED
      BY <3>1, DoneNames
  <2>6. QED
    BY <2>1, <2>4, <2>5
<1>7. CASE RefuseAnswer
  BY <1>3, <1>7, DoneNames DEF RefuseAnswer
<1>8. QED
  BY <1>4, <1>5, <1>6, <1>7

\* No name is read at first.
LEMMA NameStarts == DnsInit => NameInv
BY DEF DnsInit, NoParse, NameInv, Walk, NameDecoded, Accepted, Returned

\* Every step keeps what the loop knows of the name.
LEMMA NameKept == DnsInv /\ NameInv /\ [DnsNext]_dnsVars => NameInv'
<1> SUFFICES ASSUME DnsInv, NameInv, [DnsNext]_dnsVars PROVE NameInv'
  OBVIOUS
<1>0. Walk
  BY DEF NameInv
<1>1. CASE CheckHeader \/ ReadQuestion \/ ReadAnswer \/ RefuseAnswer
  BY <1>1, CallsName
<1>2. CASE FollowPointer
  BY <1>0, <1>2, PointerWalks
<1>3. CASE CopyLabel
  BY <1>0, <1>3, LabelWalks
<1>4. CASE RefuseName
  BY <1>0, <1>4, RefuseNames
<1>5. CASE EndName
  BY <1>0, <1>5, EndNames
<1>6. CASE UNCHANGED dnsVars
  BY <1>6 DEF dnsVars, NameInv, Walk, NameDecoded, Accepted, Returned, Wanted, Rest, Data, Mixed
<1>7. QED
  BY <1>1, <1>2, <1>3, <1>4, <1>5, <1>6 DEF DnsNext

\* get_qname returns the name that is encoded at the offset, and where it ends,
\* for every message: it decodes every name within its limits, through pointers
\* in either direction, and accepts nothing that is no name.
THEOREM NameSafety == DnsSpec => []NameDecoded
<1>1. DnsInit => DnsInv /\ NameInv
  BY DnsStarts, NameStarts
<1>2. DnsInv /\ NameInv /\ [DnsNext]_dnsVars => (DnsInv /\ NameInv)'
  BY DnsKeeps, NameKept
<1>3. NameInv => NameDecoded
  BY DEF NameInv
<1>4. QED
  BY <1>1, <1>2, <1>3, PTL DEF DnsSpec

(***************************************************************************)
(* parse_dns_response reports the addresses.                               *)
(***************************************************************************)
\* The name of the question, and whether the code finds its end.
FirstName == Decoded(response.data, HeaderLen)
Sure == Legal(FirstName) /\ ~Mixed(response.data, HeaderLen)

\* The addresses the message has, and those that are still to be reported.
OfMessage == Addresses(response.data, Spelled(FirstName.text))
Whole == OfMessage[response.acount][FirstName.after + QFixed]
ToCome == OfMessage[response.acount - parse.a][qname.off]

\* What dns_resolved is told of a question.
Report(question) ==
  [question : {question}, name : {CString(t) : t \in Seq(Nat)}, kind : Nat, addr : Seq(Nat)]

\* The question or an answer is being read.
Asking == parse.pc \in {"name", "question"} /\ parse.to = "question"
InAnswers == parse.pc \in {"name", "answer"} /\ parse.to = "answer"

\* What was reported and what is still to come are the addresses of the message, or
\* a record that is not clear was read behind the addresses that have to be reported.
Split ==
  /\ FirstName.after + QFixed <= Size
  /\ parse.question = Spelled(FirstName.text)
  /\ \/ (Whole.clear <=> ToCome.clear) /\ Whole.list = parse.reported \o ToCome.list
     \/ ~Whole.clear /\ StartsWith(parse.reported, Whole.list)

Told == parse.reported \in Seq(Report(parse.question))

Progress ==
  /\ parse.pc \in {"header", "name", "question", "answer", "done"}
  /\ parse.pc \in {"question", "answer"} => parse.to = parse.pc
  /\ parse.pc = "header" \/ Asking => parse.a = 0 /\ parse.reported = <<>>
  /\ Asking => IsAnswer /\ qname.off = HeaderLen
  /\ InAnswers => /\ IsAnswer /\ FirstName.ok /\ FirstName.text # <<>>
                  /\ parse.a \in 0..(response.acount - 1)
                  /\ Sure => Split
  /\ AnswersReported

AnswerInv == Progress /\ (InAnswers => Told)

AnswerType(question) == [clear : BOOLEAN, list : Seq(Report(question))]

\* The parts of the record at i: its type, its rdata, the record behind it, and
\* what is reported of it.
KindAt(data, i) == At(data, Decoded(data, i).after)
RdataAt(data, i) == Decoded(data, i).after + RRFixed
NextRecord(data, i) == RdataAt(data, i) + At(data, RdataAt(data, i) - 1)
AddressAt(data, question, i) ==
  IF KindAt(data, i) \in {A, AAAA}
  THEN <<[question |-> question, name |-> Spelled(Decoded(data, i).text),
          kind |-> KindAt(data, i),
          addr |-> Copy(data, RdataAt(data, i), AddrLen(KindAt(data, i)))]>>
  ELSE <<>>

Unclear(data, i) ==
  /\ Decoded(data, i).ok /\ Decoded(data, i).text # <<>>
  /\ Mixed(data, i) \/ ~Legal(Decoded(data, i))
Incomplete(data, i) ==
  \/ ~Legal(Decoded(data, i)) \/ RdataAt(data, i) > Len(data)
  \/ NextRecord(data, i) > Len(data)
  \/ RdataAt(data, i) + AddrLen(KindAt(data, i)) > Len(data)

\* Offsets and addresses of a record.
LEMMA RecordParts ==
  ASSUME NEW data \in Seq(Byte), NEW i \in Nat, NEW question
  PROVE  /\ KindAt(data, i) \in Nat /\ RdataAt(data, i) \in Nat /\ NextRecord(data, i) \in Nat
         /\ AddrLen(KindAt(data, i)) \in Nat /\ At(data, RdataAt(data, i) - 1) \in Nat
         /\ AddressAt(data, question, i) \in Seq(Report(question))
<1> DEFINE name == Decoded(data, i)
           f == name.after
           k == KindAt(data, i)
           rd == RdataAt(data, i)
           l == AddrLen(k)
           t == SubSeq(name.text, 1, Len(name.text) - 1)
           ad == Copy(data, rd, l)
           this == [question |-> question, name |-> Spelled(name.text), kind |-> k, addr |-> ad]
<1>1. name \in NameType
  BY DecodedStep
<1>2. f \in Nat /\ name.text \in Seq(Nat)
  BY <1>1 DEF NameType
<1>3. RRFixed \in Nat /\ ALen \in Nat /\ AAAALen \in Nat
  BY DnsAssumption
<1>4. rd \in Nat
  BY <1>2, <1>3 DEF RdataAt
<1>5. k \in Nat
  <2>1. f \in Int
    BY <1>2
  <2> HIDE DEF f
  <2>2. QED
    BY <2>1, ByteFacts DEF KindAt, f
<1>6. l \in Nat
  BY <1>3 DEF AddrLen, A, AAAA
<1> HIDE DEF rd, k, l
<1>7. At(data, rd - 1) \in Nat
  <2> DEFINE j == rd - 1
  <2>1. j \in Int
    BY <1>4
  <2> HIDE DEF j
  <2>2. QED
    BY <2>1, ByteFacts DEF j
<1>8. NextRecord(data, i) \in Nat
  BY <1>4, <1>7 DEF NextRecord, rd
<1>9. ad \in Seq(Nat)
  BY <1>4, <1>6, CopyFacts
<1>10. t \in Seq(Nat)
  <2> DEFINE x == name.text
             n == Len(x) - 1
  <2>1. x \in Seq(Nat) /\ Len(x) \in Nat
    BY <1>2
  <2>2. n \in Int /\ n <= Len(x)
    BY <2>1
  <2> HIDE DEF x, n
  <2>3. SubSeq(x, 1, n) \in Seq(Nat)
    BY <2>1, <2>2
  <2>4. QED
    BY <2>3 DEF x, n
<1>11. Spelled(name.text) \in {CString(s) : s \in Seq(Nat)}
  BY <1>10 DEF Spelled
<1> HIDE DEF ad, name
<1>12. this \in Report(question)
  BY <1>5, <1>9, <1>11 DEF Report
<1>13. <<this>> \in Seq(Report(question)) /\ <<>> \in Seq(Report(question))
  <2> HIDE DEF this
  <2>1. QED
    BY <1>12
<1>14. AddressAt(data, question, i) \in Seq(Report(question))
  BY <1>13 DEF AddressAt, name, k, rd, l, ad
<1>15. QED
  BY <1>4, <1>5, <1>6, <1>7, <1>8, <1>14 DEF k, rd, l

\* The addresses from a record on, from those behind it.
LEMMA AddressesAtFacts ==
  ASSUME NEW data \in Seq(Byte), NEW i \in Nat, NEW question,
         NEW rest \in [Nat -> AnswerType(question)]
  PROVE  LET m == AddressesAt(data, question, i, rest)
             r == rest[NextRecord(data, i)]
         IN  /\ m \in AnswerType(question) /\ r \in AnswerType(question)
             /\ IF Unclear(data, i) THEN m.clear = FALSE /\ m.list = <<>>
                ELSE IF Incomplete(data, i) THEN m.clear = TRUE /\ m.list = <<>>
                ELSE m.clear = r.clear /\ m.list = AddressAt(data, question, i) \o r.list
<1> DEFINE m == AddressesAt(data, question, i, rest)
           r == rest[NextRecord(data, i)]
           s == AddressAt(data, question, i)
           rd == RdataAt(data, i)
           x == At(data, rd - 1)
           l == AddrLen(KindAt(data, i))
<1>1. NextRecord(data, i) \in Nat /\ s \in Seq(Report(question)) /\ rd \in Nat
  BY RecordParts
<1>1a. x \in Nat /\ l \in Nat /\ Len(data) \in Nat
  BY RecordParts
<1>2. r \in AnswerType(question)
  BY <1>1
<1>3. rd + Larger(x, l) > Len(data) <=> (rd + x > Len(data) \/ rd + l > Len(data))
  <2> HIDE DEF rd, x, l
  <2>1. QED
    BY <1>1, <1>1a DEF Larger
<1>4. Incomplete(data, i) <=> (\/ ~Legal(Decoded(data, i)) \/ rd > Len(data)
                               \/ rd + Larger(x, l) > Len(data))
  BY <1>3 DEF Incomplete, NextRecord
<1>5. m = IF Unclear(data, i) THEN [clear |-> FALSE, list |-> <<>>]
          ELSE IF Incomplete(data, i) THEN [clear |-> TRUE, list |-> <<>>]
          ELSE [r EXCEPT !.list = s \o @]
  BY <1>4 DEF AddressesAt, Unclear, KindAt, RdataAt, NextRecord, AddressAt
<1> HIDE DEF m, r, s
<1>6. r.list \in Seq(Report(question))
  BY <1>2 DEF AnswerType
<1>7. s \o r.list \in Seq(Report(question))
  BY <1>1, <1>6, ConcatProperties
<1>8. <<>> \in Seq(Report(question))
  OBVIOUS
<1>9. CASE Unclear(data, i)
  <2>1. m = [clear |-> FALSE, list |-> <<>>]
    BY <1>5, <1>9
  <2>2. m \in AnswerType(question) /\ m.clear = FALSE /\ m.list = <<>>
    BY <1>8, <2>1 DEF AnswerType
  <2>3. QED
    BY <1>2, <1>9, <2>2 DEF m, r
<1>10. CASE ~Unclear(data, i) /\ Incomplete(data, i)
  <2>1. m = [clear |-> TRUE, list |-> <<>>]
    BY <1>5, <1>10
  <2>2. m \in AnswerType(question) /\ m.clear = TRUE /\ m.list = <<>>
    BY <1>8, <2>1 DEF AnswerType
  <2>3. QED
    BY <1>2, <1>10, <2>2 DEF m, r
<1>11. CASE ~Unclear(data, i) /\ ~Incomplete(data, i)
  <2> DEFINE t == s \o r.list
  <2>1. m = [r EXCEPT !.list = t]
    BY <1>5, <1>11
  <2>2. t \in Seq(Report(question))
    BY <1>7
  <2> HIDE DEF t
  <2>3. m \in AnswerType(question) /\ m.clear = r.clear /\ m.list = t
    BY <1>2, <2>1, <2>2 DEF AnswerType
  <2>4. QED
    BY <1>2, <1>11, <2>3 DEF m, r, t, s
<1>12. QED
  BY <1>9, <1>10, <1>11

\* The recursive definition has a value.
LEMMA AddressesFacts ==
  ASSUME NEW data \in Seq(Byte), NEW question
  PROVE  LET R == Addresses(data, question)
         IN  /\ R \in [Nat -> [Nat -> AnswerType(question)]]
             /\ R[0] = [i \in Nat |-> [clear |-> TRUE, list |-> <<>>]]
             /\ \A n \in Nat : R[n + 1] = [i \in Nat |-> AddressesAt(data, question, i, R[n])]
<1> DEFINE V == [Nat -> AnswerType(question)]
           v == [i \in Nat |-> [clear |-> TRUE, list |-> <<>>]]
           F == [rest \in V |-> [i \in Nat |-> AddressesAt(data, question, i, rest)]]
           Def(g) == [n \in Nat |-> IF n = 0 THEN v
                                    ELSE [i \in Nat |-> AddressesAt(data, question, i, g[n - 1])]]
<1>1. v \in V
  <2>1. <<>> \in Seq(Report(question))
    OBVIOUS
  <2>2. QED
    BY <2>1 DEF AnswerType
<1>2. F \in [V -> V]
  BY AddressesAtFacts
<1>3. PICK f \in [Nat -> V] : f[0] = v /\ \A n \in Nat : f[n + 1] = F[f[n]]
  <2> HIDE DEF V, v, F
  <2>1. Iterates(V, v, F) # {}
    BY <1>1, <1>2, Iteration
  <2>2. QED
    BY <2>1 DEF Iterates
<1>4. f = Def(f)
  <2>1. ASSUME NEW n \in Nat, n # 0
        PROVE  f[n] = [i \in Nat |-> AddressesAt(data, question, i, f[n - 1])]
    <3>1. n - 1 \in Nat /\ (n - 1) + 1 = n
      BY <2>1
    <3>2. f[n - 1] \in V /\ f[n] = F[f[n - 1]]
      BY <1>3, <3>1
    <3>3. QED
      BY <3>2
  <2>2. QED
    BY <1>3, <2>1
<1>5. Addresses(data, question) = CHOOSE g : g = Def(g)
  BY DEF Addresses
<1>6. Addresses(data, question) = Def(Addresses(data, question))
  <2> HIDE DEF Def
  <2>1. QED
    BY <1>4, <1>5
<1> DEFINE R == Addresses(data, question)
<1>7. R[0] = v
  BY <1>6
<1>8. ASSUME NEW n \in Nat PROVE R[n + 1] = [i \in Nat |-> AddressesAt(data, question, i, R[n])]
  <2>1. n + 1 \in Nat /\ n + 1 # 0 /\ (n + 1) - 1 = n
    OBVIOUS
  <2>2. QED
    BY <1>6, <2>1
<1>9. R = [n \in Nat |-> R[n]]
  <2> HIDE DEF R
  <2>1. R = Def(R)
    BY <1>6 DEF R
  <2>2. QED
    BY <2>1
<1> HIDE DEF R
<1>10. \A n \in Nat : R[n] \in V
  <2> DEFINE S == {n \in Nat : R[n] \in V}
  <2>1. 0 \in S
    BY <1>1, <1>7
  <2>2. ASSUME NEW n \in Nat, n \in S PROVE n + 1 \in S
    <3>1. R[n] \in V
      BY <2>2
    <3>2. F[R[n]] \in V /\ F[R[n]] = [i \in Nat |-> AddressesAt(data, question, i, R[n])]
      BY <1>2, <3>1
    <3>3. QED
      <4>1. R[n + 1] = [i \in Nat |-> AddressesAt(data, question, i, R[n])]
        BY <1>8
      <4> HIDE DEF V, F
      <4>2. R[n + 1] \in V
        BY <3>2, <4>1
      <4>3. QED
        BY <4>2
  <2> HIDE DEF S
  <2>3. \A n \in Nat : n \in S
    BY <2>1, <2>2, SetInduction
  <2>4. QED
    BY <2>3 DEF S
<1>11. R \in [Nat -> V]
  BY <1>9, <1>10
<1>12. QED
  BY <1>7, <1>8, <1>11 DEF R

\* One record more.
LEMMA AddressesStep ==
  ASSUME NEW data \in Seq(Byte), NEW question, NEW n \in Nat, n > 0, NEW i \in Nat
  PROVE  LET m == Addresses(data, question)[n][i]
             r == Addresses(data, question)[n - 1][NextRecord(data, i)]
         IN  /\ m \in AnswerType(question) /\ r \in AnswerType(question)
             /\ n = 1 => r.clear = TRUE /\ r.list = <<>>
             /\ IF Unclear(data, i) THEN m.clear = FALSE /\ m.list = <<>>
                ELSE IF Incomplete(data, i) THEN m.clear = TRUE /\ m.list = <<>>
                ELSE m.clear = r.clear /\ m.list = AddressAt(data, question, i) \o r.list
<1> DEFINE R == Addresses(data, question)
           j == n - 1
           rest == R[j]
           x == NextRecord(data, i)
<1>1. j \in Nat /\ n = j + 1 /\ (n = 1 => j = 0)
  OBVIOUS
<1> HIDE DEF j
<1>2. /\ rest \in [Nat -> AnswerType(question)]
      /\ R[n] = [k \in Nat |-> AddressesAt(data, question, k, rest)]
      /\ n = 1 => rest = [k \in Nat |-> [clear |-> TRUE, list |-> <<>>]]
  <2>1. R \in [Nat -> [Nat -> AnswerType(question)]]
    BY AddressesFacts
  <2>2. R[0] = [k \in Nat |-> [clear |-> TRUE, list |-> <<>>]]
    BY AddressesFacts
  <2>3. R[j + 1] = [k \in Nat |-> AddressesAt(data, question, k, R[j])]
    BY <1>1, AddressesFacts
  <2> HIDE DEF R
  <2>4. QED
    BY <1>1, <2>1, <2>2, <2>3
<1>4. x \in Nat
  BY RecordParts
<1> DEFINE m == AddressesAt(data, question, i, rest)
           r == rest[x]
<1>5. m = R[n][i]
  BY <1>2
<1>6. n = 1 => r.clear = TRUE /\ r.list = <<>>
  BY <1>2, <1>4
<1>7. /\ m \in AnswerType(question) /\ r \in AnswerType(question)
      /\ IF Unclear(data, i) THEN m.clear = FALSE /\ m.list = <<>>
         ELSE IF Incomplete(data, i) THEN m.clear = TRUE /\ m.list = <<>>
         ELSE m.clear = r.clear /\ m.list = AddressAt(data, question, i) \o r.list
  <2>1. rest \in [Nat -> AnswerType(question)]
    BY <1>2
  <2> HIDE DEF rest
  <2>2. QED
    BY <2>1, AddressesAtFacts
<1>8. r = Addresses(data, question)[n - 1][NextRecord(data, i)]
  BY DEF j
<1> HIDE DEF m, r
<1>9. QED
  BY <1>5, <1>6, <1>7, <1>8

\* What is handed to dns_resolved.
LEMMA ReportedFacts ==
  ASSUME DnsInv, parse.off > 0
  PROVE  /\ Reported(parse.off) \in Seq(Report(parse.question))
         /\ parse.off = Wanted.after /\ qname.text = Wanted.text =>
              /\ Reported(parse.off) = AddressAt(response.data, parse.question, qname.off)
              /\ AfterRecord(parse.off) = NextRecord(response.data, qname.off)
              /\ parse.off + RRFixed = RdataAt(response.data, qname.off)
              /\ Data(parse.off) = KindAt(response.data, qname.off)
<1> DEFINE d == response.data
           k == Data(parse.off)
           l == AddrLen(k)
           rd == parse.off + RRFixed
           ad == Copy(d, rd, l)
           t == SubSeq(qname.text, 1, Len(qname.text) - 1)
           q == parse.question
           this == [question |-> q, name |-> NameRead, kind |-> k, addr |-> ad]
<1>1. d \in Seq(Byte) /\ parse.off \in Int /\ qname.text \in Seq(Nat)
  BY MessageFacts
<1>2. RRFixed \in Nat /\ ALen \in Nat /\ AAAALen \in Nat
  BY DnsAssumption
<1>3. rd \in Int
  BY <1>1, <1>2
<1>4. k \in Nat
  BY <1>1, DataFacts
<1>5. l \in Nat
  BY <1>2 DEF AddrLen, A, AAAA
<1> HIDE DEF rd, k, l
<1>6. ad \in Seq(Nat)
  BY <1>1, <1>3, <1>5, CopyFacts
<1>7. t \in Seq(Nat)
  <2> DEFINE x == qname.text
             n == Len(x) - 1
  <2>1. x \in Seq(Nat) /\ Len(x) \in Nat
    BY <1>1
  <2>2. n \in Int /\ n <= Len(x)
    BY <2>1
  <2> HIDE DEF x, n
  <2>3. SubSeq(x, 1, n) \in Seq(Nat)
    BY <2>1, <2>2
  <2>4. QED
    BY <2>3 DEF x, n
<1>8. NameRead \in {CString(s) : s \in Seq(Nat)}
  BY <1>7 DEF NameRead
<1> HIDE DEF ad, q
<1>9. this \in Report(q)
  BY <1>4, <1>6, <1>8 DEF Report
<1>10. <<this>> \in Seq(Report(q)) /\ <<>> \in Seq(Report(q))
  <2> HIDE DEF this
  <2>1. QED
    BY <1>9
<1>11. Reported(parse.off) = IF k \in {A, AAAA} THEN <<this>> ELSE <<>>
  BY DEF Reported, k, rd, l, ad, q
<1>12. Reported(parse.off) \in Seq(Report(q))
  <2> HIDE DEF this
  <2>1. QED
    BY <1>10, <1>11
<1>13. ASSUME parse.off = Wanted.after, qname.text = Wanted.text
       PROVE  /\ Reported(parse.off) = AddressAt(d, q, qname.off)
              /\ AfterRecord(parse.off) = NextRecord(d, qname.off)
              /\ rd = RdataAt(d, qname.off) /\ k = KindAt(d, qname.off)
  <2>1. rd = RdataAt(d, qname.off) /\ k = KindAt(d, qname.off)
    BY <1>13 DEF RdataAt, KindAt, Wanted, Data, rd, k
  <2>2. NameRead = Spelled(Decoded(d, qname.off).text)
    BY <1>13 DEF NameRead, Spelled, Wanted
  <2>3. Reported(parse.off) = AddressAt(d, q, qname.off)
    BY <1>11, <2>1, <2>2 DEF AddressAt, l, ad
  <2>4. AfterRecord(parse.off) = NextRecord(d, qname.off)
    <3> DEFINE z == RdataAt(d, qname.off)
    <3>1. AfterRecord(parse.off) = rd + At(d, rd - 1)
      <4>1. parse.off + RRFixed - 1 = rd - 1
        BY <1>1, <1>2 DEF rd
      <4>2. QED
        BY <4>1 DEF AfterRecord, Data, rd
    <3>2. NextRecord(d, qname.off) = z + At(d, z - 1)
      BY DEF NextRecord
    <3>3. z = rd
      BY <2>1
    <3> HIDE DEF z
    <3>4. QED
      BY <3>1, <3>2, <3>3
  <2>5. QED
    BY <2>1, <2>3, <2>4
<1>14. QED
  BY <1>12, <1>13 DEF q, rd, k

\* An answer that is read is the first of those still to come, and one that is
\* refused ends them, unless it is one that is not clear.
LEMMA RecordRead ==
  ASSUME DnsInv, NameInv, parse.pc = "answer", NEW n \in Nat, n > 0
  PROVE  LET R == Addresses(response.data, parse.question)
             m == R[n][qname.off]
             r == R[n - 1][AfterRecord(parse.off)]
         IN  \/ ~m.clear /\ m.list = <<>>
             \/ /\ ReadAnswer => /\ m.clear <=> r.clear
                                 /\ m.list = Reported(parse.off) \o r.list
                                 /\ r.list \in Seq(Report(parse.question))
                                 /\ n = 1 => r.clear /\ r.list = <<>>
                /\ RefuseAnswer => m.clear /\ m.list = <<>>
<1> DEFINE d == response.data
           i == qname.off
           q == parse.question
           R == Addresses(d, q)
           m == R[n][i]
           x == NextRecord(d, i)
           r == R[n - 1][x]
           w == Wanted
           rd == RdataAt(d, i)
           l == AddrLen(KindAt(d, i))
<1>1. d \in Seq(Byte) /\ i \in Nat /\ parse.off \in Int /\ Size = Len(d) /\ Size \in Nat
  BY MessageFacts DEF Size
<1>2. /\ m \in AnswerType(q) /\ r \in AnswerType(q)
      /\ n = 1 => r.clear = TRUE /\ r.list = <<>>
      /\ IF Unclear(d, i) THEN m.clear = FALSE /\ m.list = <<>>
         ELSE IF Incomplete(d, i) THEN m.clear = TRUE /\ m.list = <<>>
         ELSE m.clear = r.clear /\ m.list = AddressAt(d, q, i) \o r.list
  BY <1>1, AddressesStep
<1> HIDE DEF m, r, q
<1> SUFFICES ASSUME ~Unclear(d, i)
             PROVE  /\ ReadAnswer => LET s == R[n - 1][AfterRecord(parse.off)]
                                     IN  /\ m.clear <=> s.clear
                                         /\ m.list = Reported(parse.off) \o s.list
                                         /\ s.list \in Seq(Report(q))
                                         /\ n = 1 => s.clear /\ s.list = <<>>
                    /\ RefuseAnswer => m.clear /\ m.list = <<>>
  BY <1>2 DEF m, q
<1>3. ~Unclear(d, i)
  OBVIOUS
<1>4. /\ Legal(w) => parse.off # Fail /\ qname.text = w.text
      /\ Legal(w) /\ ~Mixed(d, i) => parse.off = w.after
      /\ parse.off # Fail => w.ok /\ w.text # <<>> /\ parse.off > 0
  <2>1. Returned
    BY DEF Returned
  <2>2. QED
    BY <2>1 DEF NameInv, NameDecoded, Accepted, Wanted
<1>5. parse.off > 0 => Legal(w) /\ ~Mixed(d, i)
  <2>1. parse.off > 0 => parse.off # Fail
    BY <1>1 DEF Fail
  <2>2. QED
    BY <1>3, <1>4, <2>1 DEF Unclear, Wanted
<1>6. ASSUME parse.off > 0
      PROVE  /\ Reported(parse.off) = AddressAt(d, q, i) /\ AfterRecord(parse.off) = x
             /\ parse.off + RRFixed = rd /\ Data(parse.off) = KindAt(d, i)
             /\ At(d, rd - 1) = Data(parse.off + RRFixed - 1)
             /\ Legal(Decoded(d, i))
  <2>1. Legal(w) /\ parse.off = w.after /\ qname.text = w.text
    BY <1>4, <1>5, <1>6
  <2>2. /\ Reported(parse.off) = AddressAt(d, q, i) /\ AfterRecord(parse.off) = x
        /\ parse.off + RRFixed = rd /\ Data(parse.off) = KindAt(d, i)
    BY <1>6, <2>1, ReportedFacts DEF q
  <2> HIDE DEF rd, x
  <2>3. At(d, rd - 1) = Data(parse.off + RRFixed - 1)
    <3> DEFINE y == parse.off + RRFixed
    <3>1. y = rd /\ Data(y - 1) = At(d, y - 1)
      BY <2>2 DEF Data
    <3>2. y - 1 = parse.off + RRFixed - 1
      BY <1>1, DnsAssumption
    <3> HIDE DEF y
    <3>3. At(d, rd - 1) = Data(y - 1)
      BY <3>1
    <3>4. QED
      BY <3>2, <3>3
  <2>4. QED
    BY <2>1, <2>2, <2>3 DEF Wanted
<1>7. rd \in Nat /\ l \in Nat /\ At(d, rd - 1) \in Nat /\ x = rd + At(d, rd - 1)
  BY <1>1, RecordParts DEF NextRecord
<1>8. ASSUME parse.off > 0
      PROVE  Incomplete(d, i) <=>
               \/ parse.off + RRFixed > Size
               \/ parse.off + RRFixed + Data(parse.off + RRFixed - 1) > Size
               \/ parse.off + RRFixed + AddrLen(Data(parse.off)) > Size
  BY <1>1, <1>6, <1>7, <1>8 DEF Incomplete
<1>9. ASSUME ReadAnswer
      PROVE  LET s == R[n - 1][AfterRecord(parse.off)]
             IN  /\ m.clear <=> s.clear
                 /\ m.list = Reported(parse.off) \o s.list
                 /\ s.list \in Seq(Report(q))
                 /\ n = 1 => s.clear /\ s.list = <<>>
  <2>1. /\ parse.off > 0 /\ parse.off + RRFixed <= Size
        /\ parse.off + RRFixed + Data(parse.off + RRFixed - 1) <= Size
        /\ parse.off + RRFixed + AddrLen(Data(parse.off)) <= Size
    BY <1>9 DEF ReadAnswer
  <2>2. ~Incomplete(d, i)
    <3> DEFINE a == parse.off + RRFixed
               b == Data(parse.off + RRFixed - 1)
               c == AddrLen(Data(parse.off))
    <3>1. a \in Nat /\ b \in Nat /\ c \in Nat
      BY <1>6, <1>7, <2>1
    <3>2. Incomplete(d, i) <=> (a > Size \/ a + b > Size \/ a + c > Size)
      BY <1>8, <2>1
    <3>3. a <= Size /\ a + b <= Size /\ a + c <= Size
      BY <2>1
    <3> HIDE DEF a, b, c
    <3>4. QED
      BY <1>1, <3>1, <3>2, <3>3
  <2>3. m.clear = r.clear /\ m.list = AddressAt(d, q, i) \o r.list
    BY <1>2, <1>3, <2>2
  <2>4. r = R[n - 1][AfterRecord(parse.off)]
    BY <1>6, <2>1 DEF r
  <2>5. r.list \in Seq(Report(q))
    BY <1>2 DEF AnswerType
  <2> HIDE DEF R
  <2>6. QED
    BY <1>2, <1>6, <2>1, <2>3, <2>4, <2>5
<1>10. ASSUME RefuseAnswer PROVE m.clear /\ m.list = <<>>
  <2>1. CASE parse.off > 0
    <3>1. Incomplete(d, i)
      <4>1. ~(parse.off <= 0)
        BY <1>1, <2>1
      <4>2. \/ parse.off + RRFixed > Size
            \/ parse.off + RRFixed + Data(parse.off + RRFixed - 1) > Size
            \/ parse.off + RRFixed + AddrLen(Data(parse.off)) > Size
        BY <1>10, <4>1 DEF RefuseAnswer
      <4>3. QED
        BY <1>8, <2>1, <4>2
    <3>2. QED
      BY <1>2, <1>3, <3>1
  <2>2. CASE ~(parse.off > 0)
    <3>1. ~Legal(w)
      BY <1>4, <2>2
    <3>2. Incomplete(d, i)
      BY <3>1 DEF Incomplete, Wanted
    <3>3. QED
      BY <1>2, <1>3, <3>2
  <2>3. QED
    BY <2>1, <2>2
<1>11. QED
  BY <1>9, <1>10

\* The parser's own locals when get_qname is called.
LEMMA CallParse ==
  ASSUME DnsInv, NEW p, DOMAIN p = ParseFields, NEW off, NEW to, NEW before,
         Call(p, off, to, before)
  PROVE  /\ parse'.pc \in {"name", to} /\ parse'.to = to /\ parse'.a = p.a
         /\ parse'.question = p.question /\ parse'.reported = p.reported
         /\ qname'.off = off
<1>1. CASE off < Size
  <2>1. parse' = [p EXCEPT !.pc = "name", !.to = to] /\ qname'.off = off
    BY <1>1 DEF Call
  <2>2. QED
    BY <2>1 DEF ParseFields
<1>2. CASE ~(off < Size)
  <2>1. /\ parse' = [p EXCEPT !.pc = to, !.to = to, !.off = Fail]
        /\ qname' = [qname EXCEPT !.off = off, !.text = <<>>]
    BY <1>2 DEF Call
  <2>2. qname'.off = off
    BY <2>1 DEF DnsInv, QnameType
  <2>3. QED
    BY <2>1, <2>2 DEF ParseFields
<1>3. QED
  BY <1>1, <1>2

\* While a name is read, nothing is said or unsaid of the answers.
LEMMA NameAside ==
  ASSUME DnsInv, AnswerInv, FollowPointer \/ CopyLabel \/ RefuseName \/ EndName
  PROVE  AnswerInv'
<1>1. DOMAIN parse = ParseFields /\ parse.to \in {"question", "answer"} /\ qname \in QnameType
  BY DEF DnsInv
<1>2. response' = response /\ parse.pc = "name"
  BY DEF FollowPointer, CopyLabel, RefuseName, EndName, InLoop
<1>3. /\ parse'.pc \in {"name", parse.to} /\ parse'.to = parse.to /\ parse'.a = parse.a
      /\ parse'.question = parse.question /\ parse'.reported = parse.reported
      /\ qname'.off = qname.off
  <2>1. CASE FollowPointer
    <3>1. parse' = parse /\ qname'.off = qname.off
      BY <1>1, <2>1 DEF FollowPointer, QnameType
    <3>2. QED
      BY <1>2, <3>1
  <2>2. CASE CopyLabel
    <3>1. parse' = parse /\ qname'.off = qname.off
      BY <1>1, <2>2 DEF CopyLabel, QnameType
    <3>2. QED
      BY <1>2, <3>1
  <2>3. CASE RefuseName \/ EndName
    <3>1. PICK f : parse' = [parse EXCEPT !.pc = parse.to, !.off = f] /\ qname' = qname
      BY <2>3 DEF RefuseName, EndName, Return
    <3>2. QED
      BY <1>1, <3>1 DEF ParseFields
  <2>4. QED
    BY <2>1, <2>2, <2>3
<1>4. /\ FirstName' = FirstName /\ IsAnswer' = IsAnswer /\ Sure' = Sure /\ Whole' = Whole
      /\ ToCome' = ToCome
  BY <1>2, <1>3 DEF FirstName, IsAnswer, Sure, Whole, ToCome, OfMessage, Size
<1>5. (Asking' <=> Asking) /\ (InAnswers' <=> InAnswers)
  BY <1>1, <1>2, <1>3 DEF Asking, InAnswers
<1>6. Split' = Split /\ Told' = Told
  BY <1>2, <1>3, <1>4 DEF Split, Told, Size
<1>7. AnswersReported'
  BY <1>1, <1>3 DEF AnswersReported
<1>8. Progress'
  BY <1>1, <1>2, <1>3, <1>4, <1>5, <1>6, <1>7 DEF Progress, AnswerInv
<1>9. QED
  BY <1>5, <1>6, <1>8 DEF AnswerInv

\* The end of the first question, as a number.
LEMMA OffsetFacts ==
  ASSUME DnsInv
  PROVE  FirstName.after + QFixed \in Nat /\ Size \in Nat
<1>1. HeaderLen \in Nat /\ QFixed \in Nat
  BY DnsAssumption
<1>2. FirstName \in NameType
  BY <1>1, MessageFacts, DecodedStep DEF FirstName
<1>3. FirstName.after \in Nat
  BY <1>2 DEF NameType
<1>4. Size \in Nat
  BY MessageFacts DEF Size
<1>5. QED
  BY <1>1, <1>3, <1>4

\* The header and the question: what follows the question is all the message has.
LEMMA QuestionAsked ==
  ASSUME DnsInv, NameInv, AnswerInv, CheckHeader \/ ReadQuestion
  PROVE  AnswerInv'
<1>1. DOMAIN parse = ParseFields /\ parse.off \in Int /\ Size \in Nat
  BY MessageFacts DEF DnsInv
<1>2. response' = response
  BY DEF CheckHeader, ReadQuestion
<1>3. FirstName' = FirstName /\ IsAnswer' = IsAnswer /\ Sure' = Sure /\ Whole' = Whole /\ Size' = Size
  BY <1>2 DEF FirstName, IsAnswer, Sure, Whole, OfMessage, Size
<1>4. parse.a = 0 /\ parse.reported = <<>>
  BY DEF AnswerInv, Progress, Asking, CheckHeader, ReadQuestion
<1>5. CASE CheckHeader
  <2>1. CASE IsAnswer
    <3> DEFINE b == HeaderLen - 1
    <3>1. Call(parse, HeaderLen, "question", b)
      BY <1>5, <2>1 DEF CheckHeader
    <3> HIDE DEF b
    <3>2. /\ parse'.pc \in {"name", "question"} /\ parse'.to = "question" /\ parse'.a = parse.a
          /\ parse'.reported = parse.reported /\ qname'.off = HeaderLen
      BY <1>1, <3>1, CallParse
    <3>3. ~InAnswers' /\ AnswersReported'
      BY <3>2 DEF InAnswers, AnswersReported
    <3>4. QED
      BY <1>3, <1>4, <2>1, <3>2, <3>3 DEF AnswerInv, Progress
  <2>2. CASE ~IsAnswer
    <3>1. parse'.pc = "done" /\ parse'.reported = <<>>
      BY <1>1, <1>4, <1>5, <2>2 DEF CheckHeader, Done, ParseFields
    <3>2. ~InAnswers' /\ ~Asking'
      BY <3>1 DEF InAnswers, Asking
    <3>3. AnswersReported'
      BY <1>3, <2>2, <3>1 DEF AnswersReported
    <3>4. QED
      BY <3>1, <3>2, <3>3 DEF AnswerInv, Progress
  <2>3. QED
    BY <2>1, <2>2
<1>6. CASE ReadQuestion
  <2>1. parse.pc = "question" /\ IsAnswer /\ qname.off = HeaderLen
    BY <1>6 DEF ReadQuestion, AnswerInv, Progress, Asking
  <2>2. /\ Legal(FirstName) => parse.off # Fail /\ qname.text = FirstName.text
        /\ Sure => parse.off = FirstName.after
        /\ parse.off # Fail => FirstName.ok /\ FirstName.text # <<>> /\ parse.off > 0
    BY <2>1 DEF NameInv, NameDecoded, Accepted, Wanted, Returned, FirstName, Sure
  <2>3. CASE parse.off > 0 /\ parse.off + QFixed <= Size
    <3> DEFINE p == [parse EXCEPT !.question = NameRead]
               o == parse.off + QFixed
               b == parse.off + QFixed - 1
    <3>1. Call(p, o, "answer", b)
      BY <1>6, <2>3 DEF ReadQuestion
    <3>2. DOMAIN p = ParseFields /\ p.a = 0 /\ p.reported = <<>> /\ p.question = NameRead
      BY <1>1, <1>4 DEF ParseFields
    <3> HIDE DEF p, b
    <3>3. /\ parse'.pc \in {"name", "answer"} /\ parse'.to = "answer" /\ parse'.a = 0
          /\ parse'.reported = <<>> /\ parse'.question = NameRead /\ qname'.off = o
      <4> HIDE DEF o
      <4>1. QED
        BY <3>1, <3>2, CallParse
    <3>4. InAnswers' /\ ~Asking' /\ AnswersReported'
      BY <3>3 DEF InAnswers, Asking, AnswersReported
    <3>5. Told'
      BY <3>3 DEF Told
    <3>6. FirstName.ok /\ FirstName.text # <<>>
      BY <1>1, <2>2, <2>3 DEF Fail
    <3>7. response.acount \in Nat /\ response.acount > 0
      BY <2>1 DEF IsAnswer, DnsInv, Response
    <3>8. parse'.a \in 0..(response'.acount - 1)
      BY <1>2, <3>3, <3>7
    <3>9. ASSUME Sure PROVE Split'
      <4>1. o = FirstName.after + QFixed /\ NameRead = Spelled(FirstName.text)
        BY <2>2, <3>9 DEF Sure, NameRead, Spelled
      <4>2. response'.acount - parse'.a = response.acount
        BY <1>2, <3>3, <3>7
      <4>3. ToCome' = Whole
        BY <1>2, <3>3, <4>1, <4>2 DEF ToCome, Whole, OfMessage, FirstName
      <4>4. Whole.list \in Seq(Report(Spelled(FirstName.text)))
        <5> DEFINE q == Spelled(FirstName.text)
                   i == FirstName.after + QFixed
                   n == response.acount
        <5>1. response.data \in Seq(Byte)
          BY MessageFacts
        <5>2. i \in Nat
          <6>1. HeaderLen \in Nat /\ QFixed \in Nat
            BY DnsAssumption
          <6>2. FirstName \in NameType
            BY <5>1, <6>1, DecodedStep DEF FirstName
          <6>3. FirstName.after \in Nat
            BY <6>2 DEF NameType
          <6>4. QED
            BY <6>1, <6>3
        <5>3. Whole = Addresses(response.data, q)[n][i]
          BY DEF Whole, OfMessage
        <5> HIDE DEF q, i, n
        <5>4. Whole \in AnswerType(q)
          BY <3>7, <5>1, <5>2, <5>3, AddressesStep DEF n
        <5>5. QED
          BY <5>4 DEF AnswerType, q
      <4>5. Whole.list = <<>> \o Whole.list
        BY <4>4, ConcatEmptySeq
      <4> HIDE DEF o
      <4>6. o <= Size
        BY <2>3 DEF o
      <4>7. QED
        BY <1>3, <3>3, <4>1, <4>3, <4>5, <4>6 DEF Split
    <3>10. QED
      BY <1>3, <2>1, <3>3, <3>4, <3>5, <3>6, <3>8, <3>9 DEF AnswerInv, Progress
  <2>4. CASE ~(parse.off > 0 /\ parse.off + QFixed <= Size)
    <3>1. parse'.pc = "done" /\ parse'.reported = <<>>
      BY <1>1, <1>4, <1>6, <2>4 DEF ReadQuestion, Done, ParseFields
    <3>2. ~InAnswers' /\ ~Asking'
      BY <3>1 DEF InAnswers, Asking
    <3> DEFINE k == FirstName.after + QFixed
    <3>3. Sure => k > Size
      <4>1. ASSUME Sure PROVE ~(k <= Size)
        BY <2>2, <2>4, <4>1 DEF Sure, Fail
      <4>2. k \in Nat /\ Size \in Nat
        BY OffsetFacts
      <4> HIDE DEF k
      <4>3. QED
        BY <4>1, <4>2
    <3>4. AnswersReported'
      BY <1>2, <1>3, <3>1, <3>3 DEF AnswersReported, Sure, FirstName
    <3>5. QED
      BY <3>1, <3>2, <3>4 DEF AnswerInv, Progress
  <2>5. QED
    BY <2>3, <2>4
<1>7. QED
  BY <1>5, <1>6

\* A list that gets longer starts with what it started with.
LEMMA StaysWith ==
  ASSUME NEW S, NEW t \in Seq(S), NEW s \in Seq(S), NEW first, StartsWith(t, first)
  PROVE  StartsWith(t \o s, first)
<1> DEFINE u == t \o s
           m == Len(t)
           n == Len(s)
<1>1. m \in Nat /\ n \in Nat /\ DOMAIN t = 1..m
  BY LenProperties
<1>2. /\ u \in Seq(S) /\ Len(u) = m + n
      /\ \A i \in 1..(m + n) : u[i] = IF i <= m THEN t[i] ELSE s[i - m]
  BY ConcatProperties
<1>3. DOMAIN u = 1..(m + n)
  BY <1>2, LenProperties
<1> HIDE DEF u, m, n
<1>4. ASSUME NEW i \in DOMAIN first PROVE i \in DOMAIN u /\ u[i] = first[i]
  <2>1. i \in 1..m /\ t[i] = first[i]
    BY <1>1, <1>4 DEF StartsWith
  <2>2. i \in 1..(m + n) /\ i <= m
    BY <1>1, <2>1
  <2>3. u[i] = t[i]
    BY <1>2, <2>2
  <2>4. QED
    BY <1>3, <2>1, <2>2, <2>3
<1>5. QED
  BY <1>4 DEF StartsWith, u

\* The parser ends while it reads answers.
LEMMA AnswersEnd ==
  ASSUME DnsInv, AnswerInv, parse.pc = "answer", UNCHANGED response, parse'.pc = "done",
         Sure => IF Whole.clear THEN parse'.reported = Whole.list
                 ELSE StartsWith(parse'.reported, Whole.list)
  PROVE  AnswerInv'
<1>1. InAnswers
  BY DEF AnswerInv, Progress, InAnswers
<1>2. IsAnswer /\ FirstName.ok /\ FirstName.text # <<>> /\ (Sure => FirstName.after + QFixed <= Size)
  BY <1>1 DEF AnswerInv, Progress, Split
<1> DEFINE k == FirstName.after + QFixed
<1>3. FirstName' = FirstName /\ IsAnswer' = IsAnswer /\ Sure' = Sure /\ Whole' = Whole /\ Size' = Size
  BY DEF FirstName, IsAnswer, Sure, Whole, OfMessage, Size
<1>4. AnswersReported'
  <=> (parse'.pc = "done" =>
         /\ ~IsAnswer \/ ~FirstName.ok \/ FirstName.text = <<>> => parse'.reported = <<>>
         /\ IsAnswer /\ Sure =>
              IF k > Size THEN parse'.reported = <<>>
              ELSE IF Whole.clear THEN parse'.reported = Whole.list
              ELSE StartsWith(parse'.reported, Whole.list))
  BY <1>3 DEF AnswersReported, FirstName, Whole, OfMessage, Sure, StartsWith
<1>5. AnswersReported'
  <2>1. Sure => ~(k > Size)
    BY <1>2, OffsetFacts
  <2> HIDE DEF k
  <2>2. QED
    BY <1>2, <1>4, <2>1
<1>6. ~InAnswers' /\ ~Asking'
  BY DEF InAnswers, Asking
<1>7. QED
  BY <1>5, <1>6 DEF AnswerInv, Progress

\* An answer is reported, or the rest of the message is not read.
LEMMA AnswersRead ==
  ASSUME DnsInv, NameInv, AnswerInv, ReadAnswer \/ RefuseAnswer
  PROVE  AnswerInv'
<1> DEFINE d == response.data
           q == parse.question
           n == response.acount - parse.a
           R == Addresses(d, q)
           m == R[n][qname.off]
           x == AfterRecord(parse.off)
           r == R[n - 1][x]
           s == Reported(parse.off)
           t == parse.reported
<1>1. /\ parse.pc = "answer" /\ response' = response /\ DOMAIN parse = ParseFields
      /\ parse.off \in Int
  BY MessageFacts DEF DnsInv, ReadAnswer, RefuseAnswer
<1>2. InAnswers /\ t \in Seq(Report(q))
  BY <1>1 DEF AnswerInv, Progress, InAnswers, Told
<1>3. /\ IsAnswer /\ FirstName.ok /\ FirstName.text # <<>>
      /\ parse.a \in 0..(response.acount - 1) /\ (Sure => Split)
  BY <1>2 DEF AnswerInv, Progress
<1>4. response.acount \in Nat /\ response.acount > 0
  BY <1>3 DEF IsAnswer, DnsInv, Response
<1>5. parse.a \in Nat /\ n \in Nat /\ n > 0 /\ parse.a + 1 \in Nat
      /\ response.acount - (parse.a + 1) = n - 1 /\ (parse.a + 1 < response.acount <=> n # 1)
  BY <1>3, <1>4
<1> HIDE DEF n
<1>6. \/ ~m.clear /\ m.list = <<>>
      \/ /\ ReadAnswer => /\ m.clear <=> r.clear
                          /\ m.list = s \o r.list /\ r.list \in Seq(Report(q))
                          /\ n = 1 => r.clear /\ r.list = <<>>
         /\ RefuseAnswer => m.clear /\ m.list = <<>>
  BY <1>1, <1>5, RecordRead
<1>7. Sure => \/ (Whole.clear <=> m.clear) /\ Whole.list = t \o m.list
              \/ ~Whole.clear /\ StartsWith(t, Whole.list)
  <2>1. Sure => R = OfMessage
    BY <1>3 DEF Split, OfMessage
  <2>2. Sure => m = ToCome
    <3> HIDE DEF R
    <3>1. QED
      BY <2>1 DEF ToCome, n
  <2>3. QED
    BY <1>3, <2>2 DEF Split
<1> HIDE DEF m, r, s, t, R, q
<1>8. CASE RefuseAnswer
  <2>1. parse'.pc = "done" /\ parse'.reported = t
    BY <1>1, <1>8 DEF RefuseAnswer, Done, ParseFields, t
  <2>2. Sure => IF Whole.clear THEN parse'.reported = Whole.list
                ELSE StartsWith(parse'.reported, Whole.list)
    <3>1. t \o <<>> = t
      BY <1>2, ConcatEmptySeq
    <3>2. StartsWith(t, t)
      BY DEF StartsWith
    <3>3. QED
      BY <1>6, <1>7, <1>8, <2>1, <3>1, <3>2
  <2>3. QED
    BY <1>1, <2>1, <2>2, AnswersEnd
<1>9. CASE ReadAnswer
  <2> DEFINE p == [parse EXCEPT !.a = @ + 1, !.reported = @ \o Reported(parse.off)]
             b == parse.off + RRFixed + AddrLen(Data(parse.off)) - 1
             u == t \o s
  <2>1. /\ parse.off > 0
        /\ IF parse.a + 1 < response.acount THEN Call(p, x, "answer", b)
           ELSE parse' = [p EXCEPT !.pc = "done"]
    BY <1>9 DEF ReadAnswer
  <2>2. DOMAIN p = ParseFields /\ p.a = parse.a + 1 /\ p.reported = u /\ p.question = q
    BY <1>1 DEF ParseFields, t, s, q
  <2>3. s \in Seq(Report(q))
    BY <2>1, ReportedFacts DEF s, q
  <2>4. u \in Seq(Report(q))
    BY <1>2, <2>3, ConcatProperties
  <2>5. ASSUME Sure
        PROVE  \/ /\ Whole.clear <=> r.clear
                  /\ Whole.list = u \o r.list
                  /\ n = 1 => Whole.clear /\ Whole.list = u
               \/ ~Whole.clear /\ StartsWith(u, Whole.list)
    <3> DEFINE z == r.list
    <3>1. CASE ~Whole.clear /\ StartsWith(t, Whole.list)
      <4>1. StartsWith(t \o s, Whole.list)
        BY <1>2, <2>3, <3>1, StaysWith
      <4>2. QED
        BY <3>1, <4>1
    <3>2. CASE (Whole.clear <=> m.clear) /\ Whole.list = t \o m.list /\ ~m.clear /\ m.list = <<>>
      <4>1. Whole.list = t
        BY <1>2, <3>2, ConcatEmptySeq
      <4>2. StartsWith(t, t)
        BY DEF StartsWith
      <4>3. StartsWith(t \o s, t)
        BY <1>2, <2>3, <4>2, StaysWith
      <4>4. QED
        BY <3>2, <4>1, <4>3
    <3>3. CASE /\ Whole.clear <=> m.clear
               /\ Whole.list = t \o m.list
               /\ m.clear <=> r.clear
               /\ m.list = s \o z /\ z \in Seq(Report(q))
               /\ n = 1 => r.clear /\ z = <<>>
      <4> HIDE DEF z
      <4>1. (t \o s) \o z = t \o (s \o z)
        BY <1>2, <2>3, <3>3, ConcatAssociative
      <4>2. Whole.list = u \o z
        BY <3>3, <4>1
      <4> HIDE DEF u
      <4>3. u \o <<>> = u
        BY <2>4, ConcatEmptySeq
      <4>4. QED
        BY <3>3, <4>2, <4>3 DEF z
    <3>4. QED
      BY <1>6, <1>7, <1>9, <2>5, <3>1, <3>2, <3>3
  <2> HIDE DEF p, b, u
  <2>6. CASE n = 1
    <3>1. parse' = [p EXCEPT !.pc = "done"]
      BY <1>5, <2>1, <2>6
    <3>2. parse'.pc = "done" /\ parse'.reported = u
      BY <2>2, <3>1 DEF ParseFields
    <3>3. Sure => IF Whole.clear THEN parse'.reported = Whole.list
                  ELSE StartsWith(parse'.reported, Whole.list)
      BY <2>5, <2>6, <3>2
    <3>4. QED
      BY <1>1, <3>2, <3>3, AnswersEnd
  <2>7. CASE n # 1
    <3>1. Call(p, x, "answer", b)
      BY <1>5, <2>1, <2>7
    <3> HIDE DEF x
    <3>2. /\ parse'.pc \in {"name", "answer"} /\ parse'.to = "answer" /\ parse'.a = parse.a + 1
          /\ parse'.reported = u /\ parse'.question = q /\ qname'.off = x
      BY <2>2, <3>1, CallParse
    <3>3. InAnswers' /\ ~Asking' /\ AnswersReported'
      BY <3>2 DEF InAnswers, Asking, AnswersReported
    <3>4. Told'
      BY <2>4, <3>2 DEF Told
    <3>5. /\ FirstName' = FirstName /\ IsAnswer' = IsAnswer /\ Sure' = Sure /\ Whole' = Whole
          /\ Size' = Size
      BY <1>1 DEF FirstName, IsAnswer, Sure, Whole, OfMessage, Size
    <3>6. parse'.a \in 0..(response'.acount - 1)
      <4>1. parse.a + 1 < response.acount
        BY <1>5, <2>7
      <4>2. parse.a + 1 \in 0..(response.acount - 1)
        BY <1>4, <1>5, <4>1
      <4>3. QED
        BY <1>1, <3>2, <4>2
    <3>7. ASSUME Sure PROVE Split'
      <4>1. FirstName.after + QFixed <= Size /\ q = Spelled(FirstName.text)
        BY <1>3, <3>7 DEF Split, q
      <4>2. ToCome' = r
        <5>1. response'.acount - parse'.a = n - 1
          BY <1>1, <1>5, <3>2
        <5>2. OfMessage' = R
          BY <1>1, <3>5, <4>1 DEF OfMessage, R
        <5>3. QED
          BY <3>2, <5>1, <5>2 DEF ToCome, r
      <4>3. QED
        BY <2>5, <3>2, <3>5, <3>7, <4>1, <4>2 DEF Split
    <3>8. QED
      BY <1>3, <3>2, <3>3, <3>4, <3>5, <3>6, <3>7 DEF AnswerInv, Progress
  <2>8. QED
    BY <2>6, <2>7
<1>10. QED
  BY <1>8, <1>9

\* Nothing is reported at first.
LEMMA AnswerStarts == DnsInit => AnswerInv
BY DEF DnsInit, NoParse, AnswerInv, Progress, Asking, InAnswers, AnswersReported

\* Every step keeps the split of the message's addresses.
LEMMA AnswerKept == DnsInv /\ NameInv /\ AnswerInv /\ [DnsNext]_dnsVars => AnswerInv'
<1> SUFFICES ASSUME DnsInv, NameInv, AnswerInv, [DnsNext]_dnsVars PROVE AnswerInv'
  OBVIOUS
<1>1. CASE CheckHeader \/ ReadQuestion
  BY <1>1, QuestionAsked
<1>2. CASE ReadAnswer \/ RefuseAnswer
  BY <1>2, AnswersRead
<1>3. CASE FollowPointer \/ CopyLabel \/ RefuseName \/ EndName
  BY <1>3, NameAside
<1>4. CASE UNCHANGED dnsVars
  BY <1>4 DEF dnsVars, AnswerInv, Progress, Asking, InAnswers, AnswersReported, Told, Split,
              Sure, FirstName, IsAnswer, Whole, ToCome, OfMessage, Size
<1>5. QED
  BY <1>1, <1>2, <1>3, <1>4 DEF DnsNext

\* For every message the end of whose question get_qname finds: every address is
\* reported once, in the order of the message, with its own name and that of the
\* question, up to the first record that is not complete, and nothing else is.  At a
\* record whose name has labels in front of a pointer, or is beyond the limits of
\* get_qname, the claim ends: what is in front of it is reported, and nothing is
\* said of what the code, which then reads at a wrong offset, reports behind it.
\* Messages that are no answers, or have no name as their question, report nothing.
THEOREM AnswerSafety == DnsSpec => []AnswersReported
<1>1. DnsInit => DnsInv /\ NameInv /\ AnswerInv
  BY DnsStarts, NameStarts, AnswerStarts
<1>2. DnsInv /\ NameInv /\ AnswerInv /\ [DnsNext]_dnsVars => (DnsInv /\ NameInv /\ AnswerInv)'
  BY DnsKeeps, NameKept, AnswerKept
<1>3. AnswerInv => AnswersReported
  BY DEF AnswerInv, Progress
<1>4. QED
  BY <1>1, <1>2, <1>3, PTL DEF DnsSpec

(***************************************************************************)
(* The bytes of a client hello.                                            *)
(***************************************************************************)
\* u is s with t behind it.
Joined(u, s, t) == u = s \o t

\* What is read of it.
Reads(u, s, t) ==
  /\ \A i \in Nat : i < Len(s) => At(u, i) = At(s, i)
  /\ \A i \in Nat : At(u, Len(s) + i) = At(t, i)
  /\ \A i \in Nat : i + 1 < Len(s) => Word(u, i) = Word(s, i)
  /\ \A i \in Nat : Word(u, Len(s) + i) = Word(t, i)

\* Two buffers, one behind the other, are read as the first and then the second.
LEMMA AtConcat ==
  ASSUME NEW s \in Seq(Nat), NEW t \in Seq(Nat), NEW u, Joined(u, s, t)
  PROVE  u \in Seq(Nat) /\ Len(u) = Len(s) + Len(t) /\ Reads(u, s, t)
<1> DEFINE a == Len(s)
           b == Len(t)
<1>1. u \in Seq(Nat)
  BY ConcatProperties DEF Joined
<1>2. Len(u) = a + b /\ a \in Nat /\ b \in Nat
  BY ConcatProperties DEF Joined
<1>3. \A i \in 1..(a + b) : u[i] = IF i <= a THEN s[i] ELSE t[i - a]
  BY ConcatProperties DEF Joined
<1> HIDE DEF a, b
<1>4. ASSUME NEW i \in Nat, i < a PROVE At(u, i) = At(s, i)
  <2>1. i + 1 \in 1..(a + b) /\ i + 1 <= a /\ i \in 0..(a + b - 1) /\ i \in 0..(a - 1)
    BY <1>2, <1>4
  <2>2. At(u, i) = u[i + 1] /\ At(s, i) = s[i + 1]
    BY <1>2, <2>1 DEF At, a
  <2>3. QED
    BY <1>3, <2>1, <2>2
<1>5. ASSUME NEW i \in Nat PROVE At(u, a + i) = At(t, i)
  <2>1. CASE i < b
    <3>1. /\ a + i + 1 \in 1..(a + b) /\ ~(a + i + 1 <= a) /\ (a + i + 1) - a = i + 1
          /\ a + i \in 0..(a + b - 1) /\ i \in 0..(b - 1)
      BY <1>2, <2>1
    <3>2. At(u, a + i) = u[a + i + 1] /\ At(t, i) = t[i + 1]
      BY <1>2, <3>1 DEF At, b
    <3>3. QED
      BY <1>3, <3>1, <3>2
  <2>2. CASE ~(i < b)
    <3>1. a + i \notin 0..(a + b - 1) /\ i \notin 0..(b - 1)
      BY <1>2, <2>2
    <3>2. QED
      BY <1>2, <3>1 DEF At, b
  <2>3. QED
    BY <2>1, <2>2
<1>6. ASSUME NEW i \in Nat, i + 1 < a PROVE Word(u, i) = Word(s, i)
  <2>1. i < a /\ i + 1 \in Nat
    BY <1>2, <1>6
  <2>2. At(u, i) = At(s, i) /\ At(u, i + 1) = At(s, i + 1)
    BY <1>4, <1>6, <2>1
  <2>3. QED
    BY <2>2 DEF Word
<1>7. ASSUME NEW i \in Nat PROVE Word(u, a + i) = Word(t, i)
  <2>1. a + (i + 1) = (a + i) + 1 /\ i + 1 \in Nat
    BY <1>2
  <2>2. At(u, a + i) = At(t, i) /\ At(u, (a + i) + 1) = At(t, i + 1)
    BY <1>5, <2>1
  <2>3. QED
    BY <2>2 DEF Word
<1>8. Reads(u, s, t)
  BY <1>4, <1>5, <1>6, <1>7 DEF Reads, a
<1>9. QED
  BY <1>1, <1>2, <1>8 DEF a, b

\* A number that is written in two bytes is read from them.
LEMMA TwoBytesRead ==
  ASSUME NEW n \in Nat
  PROVE  TwoBytes(n) \in Seq(Nat) /\ Len(TwoBytes(n)) = 2 /\ Word(TwoBytes(n), 0) = n
<1> DEFINE q == n \div Radix
           r == n % Radix
<1>1. Radix \in Nat /\ Radix > 1
  BY RadixAssumption
<1>2. q \in Nat /\ r \in Nat /\ q * Radix + r = n
  BY <1>1
<1>3. TwoBytes(n) = <<q, r>>
  BY DEF TwoBytes
<1> HIDE DEF q, r
<1>4. TwoBytes(n) \in Seq(Nat) /\ Len(TwoBytes(n)) = 2
  BY <1>2, <1>3
<1>5. At(<<q, r>>, 0) = q /\ At(<<q, r>>, 1) = r
  BY <1>2 DEF At
<1>6. QED
  BY <1>2, <1>3, <1>4, <1>5 DEF Word

\* The bytes of a server name extension.
LEMMA NameBytes ==
  ASSUME NEW text \in Seq(Nat)
  PROVE  LET n == Len(text)
             b == TwoBytes(n + 3) \o <<HOST_NAME>> \o TwoBytes(n) \o text
         IN  /\ b \in Seq(Nat) /\ Len(b) = n + 5
             /\ Word(b, 0) = n + 3 /\ At(b, 2) = HOST_NAME /\ Word(b, 3) = n
             /\ \A i \in Nat : At(b, 5 + i) = At(text, i)
<1> DEFINE n == Len(text)
           p == TwoBytes(n + 3)
           z == <<HOST_NAME>>
           q == TwoBytes(n)
           pz == p \o z
           pzq == pz \o q
           b == pzq \o text
<1>1. n \in Nat /\ n + 3 \in Nat
  OBVIOUS
<1>2. p \in Seq(Nat) /\ Len(p) = 2 /\ Word(p, 0) = n + 3
  BY <1>1, TwoBytesRead
<1>3. q \in Seq(Nat) /\ Len(q) = 2 /\ Word(q, 0) = n
  BY <1>1, TwoBytesRead
<1>4. z \in Seq(Nat) /\ Len(z) = 1 /\ At(z, 0) = HOST_NAME
  BY DEF At, HOST_NAME
<1> HIDE DEF p, q, z
<1>5a. Joined(pz, p, z)
  BY DEF Joined
<1> HIDE DEF pz
<1>5. pz \in Seq(Nat) /\ Len(pz) = 3 /\ Word(pz, 0) = n + 3 /\ At(pz, 2) = HOST_NAME
  <2>1. pz \in Seq(Nat) /\ Len(pz) = Len(p) + Len(z) /\ Reads(pz, p, z)
    BY <1>2, <1>4, <1>5a, AtConcat
  <2>2. QED
    BY <1>2, <1>4, <2>1 DEF Reads
<1>6a. Joined(pzq, pz, q)
  BY DEF Joined
<1> HIDE DEF pzq
<1>6. /\ pzq \in Seq(Nat) /\ Len(pzq) = 5 /\ Word(pzq, 0) = n + 3 /\ At(pzq, 2) = HOST_NAME
      /\ Word(pzq, 3) = n
  <2>1. pzq \in Seq(Nat) /\ Len(pzq) = Len(pz) + Len(q) /\ Reads(pzq, pz, q)
    BY <1>3, <1>5, <1>6a, AtConcat
  <2>2. QED
    BY <1>3, <1>5, <2>1 DEF Reads
<1>7a. Joined(b, pzq, text)
  BY DEF Joined
<1> HIDE DEF b
<1>7. /\ b \in Seq(Nat) /\ Len(b) = n + 5 /\ Word(b, 0) = n + 3 /\ At(b, 2) = HOST_NAME
      /\ Word(b, 3) = n /\ \A i \in Nat : At(b, 5 + i) = At(text, i)
  <2>1. b \in Seq(Nat) /\ Len(b) = Len(pzq) + Len(text) /\ Reads(b, pzq, text)
    BY <1>6, <1>7a, AtConcat
  <2>2. QED
    BY <1>1, <1>6, <2>1 DEF Reads
<1>8. b = TwoBytes(n + 3) \o <<HOST_NAME>> \o TwoBytes(n) \o text
  BY DEF b, pzq, pz, p, z, q
<1>9. QED
  BY <1>7, <1>8

\* An extension as the proofs see it.
Ext == [type : Nat, text : Seq(Nat)]

\* The bytes of the body of an extension, and of one with its head.
LEMMA ExtensionBytes ==
  ASSUME NEW e \in Ext
  PROVE  /\ BodyOf(e) \in Seq(Nat) /\ ExtensionOf(e) \in Seq(Nat)
         /\ Len(ExtensionOf(e)) = Len(BodyOf(e)) + 4
         /\ Word(ExtensionOf(e), 0) = e.type
         /\ Word(ExtensionOf(e), 2) = Len(BodyOf(e))
         /\ \A i \in Nat : At(ExtensionOf(e), 4 + i) = At(BodyOf(e), i)
<1> DEFINE ty == e.type
           b == BodyOf(e)
           n == Len(b)
           p == TwoBytes(ty)
           q == TwoBytes(n)
           pq == p \o q
           x == pq \o b
<1>0. e.type \in Nat /\ e.text \in Seq(Nat)
  BY DEF Ext
<1>1. b \in Seq(Nat)
  <2>1. CASE e.type # SERVER_NAME
    BY <1>0, <2>1 DEF BodyOf
  <2>2. CASE e.type = SERVER_NAME
    <3> DEFINE c == TwoBytes(Len(e.text) + 3) \o <<HOST_NAME>> \o TwoBytes(Len(e.text)) \o e.text
    <3>1. c \in Seq(Nat)
      BY <1>0, NameBytes
    <3>2. b = c
      BY <2>2 DEF BodyOf
    <3>3. QED
      BY <3>1, <3>2
  <2>3. QED
    BY <2>1, <2>2
<1>2. x = ExtensionOf(e)
  BY DEF ExtensionOf
<1> HIDE DEF b
<1>3. n \in Nat /\ ty \in Nat
  BY <1>0, <1>1
<1> HIDE DEF n, ty
<1>4. p \in Seq(Nat) /\ Len(p) = 2 /\ Word(p, 0) = ty
  BY <1>3, TwoBytesRead
<1>5. q \in Seq(Nat) /\ Len(q) = 2 /\ Word(q, 0) = n
  BY <1>3, TwoBytesRead
<1> HIDE DEF p, q
<1>6. Joined(pq, p, q) /\ Joined(x, pq, b)
  BY DEF Joined
<1> HIDE DEF pq, x
<1>7. pq \in Seq(Nat) /\ Len(pq) = 4 /\ Word(pq, 0) = ty /\ Word(pq, 2) = n
  <2>1. pq \in Seq(Nat) /\ Len(pq) = Len(p) + Len(q) /\ Reads(pq, p, q)
    BY <1>4, <1>5, <1>6, AtConcat
  <2>2. QED
    BY <1>3, <1>4, <1>5, <2>1 DEF Reads
<1>8. x \in Seq(Nat) /\ Len(x) = Len(pq) + Len(b) /\ Reads(x, pq, b)
  BY <1>1, <1>6, <1>7, AtConcat
<1>9. /\ Len(x) = n + 4 /\ Word(x, 0) = ty /\ Word(x, 2) = n
      /\ \A i \in Nat : At(x, 4 + i) = At(b, i)
  <2>1. Len(b) = n
    BY DEF n
  <2>2. Len(x) = n + 4
    BY <1>3, <1>7, <1>8, <2>1
  <2>3. Word(x, 0) = ty /\ Word(x, 2) = n
    BY <1>7, <1>8 DEF Reads
  <2>4. \A i \in Nat : At(x, 4 + i) = At(b, i)
    BY <1>7, <1>8 DEF Reads
  <2>5. QED
    BY <2>2, <2>3, <2>4
<1>10. QED
  BY <1>1, <1>2, <1>8, <1>9 DEF b, n, ty

\* The sequences of the first extensions' bytes.
Listings(X, k) ==
  {f \in [0..k -> Seq(Nat)] : f[0] = <<>> /\ \A i \in 1..k : f[i] = f[i - 1] \o X[i]}

\* They exist.
LEMMA ListingsExist ==
  ASSUME NEW m \in Nat, NEW X \in [1..m -> Seq(Nat)]
  PROVE  Listings(X, m) # {}
<1> DEFINE S == {k \in Nat : k <= m => Listings(X, k) # {}}
<1>1. 0 \in S
  <2> DEFINE f == [i \in 0..0 |-> <<>>]
  <2>1. f \in [0..0 -> Seq(Nat)] /\ f[0] = <<>> /\ \A i \in 1..0 : FALSE
    OBVIOUS
  <2> HIDE DEF f
  <2>2. f \in Listings(X, 0)
    BY <2>1 DEF Listings
  <2>3. QED
    BY <2>2
<1>2. ASSUME NEW k \in Nat, k \in S PROVE k + 1 \in S
  <2>1. SUFFICES ASSUME k + 1 <= m PROVE Listings(X, k + 1) # {}
    OBVIOUS
  <2>2. k <= m /\ k + 1 \in 1..m
    BY <2>1
  <2>3. PICK f \in Listings(X, k) : TRUE
    BY <1>2, <2>2
  <2>4. /\ f \in [0..k -> Seq(Nat)] /\ f[0] = <<>>
        /\ \A i \in 1..k : f[i] = f[i - 1] \o X[i]
    BY DEF Listings
  <2> DEFINE v == f[k] \o X[k + 1]
             g == [i \in 0..(k + 1) |-> IF i = k + 1 THEN v ELSE f[i]]
  <2>5. v \in Seq(Nat)
    <3>1. f[k] \in Seq(Nat) /\ X[k + 1] \in Seq(Nat)
      BY <2>2, <2>4
    <3>2. QED
      BY <3>1, ConcatProperties
  <2> DEFINE V == Seq(Nat)
  <2>6. g \in [0..(k + 1) -> V]
    <3>1. f \in [0..k -> V] /\ v \in V
      BY <2>4, <2>5
    <3> HIDE DEF v, V
    <3>2. QED
      BY <3>1
  <2>7. g[0] = <<>>
    BY <2>4
  <2>8. ASSUME NEW i \in 1..(k + 1) PROVE g[i] = g[i - 1] \o X[i]
    <3>1. i - 1 \in 0..(k + 1) /\ i - 1 # k + 1 /\ i \in 0..(k + 1)
      BY <2>8
    <3>2. g[i - 1] = f[i - 1]
      BY <3>1
    <3>3. CASE i = k + 1
      <4>1. i - 1 = k
        BY <3>3
      <4>2. g[i] = v
        BY <3>1, <3>3
      <4>3. QED
        BY <3>2, <3>3, <4>1, <4>2
    <3>4. CASE i # k + 1
      <4>1. i \in 1..k
        BY <2>8, <3>4
      <4>2. g[i] = f[i]
        BY <3>1, <3>4
      <4>3. QED
        BY <2>4, <3>2, <4>1, <4>2
    <3>5. QED
      BY <3>3, <3>4
  <2> HIDE DEF g
  <2>9. g \in Listings(X, k + 1)
    BY <2>6, <2>7, <2>8 DEF Listings
  <2>10. QED
    BY <2>9
<1> HIDE DEF S
<1>3. m \in S
  BY <1>1, <1>2, SetInduction
<1>4. QED
  BY <1>3 DEF S

\* The bytes of the first extensions, one after the other.
LEMMA EncodedFacts ==
  ASSUME NEW exts \in Seq(Ext)
  PROVE  LET E == EncodedUpTo(exts)
         IN  /\ E[0] = <<>>
             /\ \A i \in 1..Len(exts) : E[i] = E[i - 1] \o ExtensionOf(exts[i])
             /\ \A i \in 0..Len(exts) : E[i] \in Seq(Nat)
<1> DEFINE m == Len(exts)
           X == [i \in 1..m |-> ExtensionOf(exts[i])]
           Def(g) == [i \in 0..m |-> IF i = 0 THEN <<>> ELSE g[i - 1] \o ExtensionOf(exts[i])]
           E == EncodedUpTo(exts)
<1>1. m \in Nat /\ \A i \in 1..m : exts[i] \in Ext
  OBVIOUS
<1>2. E = CHOOSE g : g = Def(g)
  BY DEF EncodedUpTo
<1>3. X \in [1..m -> Seq(Nat)] /\ \A i \in 1..m : X[i] = ExtensionOf(exts[i])
  <2> HIDE DEF m
  <2>1. QED
    BY <1>1, ExtensionBytes
<1> HIDE DEF m, X, E
<1>4. PICK f \in Listings(X, m) : TRUE
  BY <1>1, <1>3, ListingsExist
<1>5. f \in [0..m -> Seq(Nat)] /\ f[0] = <<>> /\ \A i \in 1..m : f[i] = f[i - 1] \o X[i]
  BY DEF Listings
<1>6. f = Def(f)
  <2>1. ASSUME NEW i \in 0..m
        PROVE  f[i] = IF i = 0 THEN <<>> ELSE f[i - 1] \o ExtensionOf(exts[i])
    <3>1. CASE i = 0
      BY <1>5, <3>1
    <3>2. CASE i # 0
      <4>1. i \in 1..m
        BY <1>1, <3>2
      <4>2. QED
        BY <1>3, <1>5, <3>2, <4>1
    <3>3. QED
      BY <3>1, <3>2
  <2>2. f = [i \in 0..m |-> f[i]]
    BY <1>5
  <2>3. QED
    BY <2>1, <2>2
<1>7. E = Def(E)
  <2> HIDE DEF Def
  <2>1. QED
    BY <1>2, <1>6
<1>8. E[0] = <<>>
  BY <1>1, <1>7
<1>9. ASSUME NEW i \in 1..m PROVE E[i] = E[i - 1] \o ExtensionOf(exts[i])
  <2>1. i \in 0..m /\ i # 0
    BY <1>1, <1>9
  <2>2. QED
    BY <1>7, <2>1
<1> HIDE DEF Def
<1>10. ASSUME NEW i \in 0..m PROVE E[i] \in Seq(Nat)
  <2> DEFINE S == {k \in Nat : k <= m => E[k] \in Seq(Nat)}
  <2>1. 0 \in S
    <3>1. E[0] \in Seq(Nat)
      <4>1. <<>> \in Seq(Nat)
        OBVIOUS
      <4>2. QED
        BY <1>8, <4>1, Zenon
    <3>2. QED
      BY <3>1
  <2>2. ASSUME NEW k \in Nat, k \in S PROVE k + 1 \in S
    <3>1. SUFFICES ASSUME k + 1 <= m PROVE E[k + 1] \in Seq(Nat)
      OBVIOUS
    <3>2. k <= m /\ k + 1 \in 1..m /\ (k + 1) - 1 = k
      BY <1>1, <3>1
    <3>3. E[k] \in Seq(Nat) /\ ExtensionOf(exts[k + 1]) \in Seq(Nat)
      BY <1>1, <2>2, <3>2, ExtensionBytes
    <3>4. E[k + 1] = E[k] \o ExtensionOf(exts[k + 1])
      BY <1>9, <3>2
    <3>5. QED
      BY <3>3, <3>4, ConcatProperties
  <2> HIDE DEF S
  <2>3. i \in S
    <3>1. i \in Nat
      BY <1>10
    <3>2. QED
      BY <2>1, <2>2, <3>1, SetInduction
  <2>4. i <= m /\ i \in Nat
    BY <1>1, <1>10
  <2>5. QED
    BY <2>3, <2>4 DEF S
<1>11. QED
  BY <1>8, <1>9, <1>10 DEF E, m

\* What follows the first k extensions.
Rests(exts, k) ==
  {r \in Seq(Nat) : /\ EncodedExtensions(exts) = EncodedUpTo(exts)[k] \o r
                    /\ IF k < Len(exts) THEN Len(r) >= 4 ELSE Len(r) = 0}

\* Something follows unless they are all.
LEMMA RestsExist ==
  ASSUME NEW exts \in Seq(Ext), NEW k \in 0..Len(exts)
  PROVE  Rests(exts, k) # {}
<1> DEFINE m == Len(exts)
           E == EncodedUpTo(exts)
           S == {d \in Nat : d <= m => Rests(exts, m - d) # {}}
<1>1. m \in Nat /\ \A i \in 1..m : exts[i] \in Ext
  OBVIOUS
<1>2. /\ \A i \in 1..m : E[i] = E[i - 1] \o ExtensionOf(exts[i])
      /\ \A i \in 0..m : E[i] \in Seq(Nat)
  BY EncodedFacts
<1>3. EncodedExtensions(exts) = E[m]
  BY DEF EncodedExtensions
<1>k. k \in Nat /\ k <= m
  BY <1>1
<1> HIDE DEF m, E
<1>4. 0 \in S
  <2>1. E[m] \in Seq(Nat)
    BY <1>1, <1>2
  <2>2. E[m] = E[m] \o <<>>
    BY <2>1, ConcatEmptySeq
  <2>3. <<>> \in Seq(Nat) /\ Len(<<>>) = 0 /\ ~(m < Len(exts)) /\ m - 0 = m
    BY <1>1 DEF m
  <2>4. <<>> \in Rests(exts, m)
    BY <1>3, <2>2, <2>3 DEF Rests, E
  <2>5. QED
    BY <2>3, <2>4
<1>5. ASSUME NEW d \in Nat, d \in S PROVE d + 1 \in S
  <2>1. SUFFICES ASSUME d + 1 <= m PROVE Rests(exts, m - (d + 1)) # {}
    OBVIOUS
  <2> DEFINE j == m - d
             x == ExtensionOf(exts[j])
  <2>2. /\ j \in 1..m /\ j \in 0..m /\ j - 1 \in 0..m /\ j - 1 = m - (d + 1) /\ j - 1 < m
        /\ d <= m
    BY <1>1, <2>1
  <2>3. PICK r \in Rests(exts, j) : TRUE
    BY <1>5, <2>2
  <2> HIDE DEF j
  <2>4. r \in Seq(Nat) /\ E[m] = E[j] \o r /\ Len(r) \in Nat
    <3>1. r \in Seq(Nat) /\ E[m] = E[j] \o r
      BY <1>3 DEF Rests, E
    <3>2. QED
      BY <3>1
  <2>5. x \in Seq(Nat) /\ Len(x) >= 4
    <3>1. exts[j] \in Ext
      BY <1>1, <2>2
    <3>2. BodyOf(exts[j]) \in Seq(Nat) /\ x \in Seq(Nat) /\ Len(x) = Len(BodyOf(exts[j])) + 4
      BY <3>1, ExtensionBytes
    <3>3. QED
      BY <3>2
  <2>6. E[j] = E[j - 1] \o x /\ E[j - 1] \in Seq(Nat)
    BY <1>2, <2>2
  <2> HIDE DEF x
  <2>7. E[m] = E[j - 1] \o (x \o r)
    <3> DEFINE a == E[j - 1]
    <3>1. a \in Seq(Nat) /\ E[m] = (a \o x) \o r
      BY <2>4, <2>6
    <3> HIDE DEF a
    <3>2. (a \o x) \o r = a \o (x \o r)
      BY <2>4, <2>5, <3>1, NatConcat, Zenon
    <3>3. QED
      BY <3>1, <3>2 DEF a
  <2>8. x \o r \in Seq(Nat) /\ Len(x \o r) = Len(x) + Len(r)
    <3>1. x \o r \in Seq(Nat)
      BY <2>4, <2>5, ConcatProperties
    <3>2. Len(x \o r) = Len(x) + Len(r)
      BY <2>4, <2>5, ConcatProperties
    <3>3. QED
      BY <3>1, <3>2
  <2> DEFINE y == x \o r
  <2>9. y \in Seq(Nat) /\ Len(y) >= 4 /\ E[m] = E[j - 1] \o y
    <3>1. Len(x \o r) >= 4
      BY <2>4, <2>5, <2>8
    <3>2. QED
      BY <2>7, <2>8, <3>1
  <2> HIDE DEF y
  <2>10. y \in Rests(exts, j - 1)
    BY <1>3, <2>2, <2>9 DEF Rests, E, m
  <2>11. QED
    BY <2>2, <2>10
<1> HIDE DEF S
<1>6. m - k \in S /\ m - k \in Nat /\ m - (m - k) = k
  <2>1. m - k \in Nat /\ m - (m - k) = k
    BY <1>1, <1>k
  <2>2. QED
    BY <1>4, <1>5, <2>1, SetInduction
<1>7. QED
  BY <1>1, <1>k, <1>6 DEF S

\* What the parser reads of the next extension, e, at offset o of those of a hello.
Laid(ex, o, e) ==
  /\ Word(ex, o) = e.type
  /\ Word(ex, o + 2) = Len(BodyOf(e))
  /\ \A i \in Nat : i < Len(BodyOf(e)) => At(ex, o + 4 + i) = At(BodyOf(e), i)

\* The k + 1st extension lies behind the first k, and something behind it unless
\* it is the last.
LEMMA ExtensionLaid ==
  ASSUME NEW exts \in Seq(Ext), NEW k \in 0..Len(exts), k < Len(exts)
  PROVE  LET ex == EncodedExtensions(exts)
             o == Len(EncodedUpTo(exts)[k])
             p == Len(EncodedUpTo(exts)[k + 1])
         IN  /\ ex \in Seq(Nat) /\ o \in Nat
             /\ p = o + 4 + Len(BodyOf(exts[k + 1]))
             /\ IF k + 1 < Len(exts) THEN p + 4 <= Len(ex) ELSE p = Len(ex)
             /\ Laid(ex, o, exts[k + 1])
<1> DEFINE m == Len(exts)
           E == EncodedUpTo(exts)
           f == E[k]
           g == E[k + 1]
           e == exts[k + 1]
           b == BodyOf(e)
           x == ExtensionOf(e)
           ex == EncodedExtensions(exts)
<1>1. k \in Nat /\ m \in Nat /\ k + 1 \in 1..m /\ k + 1 \in 0..m /\ (k + 1) - 1 = k /\ e \in Ext
  OBVIOUS
<1>2. f \in Seq(Nat) /\ g \in Seq(Nat) /\ Joined(g, f, x)
  BY <1>1, EncodedFacts DEF Joined
<1>3. PICK r \in Rests(exts, k + 1) : TRUE
  BY <1>1, RestsExist
<1>4. /\ r \in Seq(Nat) /\ Joined(ex, g, r)
      /\ IF k + 1 < m THEN Len(r) >= 4 ELSE Len(r) = 0
  BY DEF Rests, Joined
<1>5. /\ b \in Seq(Nat) /\ x \in Seq(Nat) /\ Len(x) = Len(b) + 4
      /\ Word(x, 0) = e.type /\ Word(x, 2) = Len(b)
      /\ \A i \in Nat : At(x, 4 + i) = At(b, i)
  BY <1>1, ExtensionBytes
<1> DEFINE ty == e.type
           n == Len(b)
           o == Len(f)
           p == Len(g)
           l == Len(ex)
           q == Len(r)
<1>6. /\ Len(x) = n + 4 /\ n \in Nat /\ o \in Nat /\ q \in Nat
      /\ Word(x, 0) = ty /\ Word(x, 2) = n
  <2> HIDE DEF f, x, b, e
  <2>1. n \in Nat /\ o \in Nat /\ q \in Nat
    <3>1. f \in Seq(Nat) /\ b \in Seq(Nat) /\ r \in Seq(Nat)
      BY <1>2, <1>4, <1>5
    <3>2. QED
      BY <3>1
  <2>2. QED
    BY <1>5, <2>1
<1> HIDE DEF m, E, f, g, x, ex
<1>7. g \in Seq(Nat) /\ p = o + Len(x) /\ Reads(g, f, x)
  BY <1>2, <1>5, AtConcat
<1>8. ex \in Seq(Nat) /\ l = p + q /\ Reads(ex, g, r)
  BY <1>2, <1>4, AtConcat
<1> HIDE DEF ty, n, p, q, o, l
<1>9. p = o + 4 + n /\ p \in Nat
  BY <1>6, <1>7
<1>10. IF k + 1 < m THEN p + 4 <= l ELSE p = l
  <2>1. IF k + 1 < m THEN q >= 4 ELSE q = 0
    BY <1>4 DEF q
  <2>2. QED
    BY <1>6, <1>8, <1>9, <2>1
<1>11. Word(ex, o) = ty
  <2>1. Word(g, o + 0) = Word(x, 0)
    BY <1>7 DEF Reads, o
  <2>2. o + 0 = o /\ o + 1 < p
    BY <1>6, <1>9
  <2>3. Word(ex, o) = Word(g, o)
    BY <1>6, <1>8, <2>2 DEF Reads, p
  <2>4. QED
    BY <1>6, <2>1, <2>2, <2>3
<1>12. Word(ex, o + 2) = n
  <2>1. Word(g, o + 2) = Word(x, 2)
    BY <1>7 DEF Reads, o
  <2>2. o + 2 \in Nat /\ (o + 2) + 1 < p
    BY <1>6, <1>9
  <2>3. Word(ex, o + 2) = Word(g, o + 2)
    BY <1>8, <2>2 DEF Reads, p
  <2>4. QED
    BY <1>6, <2>1, <2>3
<1>13. ASSUME NEW i \in Nat, i < n PROVE At(ex, o + 4 + i) = At(b, i)
  <2> DEFINE j == o + 4 + i
  <2>1. j \in Nat /\ j < p /\ j = o + (4 + i) /\ 4 + i \in Nat
    BY <1>6, <1>9, <1>13
  <2>2. At(g, o + (4 + i)) = At(x, 4 + i)
    BY <1>7, <2>1 DEF Reads, o
  <2> HIDE DEF j
  <2>3. At(ex, j) = At(g, j)
    BY <1>8, <2>1 DEF Reads, p
  <2>4. At(x, 4 + i) = At(b, i)
    BY <1>5
  <2>5. QED
    BY <2>1, <2>2, <2>3, <2>4 DEF j
<1>14. Laid(ex, o, e)
  BY <1>11, <1>12, <1>13 DEF Laid, ty, n
<1>15. QED
  BY <1>6, <1>8, <1>9, <1>10, <1>14 DEF m, E, f, g, ex, n, p, o, l

\* A hello's parts.
LEMMA HelloFacts ==
  ASSUME NEW h \in Hello
  PROVE  h.session \in Nat /\ h.suites \in Nat /\ h.compression \in Nat /\ h.exts \in Seq(Ext)
<1> DEFINE B == [type : Nat, text : Seq(Byte)]
           x == h.exts
<1>1. h.session \in Nat /\ h.suites \in Nat /\ h.compression \in Nat /\ x \in Seq(B)
  BY DEF Hello
<1>2. ASSUME NEW e \in B PROVE e \in Ext
  <2>1. e.text \in Seq(Byte) /\ Byte \subseteq Nat
    BY RadixAssumption DEF Byte
  <2> DEFINE t == e.text
  <2>2. t \in [1..Len(t) -> Nat] /\ Len(t) \in Nat
    <3>1. t \in Seq(Byte)
      BY <2>1
    <3> HIDE DEF t
    <3>2. Len(t) \in Nat /\ t = [i \in 1..Len(t) |-> t[i]] /\ \A i \in 1..Len(t) : t[i] \in Byte
      BY <3>1
    <3>3. QED
      BY <2>1, <3>2
  <2>3. t \in Seq(Nat)
    <3> HIDE DEF t
    <3>1. QED
      BY <2>2
  <2>4. QED
    BY <2>3 DEF Ext
<1> HIDE DEF B, x
<1>3. Len(x) \in Nat /\ x = [i \in 1..Len(x) |-> x[i]] /\ \A i \in 1..Len(x) : x[i] \in B
  BY <1>1
<1>4. x \in [1..Len(x) -> Ext]
  BY <1>2, <1>3
<1>5. x \in Seq(Ext)
  BY <1>3, <1>4
<1>6. QED
  BY <1>1, <1>5 DEF x

\* u begins as s does.
Extends(u, s) ==
  /\ Len(s) <= Len(u)
  /\ \A i \in Nat : i < Len(s) => At(u, i) = At(s, i)
  /\ \A i \in Nat : i + 1 < Len(s) => Word(u, i) = Word(s, i)

\* A buffer with something behind it.
LEMMA JoinExtends ==
  ASSUME NEW s \in Seq(Nat), NEW t \in Seq(Nat), NEW u, Joined(u, s, t)
  PROVE  u \in Seq(Nat) /\ Len(u) = Len(s) + Len(t) /\ Extends(u, s)
<1>1. u \in Seq(Nat) /\ Len(u) = Len(s) + Len(t) /\ Reads(u, s, t)
  BY AtConcat
<1>2. Len(s) <= Len(u)
  BY <1>1
<1>3. QED
  BY <1>1, <1>2 DEF Extends, Reads

\* And with more behind that.
LEMMA ExtendsMore ==
  ASSUME NEW s \in Seq(Nat), NEW u \in Seq(Nat), NEW v \in Seq(Nat), Extends(v, u), Extends(u, s)
  PROVE  Extends(v, s)
<1>1. Len(s) \in Nat /\ Len(u) \in Nat /\ Len(v) \in Nat /\ Len(s) <= Len(u) /\ Len(u) <= Len(v)
  BY DEF Extends
<1>2. Len(s) <= Len(v)
  BY <1>1
<1>3. ASSUME NEW i \in Nat, i < Len(s) PROVE At(v, i) = At(s, i)
  <2>1. i < Len(u)
    BY <1>1, <1>3
  <2>2. QED
    BY <1>3, <2>1 DEF Extends
<1>4. ASSUME NEW i \in Nat, i + 1 < Len(s) PROVE Word(v, i) = Word(s, i)
  <2>1. i + 1 < Len(u)
    BY <1>1, <1>4
  <2>2. QED
    BY <1>4, <2>1 DEF Extends
<1>5. QED
  BY <1>2, <1>3, <1>4 DEF Extends

\* A part whose content does not matter.
LEMMA ZerosFacts ==
  ASSUME NEW n \in Nat
  PROVE  Zeros(n) \in Seq(Nat) /\ Len(Zeros(n)) = n
<1>1. Zeros(n) \in [1..n -> Nat]
  BY DEF Zeros
<1>2. QED
  BY <1>1

\* What the parser reads of the head of a hello.
HelloHead(d, h, n) ==
  /\ At(d, Fixed) = h.session
  /\ Word(d, Fixed + 1 + h.session) = h.suites
  /\ At(d, Fixed + 3 + h.session + h.suites) = h.compression
  /\ Word(d, ExtensionsAt(h) - 2) = n

\* The bytes of a hello.
LEMMA HelloLayout ==
  ASSUME NEW h \in Hello
  PROVE  LET d == Encoded(h)
             ex == EncodedExtensions(h.exts)
         IN  /\ d \in Seq(Nat) /\ ex \in Seq(Nat) /\ Len(d) = ExtensionsAt(h) + Len(ex)
             /\ HelloHead(d, h, Len(ex))
             /\ \A i \in Nat : At(d, ExtensionsAt(h) + i) = At(ex, i)
             /\ \A i \in Nat : Word(d, ExtensionsAt(h) + i) = Word(ex, i)
<1> DEFINE s == h.session
           u == h.suites
           c == h.compression
           F == Fixed
           ea == ExtensionsAt(h)
           ex == EncodedExtensions(h.exts)
           n == Len(ex)
           z == Zeros(F)
           bs == <<s>>
           zs == Zeros(s)
           tu == TwoBytes(u)
           zu == Zeros(u)
           bc == <<c>>
           zc == Zeros(c)
           tn == TwoBytes(n)
           p1 == z \o bs
           p2 == p1 \o zs
           p3 == p2 \o tu
           p4 == p3 \o zu
           p5 == p4 \o bc
           p6 == p5 \o zc
           p7 == p6 \o tn
           d == p7 \o ex
<1>1. d = Encoded(h)
  BY DEF Encoded
<1>2. s \in Nat /\ u \in Nat /\ c \in Nat /\ F \in Nat /\ h.exts \in Seq(Ext)
  BY HelloFacts, TlsAssumption
<1>3. ex \in Seq(Nat)
  <2> DEFINE x == h.exts
             m == Len(x)
  <2>1. x \in Seq(Ext) /\ ex = EncodedUpTo(x)[m]
    BY <1>2 DEF EncodedExtensions
  <2> HIDE DEF x
  <2>2. m \in 0..m
    BY <2>1
  <2>3. QED
    BY <2>1, <2>2, EncodedFacts
<1>4. ea = F + s + u + c + 6
  BY DEF ExtensionsAt
<1>5. /\ Joined(p1, z, bs) /\ Joined(p2, p1, zs) /\ Joined(p3, p2, tu) /\ Joined(p4, p3, zu)
      /\ Joined(p5, p4, bc) /\ Joined(p6, p5, zc) /\ Joined(p7, p6, tn) /\ Joined(d, p7, ex)
  BY DEF Joined
<1> HIDE DEF d, p1, p2, p3, p4, p5, p6, p7, ex
<1>6. n \in Nat
  BY <1>3
<1> HIDE DEF s, u, c, F, ea, n
<1>7. /\ z \in Seq(Nat) /\ Len(z) = F /\ zs \in Seq(Nat) /\ Len(zs) = s
      /\ zu \in Seq(Nat) /\ Len(zu) = u /\ zc \in Seq(Nat) /\ Len(zc) = c
  BY <1>2, ZerosFacts
<1>8. /\ tu \in Seq(Nat) /\ Len(tu) = 2 /\ Word(tu, 0) = u
      /\ tn \in Seq(Nat) /\ Len(tn) = 2 /\ Word(tn, 0) = n
  BY <1>2, <1>6, TwoBytesRead
<1>9. /\ bs \in Seq(Nat) /\ Len(bs) = 1 /\ At(bs, 0) = s
      /\ bc \in Seq(Nat) /\ Len(bc) = 1 /\ At(bc, 0) = c
  BY <1>2 DEF At
<1> HIDE DEF z, zs, zu, zc, tu, tn, bs, bc
<1> DEFINE l1 == F + 1
           l2 == F + 1 + s
           l3 == F + 3 + s
           l4 == F + 3 + s + u
           l5 == F + 4 + s + u
           l6 == F + 4 + s + u + c
<1>10. p1 \in Seq(Nat) /\ Len(p1) = l1 /\ At(p1, F) = s
  <2>1. p1 \in Seq(Nat) /\ Len(p1) = Len(z) + Len(bs) /\ Reads(p1, z, bs)
    BY <1>5, <1>7, <1>9, AtConcat
  <2>2. At(p1, F + 0) = At(bs, 0)
    BY <1>7, <2>1 DEF Reads
  <2>3. QED
    BY <1>2, <1>7, <1>9, <2>1, <2>2
<1>11. p2 \in Seq(Nat) /\ Len(p2) = l2 /\ Extends(p2, p1)
  <2>1. p2 \in Seq(Nat) /\ Len(p2) = Len(p1) + Len(zs) /\ Extends(p2, p1)
    BY <1>5, <1>7, <1>10, JoinExtends
  <2>2. QED
    BY <1>2, <1>7, <1>10, <2>1
<1>12. p3 \in Seq(Nat) /\ Len(p3) = l3 /\ Extends(p3, p2) /\ Word(p3, l2) = u
  <2>1. p3 \in Seq(Nat) /\ Len(p3) = Len(p2) + Len(tu) /\ Extends(p3, p2)
    BY <1>5, <1>8, <1>11, JoinExtends
  <2>2. Reads(p3, p2, tu)
    BY <1>5, <1>8, <1>11, AtConcat
  <2>3. Word(p3, l2 + 0) = Word(tu, 0)
    BY <1>11, <2>2 DEF Reads
  <2>4. QED
    BY <1>2, <1>8, <1>11, <2>1, <2>3
<1>13. p4 \in Seq(Nat) /\ Len(p4) = l4 /\ Extends(p4, p3)
  <2>1. p4 \in Seq(Nat) /\ Len(p4) = Len(p3) + Len(zu) /\ Extends(p4, p3)
    BY <1>5, <1>7, <1>12, JoinExtends
  <2>2. QED
    BY <1>2, <1>7, <1>12, <2>1
<1>14. p5 \in Seq(Nat) /\ Len(p5) = l5 /\ Extends(p5, p4) /\ At(p5, l4) = c
  <2>1. p5 \in Seq(Nat) /\ Len(p5) = Len(p4) + Len(bc) /\ Extends(p5, p4)
    BY <1>5, <1>9, <1>13, JoinExtends
  <2>2. Reads(p5, p4, bc)
    BY <1>5, <1>9, <1>13, AtConcat
  <2>3. At(p5, l4 + 0) = At(bc, 0)
    BY <1>13, <2>2 DEF Reads
  <2>4. QED
    BY <1>2, <1>9, <1>13, <2>1, <2>3
<1>15. p6 \in Seq(Nat) /\ Len(p6) = l6 /\ Extends(p6, p5)
  <2>1. p6 \in Seq(Nat) /\ Len(p6) = Len(p5) + Len(zc) /\ Extends(p6, p5)
    BY <1>5, <1>7, <1>14, JoinExtends
  <2>2. QED
    BY <1>2, <1>7, <1>14, <2>1
<1>16. p7 \in Seq(Nat) /\ Len(p7) = ea /\ Extends(p7, p6) /\ Word(p7, l6) = n
  <2>1. p7 \in Seq(Nat) /\ Len(p7) = Len(p6) + Len(tn) /\ Extends(p7, p6)
    BY <1>5, <1>8, <1>15, JoinExtends
  <2>2. Reads(p7, p6, tn)
    BY <1>5, <1>8, <1>15, AtConcat
  <2>3. Word(p7, l6 + 0) = Word(tn, 0)
    BY <1>15, <2>2 DEF Reads
  <2>4. l6 + 0 = l6 /\ l6 + 2 = ea
    BY <1>2, <1>4
  <2> HIDE DEF l6
  <2>5. QED
    BY <1>8, <1>15, <2>1, <2>3, <2>4
<1>17. d \in Seq(Nat) /\ Len(d) = ea + n /\ Extends(d, p7) /\ Reads(d, p7, ex)
  <2>1. d \in Seq(Nat) /\ Len(d) = Len(p7) + Len(ex) /\ Extends(d, p7)
    BY <1>3, <1>5, <1>16, JoinExtends
  <2>2. Reads(d, p7, ex)
    BY <1>3, <1>5, <1>16, AtConcat
  <2>3. QED
    BY <1>16, <2>1, <2>2 DEF n
<1>18. Extends(d, p1) /\ Extends(d, p3) /\ Extends(d, p5)
  <2>1. Extends(d, p6)
    BY <1>15, <1>16, <1>17, ExtendsMore
  <2>2. Extends(d, p5)
    BY <1>14, <1>15, <1>17, <2>1, ExtendsMore
  <2>3. Extends(d, p4)
    BY <1>13, <1>14, <1>17, <2>2, ExtendsMore
  <2>4. Extends(d, p3)
    BY <1>12, <1>13, <1>17, <2>3, ExtendsMore
  <2>5. Extends(d, p2)
    BY <1>11, <1>12, <1>17, <2>4, ExtendsMore
  <2>6. Extends(d, p1)
    BY <1>10, <1>11, <1>17, <2>5, ExtendsMore
  <2>7. QED
    BY <2>2, <2>4, <2>6
<1>19. F < l1 /\ l2 + 1 < l3 /\ l4 < l5 /\ l6 + 1 < ea /\ l6 = ea - 2
       /\ l2 \in Nat /\ l4 \in Nat /\ l6 \in Nat
  BY <1>2, <1>4
<1> HIDE DEF l1, l2, l3, l4, l5, l6
<1>20. At(d, F) = s
  BY <1>2, <1>10, <1>18, <1>19 DEF Extends
<1>21. Word(d, l2) = u
  BY <1>12, <1>18, <1>19 DEF Extends
<1>22. At(d, l4) = c
  BY <1>14, <1>18, <1>19 DEF Extends
<1>23. Word(d, l6) = n
  BY <1>16, <1>17, <1>19 DEF Extends
<1>24. HelloHead(d, h, n)
  BY <1>19, <1>20, <1>21, <1>22, <1>23 DEF HelloHead, ea, s, u, c, F, l2, l4
<1>25. /\ \A i \in Nat : At(d, ea + i) = At(ex, i)
       /\ \A i \in Nat : Word(d, ea + i) = Word(ex, i)
  BY <1>16, <1>17 DEF Reads
<1>26. QED
  BY <1>1, <1>3, <1>17, <1>24, <1>25 DEF ea, n, ex

(***************************************************************************)
(* The server name.                                                        *)
(***************************************************************************)
\* The payload is that of h, and the index does not wrap around.
Ours(h) == record = RecordOf(h) /\ ExtensionsAt(h) < Radix

NameExts(h) == {i \in DOMAIN h.exts : h.exts[i].type = SERVER_NAME}

\* What ServerNameFound asks of the end of parse_sni.
Outcome(h) ==
  LET first == First(NameExts(h))
  IN  IF /\ NameExts(h) # {} /\ first < Len(h.exts)
         /\ NameFits(Len(h.exts[first].text))
      THEN tls.found /\ tls.name = h.exts[first].text
      ELSE ~tls.found

\* The loop is behind the first k extensions, and none of them is a server name.
Behind(h, k) ==
  /\ tls.eindex = Len(EncodedUpTo(h.exts)[k])
  /\ \A j \in 1..k : h.exts[j].type # SERVER_NAME

AtExtension(h) ==
  /\ tls.index = ExtensionsAt(h)
  /\ tls.edatalen = Len(EncodedExtensions(h.exts))
  /\ \E k \in 0..Len(h.exts) : Behind(h, k)

\* Where parse_sni is in the hello.
HelloRead(h) ==
  /\ tls.pc = "session" => tls.index = Fixed
  /\ tls.pc = "suites" => tls.index = Fixed + 1 + h.session
  /\ tls.pc = "compression" => tls.index = Fixed + 3 + h.session + h.suites
  /\ tls.pc = "extensions" => tls.index = ExtensionsAt(h) - 2
  /\ tls.pc = "loop" => AtExtension(h)
  /\ tls.pc \notin {"loop", "done"} => tls.eindex = 0
  /\ tls.pc # "done" => tls.found = FALSE
  /\ tls.pc = "done" => Outcome(h)

SniInv == \A h \in Hellos : Ours(h) => HelloRead(h)

\* The payload of a hello.
LEMMA OursFacts ==
  ASSUME NEW h \in Hellos, Ours(h)
  PROVE  LET ex == EncodedExtensions(h.exts)
         IN  /\ h \in Hello /\ h.exts \in Seq(Ext)
             /\ record.hello = TRUE /\ RecordLen + record.length = RecordSize
             /\ ex \in Seq(Nat) /\ RecordSize = ExtensionsAt(h) + Len(ex)
             /\ HelloHead(record.data, h, Len(ex))
             /\ \A i \in Nat : At(record.data, ExtensionsAt(h) + i) = At(ex, i)
             /\ \A i \in Nat : Word(record.data, ExtensionsAt(h) + i) = Word(ex, i)
<1> DEFINE d == Encoded(h)
<1>1. h \in Hello /\ RecordLen \in Nat
  BY TlsAssumption
<1>2. h.exts \in Seq(Ext)
  BY <1>1, HelloFacts
<1>3. record = [hello |-> TRUE, length |-> Len(d) - RecordLen, data |-> d]
  BY DEF Ours, RecordOf
<1> HIDE DEF d
<1>4. record.hello = TRUE /\ record.length = Len(d) - RecordLen /\ record.data = d
  BY <1>3
<1>5. d \in Seq(Nat) /\ Len(d) = ExtensionsAt(h) + Len(EncodedExtensions(h.exts))
  BY <1>1, HelloLayout DEF d
<1>6. Len(d) \in Nat /\ RecordSize = Len(d)
  BY <1>4, <1>5 DEF RecordSize
<1>7. RecordLen + record.length = RecordSize
  <2> DEFINE l == Len(d)
  <2>1. l \in Nat /\ record.length = l - RecordLen /\ RecordSize = l
    BY <1>4, <1>6
  <2> HIDE DEF l
  <2>2. RecordLen + (l - RecordLen) = l
    BY <1>1, <2>1
  <2>3. QED
    BY <2>1, <2>2
<1>8. QED
  BY <1>1, <1>2, <1>4, <1>5, <1>6, <1>7, HelloLayout DEF d

\* An index that does not leave the range of a byte does not wrap around.
LEMMA NoWrap ==
  ASSUME NEW i \in Nat, i < Radix
  PROVE  Wrapped(i) = i
  BY RadixAssumption DEF Wrapped

\* The next part of the head begins at i.
LEMMA HeadStep ==
  ASSUME TlsInv, NEW h \in Hellos, HelloRead(h), tls.pc \notin {"loop", "done"},
         NEW pc \in {"session", "suites", "compression", "extensions"},
         NEW i \in Nat, i < Radix, NEW r, Advance(pc, i, r)
  PROVE  tls'.pc = pc /\ tls'.index = i /\ tls'.eindex = 0 /\ tls'.found = FALSE
<1> DEFINE w == Larger(tls.read, r)
<1>1. tls' = [tls EXCEPT !.pc = pc, !.index = i, !.read = w]
  BY NoWrap DEF Advance
<1>2. tls \in TlsType /\ tls.eindex = 0 /\ tls.found = FALSE
  BY DEF TlsInv, HelloRead
<1> HIDE DEF w
<1>3. QED
  BY <1>1, <1>2 DEF TlsType

\* The parts before the extensions are found where the hello has them.
LEMMA HeadRead ==
  ASSUME TlsInv, NEW h \in Hellos, Ours(h), HelloRead(h),
         CheckRecord \/ SkipSession \/ SkipSuites \/ SkipCompression
  PROVE  HelloRead(h)'
<1> DEFINE s == h.session
           u == h.suites
           c == h.compression
           ea == ExtensionsAt(h)
           n == Len(EncodedExtensions(h.exts))
           z == RecordSize
<1>1. /\ s \in Nat /\ u \in Nat /\ c \in Nat /\ Fixed \in Nat /\ RecordLen \in Nat
      /\ Fixed > RecordLen /\ Fixed < Radix /\ Radix \in Nat
  BY OursFacts, HelloFacts, TlsAssumption, RadixAssumption
<1>2. ea = Fixed + s + u + c + 6 /\ ea < Radix
  BY DEF ExtensionsAt, Ours
<1>3. n \in Nat /\ z = ea + n
  <2> DEFINE ex == EncodedExtensions(h.exts)
  <2>1. ex \in Seq(Nat) /\ z = ea + Len(ex)
    BY OursFacts
  <2> HIDE DEF ex
  <2>2. Len(ex) \in Nat
    BY <2>1
  <2>3. QED
    BY <2>1, <2>2 DEF ex
<1>4. /\ At(record.data, Fixed) = s /\ Word(record.data, Fixed + 1 + s) = u
      /\ At(record.data, Fixed + 3 + s + u) = c
  BY OursFacts DEF HelloHead
<1>5. ASSUME NEW pc \in {"session", "suites", "compression", "extensions"},
             tls'.pc = pc, tls'.eindex = 0, tls'.found = FALSE,
             pc = "session" => tls'.index = Fixed,
             pc = "suites" => tls'.index = Fixed + 1 + s,
             pc = "compression" => tls'.index = Fixed + 3 + s + u,
             pc = "extensions" => tls'.index = ea - 2
      PROVE  HelloRead(h)'
  BY <1>5 DEF HelloRead
<1> HIDE DEF s, u, c, ea, n, z
<1>6. CASE CheckRecord
  <2>1. tls.pc = "record"
    BY <1>6 DEF CheckRecord
  <2>2. z > RecordLen
    BY <1>1, <1>2, <1>3
  <2>3. record.hello = TRUE /\ RecordLen + record.length = RecordSize
    BY OursFacts
  <2>4. Advance("session", Fixed, RecordLen)
    BY <1>6, <2>2, <2>3 DEF CheckRecord, z
  <2>5. tls'.pc = "session" /\ tls'.index = Fixed /\ tls'.eindex = 0 /\ tls'.found = FALSE
    BY <1>1, <2>1, <2>4, HeadStep
  <2>6. QED
    BY <1>5, <2>5
<1>7. CASE SkipSession
  <2>1. tls.pc = "session" /\ tls.index = Fixed
    BY <1>7 DEF SkipSession, HelloRead
  <2> DEFINE i == Fixed + 1 + s
  <2>2. Fixed < z /\ i \in Nat /\ i < Radix
    BY <1>1, <1>2, <1>3
  <2>3. Advance("suites", i, Fixed)
    BY <1>4, <1>7, <2>1, <2>2 DEF SkipSession, z
  <2> HIDE DEF i
  <2>4. tls'.pc = "suites" /\ tls'.index = i /\ tls'.eindex = 0 /\ tls'.found = FALSE
    BY <2>1, <2>2, <2>3, HeadStep
  <2>5. QED
    BY <1>5, <2>4 DEF i
<1>8. CASE SkipSuites
  <2> DEFINE j == Fixed + 1 + s
             i == j + 2 + u
  <2>1. tls.pc = "suites" /\ tls.index = j
    BY <1>8 DEF SkipSuites, HelloRead, s
  <2>2. j + 1 < z /\ i \in Nat /\ i < Radix /\ i = Fixed + 3 + s + u
    BY <1>1, <1>2, <1>3
  <2>3. Word(record.data, j) = u
    BY <1>4
  <2> HIDE DEF j
  <2>4. Advance("compression", i, j + 1)
    BY <1>8, <2>1, <2>2, <2>3 DEF SkipSuites, z
  <2> HIDE DEF i
  <2>5. tls'.pc = "compression" /\ tls'.index = i /\ tls'.eindex = 0 /\ tls'.found = FALSE
    BY <2>1, <2>2, <2>4, HeadStep
  <2>6. QED
    BY <1>5, <2>2, <2>5
<1>9. CASE SkipCompression
  <2> DEFINE j == Fixed + 3 + s + u
             i == j + 1 + c
  <2>1. tls.pc = "compression" /\ tls.index = j
    BY <1>9 DEF SkipCompression, HelloRead, s, u
  <2>2. j < z /\ i \in Nat /\ i < Radix /\ i = ea - 2
    BY <1>1, <1>2, <1>3
  <2>3. At(record.data, j) = c
    BY <1>4
  <2> HIDE DEF j
  <2>4. Advance("extensions", i, j)
    BY <1>9, <2>1, <2>2, <2>3 DEF SkipCompression, z
  <2> HIDE DEF i
  <2>5. tls'.pc = "extensions" /\ tls'.index = i /\ tls'.eindex = 0 /\ tls'.found = FALSE
    BY <2>1, <2>2, <2>4, HeadStep
  <2>6. QED
    BY <1>5, <2>2, <2>5
<1>10. QED
  BY <1>6, <1>7, <1>8, <1>9

\* Some bytes, unless there are no extensions.
LEMMA NoExtension ==
  ASSUME NEW exts \in Seq(Ext), NEW k \in 0..Len(exts),
         Len(EncodedUpTo(exts)[k]) >= Len(EncodedExtensions(exts))
  PROVE  k = Len(exts)
<1> DEFINE m == Len(exts)
           o == Len(EncodedUpTo(exts)[k])
           p == Len(EncodedUpTo(exts)[k + 1])
           l == Len(EncodedExtensions(exts))
           b == Len(BodyOf(exts[k + 1]))
<1>1. m \in Nat /\ k \in Nat /\ k <= m
  OBVIOUS
<1>2. SUFFICES ASSUME k < m PROVE FALSE
  BY <1>1
<1>3. /\ o \in Nat /\ p = o + 4 + b
      /\ IF k + 1 < m THEN p + 4 <= l ELSE p = l
  BY <1>2, ExtensionLaid
<1>4. l \in Nat /\ b \in Nat
  <2> DEFINE ex == EncodedExtensions(exts)
             y == BodyOf(exts[k + 1])
  <2>1. exts[k + 1] \in Ext
    BY <1>2
  <2>2. ex \in Seq(Nat) /\ y \in Seq(Nat)
    BY <1>2, <2>1, ExtensionLaid, ExtensionBytes
  <2> HIDE DEF ex, y
  <2>3. Len(ex) \in Nat /\ Len(y) \in Nat
    BY <2>2
  <2>4. QED
    BY <2>3 DEF ex, y
<1>5. o >= l
  OBVIOUS
<1> HIDE DEF m, o, p, l, b
<1>6. QED
  BY <1>3, <1>4, <1>5

\* Without a server name none is found.
LEMMA NoneNamed ==
  ASSUME NEW h \in Hello, \A j \in 1..Len(h.exts) : h.exts[j].type # SERVER_NAME,
         tls'.found = FALSE
  PROVE  Outcome(h)'
<1>1. DOMAIN h.exts = 1..Len(h.exts)
  <2> DEFINE x == h.exts
  <2>1. x \in Seq(Ext)
    BY HelloFacts
  <2> HIDE DEF x
  <2>2. DOMAIN x = 1..Len(x)
    BY <2>1
  <2>3. QED
    BY <2>2 DEF x
<1>2. NameExts(h) = {}
  BY <1>1 DEF NameExts
<1>3. QED
  BY <1>2 DEF Outcome

\* The loop starts at the first extension, or there is none.
LEMMA ExtensionsOpened ==
  ASSUME TlsInv, NEW h \in Hellos, Ours(h), HelloRead(h), OpenExtensions
  PROVE  HelloRead(h)'
<1> DEFINE ea == ExtensionsAt(h)
           x == h.exts
           ex == EncodedExtensions(x)
           n == Len(ex)
           z == RecordSize
<1>1. /\ tls.pc = "extensions" /\ tls.index = ea - 2 /\ tls.eindex = 0 /\ tls.found = FALSE
      /\ tls \in TlsType
  BY DEF OpenExtensions, HelloRead, TlsInv
<1>2. h \in Hello /\ x \in Seq(Ext) /\ ex \in Seq(Nat) /\ z = ea + n
  BY OursFacts
<1>3. Word(record.data, ea - 2) = n
  BY OursFacts DEF HelloHead
<1>4. ea \in Nat /\ ea >= 6 /\ ea < Radix
  <2>1. h.session \in Nat /\ h.suites \in Nat /\ h.compression \in Nat /\ Fixed \in Nat
    BY <1>2, HelloFacts, TlsAssumption
  <2>2. ea = Fixed + h.session + h.suites + h.compression + 6
    BY DEF ExtensionsAt
  <2> HIDE DEF ea
  <2>3. QED
    BY <2>1, <2>2 DEF Ours, ea
<1>5. Len(x) \in Nat /\ EncodedUpTo(x)[0] = <<>>
  <2> HIDE DEF x
  <2>1. x \in Seq(Ext)
    BY <1>2
  <2>2. Len(x) \in Nat
    BY <2>1
  <2>3. EncodedUpTo(x)[0] = <<>>
    BY <2>1, EncodedFacts
  <2>4. QED
    BY <2>2, <2>3
<1>6. n \in Nat
  <2> HIDE DEF ex
  <2>1. QED
    BY <1>2
<1> HIDE DEF ea, ex, n, z
<1>7. (ea - 2) + 2 = ea /\ ea \in Nat /\ (ea - 2) + 1 < z /\ ea + n = z
  BY <1>2, <1>4, <1>6
<1>8. Wrapped((ea - 2) + 2) = ea
  BY <1>4, <1>7, NoWrap
<1> DEFINE i == ea - 2
<1>9. IF n # 0 THEN tls' = [tls EXCEPT !.pc = "loop", !.index = ea, !.edatalen = n,
                                       !.read = Larger(@, i + 1)]
      ELSE Refuse
  <2>1. tls.index = i /\ Word(record.data, i) = n /\ i + 1 < z /\ Wrapped(i + 2) = ea /\ ea + n = z
    BY <1>1, <1>3, <1>7, <1>8
  <2> HIDE DEF i
  <2>2. QED
    BY <2>1 DEF OpenExtensions, z
<1> HIDE DEF i
<1>10. CASE n # 0
  <2> DEFINE w == Larger(tls.read, i + 1)
  <2>1. tls' = [tls EXCEPT !.pc = "loop", !.index = ea, !.edatalen = n, !.read = w]
    BY <1>9, <1>10
  <2> HIDE DEF w
  <2>2. /\ tls'.pc = "loop" /\ tls'.index = ea /\ tls'.edatalen = n /\ tls'.eindex = 0
        /\ tls'.found = FALSE
    BY <1>1, <2>1 DEF TlsType
  <2>3. Behind(h, 0)'
    <3>1. Len(<<>>) = 0 /\ \A j \in 1..0 : FALSE
      OBVIOUS
    <3>2. QED
      BY <1>5, <2>2, <3>1 DEF Behind
  <2>4. AtExtension(h)'
    <3>1. 0 \in 0..Len(x)
      BY <1>5
    <3>2. QED
      BY <2>2, <2>3, <3>1 DEF AtExtension, ea, n, ex
  <2>5. QED
    BY <2>2, <2>4 DEF HelloRead
<1>11. CASE n = 0
  <2>1. tls' = [tls EXCEPT !.pc = "done"]
    BY <1>9, <1>11 DEF Refuse
  <2>2. tls'.pc = "done" /\ tls'.found = FALSE
    BY <1>1, <2>1 DEF TlsType
  <2>3. Len(x) = 0
    <3>1. Len(<<>>) = 0 /\ 0 \in 0..Len(x)
      BY <1>5
    <3>2. Len(EncodedUpTo(x)[0]) >= n
      BY <1>5, <1>11, <3>1
    <3> HIDE DEF x
    <3>3. QED
      BY <1>2, <3>1, <3>2, NoExtension DEF n, ex
  <2>4. Outcome(h)'
    <3>1. \A j \in 1..Len(x) : FALSE
      BY <2>3
    <3>2. QED
      BY <1>2, <2>2, <3>1, NoneNamed
  <2>5. QED
    BY <2>2, <2>4 DEF HelloRead
<1>12. QED
  BY <1>10, <1>11

\* Where the loop is, e is the next extension, and it ends at p.
AtNext(h, k) ==
  LET e == h.exts[k + 1]
      p == Len(EncodedUpTo(h.exts)[k + 1])
  IN  /\ ExtFits /\ ExtType = e.type /\ ExtLen = Len(BodyOf(e)) /\ Body + ExtLen = p
      /\ p = tls.eindex + 4 + Len(BodyOf(e))
      /\ IF k + 1 < Len(h.exts) THEN p < tls.edatalen ELSE p = tls.edatalen
      /\ \A i \in Nat : i < Len(BodyOf(e)) => EByte(Body + i) = At(BodyOf(e), i)

\* The extension that is read is the next one of the hello.
LEMMA NextRead ==
  ASSUME TlsInv, NEW h \in Hellos, Ours(h), HelloRead(h), tls.pc = "loop",
         NEW k \in 0..Len(h.exts), k < Len(h.exts), Behind(h, k)
  PROVE  AtNext(h, k)
<1> DEFINE ea == ExtensionsAt(h)
           x == h.exts
           ex == EncodedExtensions(x)
           n == Len(ex)
           o == Len(EncodedUpTo(x)[k])
           p == Len(EncodedUpTo(x)[k + 1])
           e == x[k + 1]
           y == BodyOf(e)
           b == Len(y)
<1>1. tls.index = ea /\ tls.edatalen = n /\ tls.eindex = o
  BY DEF HelloRead, AtExtension, Behind
<1>2. h \in Hello /\ x \in Seq(Ext) /\ ex \in Seq(Nat)
  BY OursFacts
<1>3. /\ \A i \in Nat : At(record.data, ea + i) = At(ex, i)
      /\ \A i \in Nat : Word(record.data, ea + i) = Word(ex, i)
  BY OursFacts
<1>4. /\ o \in Nat /\ p = o + 4 + b
      /\ IF k + 1 < Len(x) THEN p + 4 <= n ELSE p = n
      /\ Laid(ex, o, e)
  <2> HIDE DEF x
  <2>1. k \in 0..Len(x) /\ k < Len(x)
    BY DEF x
  <2>2. QED
    BY <1>2, <2>1, ExtensionLaid
<1>5. y \in Seq(Nat) /\ e \in Ext /\ k \in Nat /\ Len(x) \in Nat
  <2> HIDE DEF x
  <2>1. k \in 0..Len(x) /\ k < Len(x) /\ x \in Seq(Ext)
    BY <1>2 DEF x
  <2>2. e \in Ext /\ k \in Nat /\ Len(x) \in Nat
    BY <2>1
  <2> HIDE DEF e
  <2>3. QED
    BY <2>2, ExtensionBytes
<1> HIDE DEF ea, x, ex, o, p, e, y
<1>6. n \in Nat /\ b \in Nat
  BY <1>2, <1>5
<1> HIDE DEF n, b
<1>7. o + 2 \in Nat /\ o + 4 \in Nat /\ o + 3 < n /\ o + 4 + b = p /\ p <= n
  BY <1>4, <1>6
<1>8. Body = o + 4
  BY <1>1 DEF Body
<1>9. ExtType = e.type /\ ExtLen = b
  <2>1. ExtType = Word(ex, o)
    BY <1>1, <1>3, <1>4 DEF ExtType, EWord
  <2>2. ExtLen = Word(ex, o + 2)
    BY <1>1, <1>3, <1>7 DEF ExtLen, EWord
  <2>3. QED
    BY <1>4, <2>1, <2>2 DEF Laid, b, y
<1>10. ExtFits
  BY <1>1, <1>7, <1>8, <1>9 DEF ExtFits
<1>11. ASSUME NEW i \in Nat, i < b PROVE EByte(Body + i) = At(y, i)
  <2> DEFINE j == o + 4 + i
  <2>1. j \in Nat /\ j = Body + i
    BY <1>4, <1>8
  <2>2. At(ex, j) = At(y, i)
    BY <1>4, <1>11 DEF Laid, b, y
  <2> HIDE DEF j
  <2>3. At(record.data, ea + j) = At(ex, j)
    BY <1>3, <2>1
  <2>4. EByte(j) = At(record.data, ea + j)
    BY <1>1 DEF EByte
  <2>5. QED
    BY <2>1, <2>2, <2>3, <2>4
<1>12. IF k + 1 < Len(x) THEN p < n ELSE p = n
  BY <1>4, <1>6, <1>7
<1>13. QED
  BY <1>1, <1>7, <1>8, <1>9, <1>10, <1>11, <1>12 DEF AtNext, x, p, e, y, b

\* The loop ends behind the last extension, and an extension that is there fits.
LEMMA LoopEnds ==
  ASSUME TlsInv, NEW h \in Hellos, Ours(h), HelloRead(h), EndExtensions \/ RefuseExtension
  PROVE  HelloRead(h)'
<1> DEFINE x == h.exts
           n == Len(EncodedExtensions(x))
<1>1. /\ tls.pc = "loop" /\ tls \in TlsType /\ tls.found = FALSE /\ tls.edatalen = n
      /\ tls.edatalen \in Nat /\ tls.eindex \in Nat
  BY DEF EndExtensions, RefuseExtension, HelloRead, AtExtension, TlsInv, TlsType
<1>2. PICK k \in 0..Len(x) : Behind(h, k)
  BY <1>1 DEF HelloRead, AtExtension
<1>3. h \in Hello /\ x \in Seq(Ext)
  BY OursFacts
<1>4. tls' = [tls EXCEPT !.pc = "done"]
  BY DEF EndExtensions, RefuseExtension, Refuse
<1>5. tls'.pc = "done" /\ tls'.found = FALSE
  BY <1>1, <1>4 DEF TlsType
<1>6. k = Len(x)
  <2>1. CASE EndExtensions
    <3>1. tls.eindex >= n /\ tls.eindex = Len(EncodedUpTo(x)[k])
      BY <1>1, <1>2, <2>1 DEF EndExtensions, Behind
    <3> HIDE DEF x
    <3>2. QED
      BY <1>3, <3>1, NoExtension
  <2>2. CASE RefuseExtension
    <3>1. ~ExtFits
      BY <2>2 DEF RefuseExtension
    <3>2. ~(k < Len(x))
      BY <1>1, <1>2, <3>1, NextRead DEF AtNext
    <3>3. Len(x) \in Nat
      <4> HIDE DEF x
      <4>1. QED
        BY <1>3
    <3>4. QED
      <4> DEFINE m == Len(x)
      <4>1. m \in Nat /\ k \in 0..m /\ ~(k < m)
        BY <3>2, <3>3
      <4> HIDE DEF m
      <4>2. k = m
        BY <4>1
      <4>3. QED
        BY <4>2 DEF m
  <2>3. QED
    BY <2>1, <2>2
<1>7. Outcome(h)'
  <2>1. \A j \in 1..Len(x) : x[j].type # SERVER_NAME
    BY <1>2, <1>6 DEF Behind
  <2>2. QED
    BY <1>3, <1>5, <2>1, NoneNamed
<1>8. QED
  BY <1>5, <1>7 DEF HelloRead

\* There is another extension where the loop goes on.
LEMMA LoopGoesOn ==
  ASSUME TlsInv, NEW h \in Hellos, Ours(h), HelloRead(h), tls.pc = "loop",
         tls.eindex < tls.edatalen, NEW k \in 0..Len(h.exts), Behind(h, k)
  PROVE  k < Len(h.exts) /\ AtNext(h, k)
<1> DEFINE m == Len(h.exts)
<1>1. m \in Nat
  <2> DEFINE x == h.exts
  <2>1. x \in Seq(Ext)
    BY OursFacts
  <2> HIDE DEF x
  <2>2. Len(x) \in Nat
    BY <2>1
  <2>3. QED
    BY <2>2 DEF x
<1>2. k # m
  <2>1. SUFFICES ASSUME k = m PROVE FALSE
    OBVIOUS
  <2>2. tls.eindex = tls.edatalen
    BY <2>1 DEF HelloRead, AtExtension, Behind, EncodedExtensions
  <2>3. tls.eindex \in Nat /\ tls.edatalen \in Nat
    BY DEF TlsInv, TlsType
  <2>4. QED
    BY <2>2, <2>3
<1>3. k < m
  <2>1. k \in 0..m
    OBVIOUS
  <2> HIDE DEF m
  <2>2. QED
    BY <1>1, <1>2, <2>1
<1>4. QED
  BY <1>3, NextRead

\* An extension that is no server name is left behind.
LEMMA ExtensionSkipped ==
  ASSUME TlsInv, NEW h \in Hellos, Ours(h), HelloRead(h), SkipExtension
  PROVE  HelloRead(h)'
<1> DEFINE x == h.exts
<1>1. /\ tls.pc = "loop" /\ tls \in TlsType /\ tls.found = FALSE /\ tls.eindex < tls.edatalen
      /\ ExtType # SERVER_NAME
  BY DEF SkipExtension, HelloRead, TlsInv
<1>2. PICK k \in 0..Len(x) : Behind(h, k)
  BY <1>1 DEF HelloRead, AtExtension
<1>3. k < Len(x) /\ AtNext(h, k)
  BY <1>1, <1>2, LoopGoesOn
<1> DEFINE q == Len(EncodedUpTo(x)[k + 1])
           w == Larger(tls.read, tls.index + Body - 1)
<1>4. ExtType = x[k + 1].type /\ Body + ExtLen = q
  BY <1>3 DEF AtNext
<1>5. tls' = [tls EXCEPT !.eindex = q, !.read = w]
  BY <1>4 DEF SkipExtension
<1> HIDE DEF q, w
<1>6. /\ tls'.pc = "loop" /\ tls'.eindex = q /\ tls'.found = FALSE
      /\ tls'.index = tls.index /\ tls'.edatalen = tls.edatalen
  BY <1>1, <1>5 DEF TlsType
<1>7. k \in Nat /\ k + 1 \in 0..Len(x) /\ \A j \in 1..(k + 1) : j \in 1..k \/ j = k + 1
  <2> DEFINE m == Len(x)
  <2>1. m \in Nat
    <3>1. x \in Seq(Ext)
      BY OursFacts
    <3> HIDE DEF x
    <3>2. QED
      BY <3>1
  <2>2. k \in 0..m /\ k < m
    BY <1>3
  <2> HIDE DEF m
  <2>3. k \in Nat /\ k + 1 \in 0..m /\ \A j \in 1..(k + 1) : j \in 1..k \/ j = k + 1
    BY <2>1, <2>2
  <2>4. QED
    BY <2>3 DEF m
<1>8. Behind(h, k + 1)'
  <2>1. \A j \in 1..(k + 1) : x[j].type # SERVER_NAME
    BY <1>1, <1>2, <1>4, <1>7 DEF Behind
  <2>2. QED
    BY <1>6, <2>1 DEF Behind, q
<1>9. AtExtension(h)'
  BY <1>1, <1>6, <1>7, <1>8 DEF AtExtension, HelloRead
<1>10. QED
  BY <1>6, <1>9 DEF HelloRead

\* The first server name of a hello is the one behind extensions that are none.
LEMMA FirstNamed ==
  ASSUME NEW h \in Hello, NEW k \in 0..Len(h.exts), k < Len(h.exts),
         \A j \in 1..k : h.exts[j].type # SERVER_NAME, h.exts[k + 1].type = SERVER_NAME
  PROVE  NameExts(h) # {} /\ First(NameExts(h)) = k + 1
<1> DEFINE x == h.exts
           m == Len(x)
           N == NameExts(h)
<1>1. DOMAIN x = 1..m /\ m \in Nat
  <2>1. x \in Seq(Ext)
    BY HelloFacts
  <2> HIDE DEF x
  <2>2. QED
    BY <2>1
<1>2. N = {i \in 1..m : x[i].type = SERVER_NAME}
  BY <1>1 DEF NameExts
<1>3. k \in Nat /\ k + 1 \in 1..m
  <2>1. k \in 0..m /\ k < m
    OBVIOUS
  <2> HIDE DEF m
  <2>2. QED
    BY <1>1, <2>1
<1> HIDE DEF m, N
<1>4. k + 1 \in N
  BY <1>2, <1>3
<1>5. ASSUME NEW j \in N PROVE k + 1 <= j /\ j \in Nat
  <2>1. j \in 1..m /\ j \notin 1..k
    BY <1>2, <1>5
  <2>2. QED
    BY <1>1, <1>3, <2>1
<1>6. First(N) = k + 1
  <2> DEFINE P(i) == i \in N /\ \A j \in N : i <= j
  <2>1. P(k + 1)
    BY <1>4, <1>5
  <2>2. ASSUME NEW i \in N, \A j \in N : i <= j PROVE i = k + 1
    <3>1. i <= k + 1 /\ k + 1 <= i /\ i \in Nat
      BY <1>4, <1>5, <2>2
    <3>2. QED
      BY <1>3, <3>1
  <2>3. First(N) \in N /\ \A j \in N : First(N) <= j
    BY <2>1 DEF First
  <2>4. QED
    BY <2>2, <2>3
<1>7. QED
  BY <1>4, <1>6 DEF N

\* The bytes of the next extension, a server name.
LEMMA HostRead ==
  ASSUME TlsInv, NEW h \in Hellos, NEW k \in Nat, AtNext(h, k),
         NEW e \in Ext, e = h.exts[k + 1], e.type = SERVER_NAME
  PROVE  LET n == Len(e.text)
         IN  /\ n \in Nat /\ Len(BodyOf(e)) = n + 5
             /\ EWord(Body) = n + 3 /\ EByte(Body + 2) = HOST_NAME /\ EWord(Body + 3) = n
             /\ Copy(record.data, tls.index + Body + 5, n) = e.text
<1> DEFINE t == e.text
           n == Len(t)
           y == BodyOf(e)
           d == record.data
           o == tls.index
           b == Body
<1>1. t \in Seq(Nat)
  BY DEF Ext
<1>2. y = TwoBytes(n + 3) \o <<HOST_NAME>> \o TwoBytes(n) \o t
  BY DEF BodyOf
<1>3. /\ Len(y) = n + 5 /\ Word(y, 0) = n + 3 /\ At(y, 2) = HOST_NAME /\ Word(y, 3) = n
      /\ \A i \in Nat : At(y, 5 + i) = At(t, i)
  <2> DEFINE c == TwoBytes(n + 3) \o <<HOST_NAME>> \o TwoBytes(n) \o t
  <2> HIDE DEF t
  <2>1. /\ Len(c) = n + 5 /\ Word(c, 0) = n + 3 /\ At(c, 2) = HOST_NAME /\ Word(c, 3) = n
        /\ \A i \in Nat : At(c, 5 + i) = At(t, i)
    BY <1>1, NameBytes, Zenon
  <2>2. y = c
    BY <1>2
  <2> HIDE DEF c, y
  <2>3. QED
    BY <2>1, <2>2
<1>4. \A i \in Nat : i < Len(y) => EByte(b + i) = At(y, i)
  BY DEF AtNext
<1>5. o \in Nat /\ b \in Nat
  BY DEF TlsInv, TlsType, Body
<1>6. n \in Nat
  <2> HIDE DEF t
  <2>1. QED
    BY <1>1
<1> HIDE DEF t, y, d, o, b
<1>7. ASSUME NEW i \in Nat, i < n + 5 PROVE At(d, o + b + i) = At(y, i)
  <2>1. EByte(b + i) = At(y, i)
    BY <1>3, <1>4, <1>7
  <2>2. o + (b + i) = o + b + i
    BY <1>5
  <2>3. QED
    BY <2>1, <2>2 DEF EByte, d, o
<1> HIDE DEF n
<1>8. /\ 0 < n + 5 /\ 1 < n + 5 /\ 2 < n + 5 /\ 3 < n + 5 /\ 4 < n + 5
  BY <1>6
<1>9. EWord(b) = n + 3
  <2>1. At(d, o + b + 0) = At(y, 0) /\ At(d, o + b + 1) = At(y, 1)
    BY <1>7, <1>8
  <2>2. o + b + 0 = o + b /\ 0 + 1 = 1
    BY <1>5
  <2>3. Word(d, o + b) = Word(y, 0)
    BY <2>1, <2>2 DEF Word
  <2>4. QED
    BY <1>3, <2>3 DEF EWord, d, o
<1>10. EByte(b + 2) = HOST_NAME
  BY <1>3, <1>4, <1>6, <1>8
<1>11. EWord(b + 3) = n
  <2>1. At(d, o + b + 3) = At(y, 3) /\ At(d, o + b + 4) = At(y, 4)
    BY <1>7, <1>8
  <2>2. o + (b + 3) = o + b + 3 /\ (o + (b + 3)) + 1 = o + b + 4 /\ 3 + 1 = 4
    BY <1>5
  <2> DEFINE i == o + (b + 3)
  <2>3. At(d, i) = At(y, 3) /\ At(d, i + 1) = At(y, 3 + 1)
    BY <2>1, <2>2
  <2> HIDE DEF i
  <2>4. Word(d, i) = Word(y, 3)
    BY <2>3 DEF Word
  <2>5. QED
    BY <1>3, <2>4 DEF EWord, d, o, i
<1>12. Copy(d, o + b + 5, n) = t
  <2> DEFINE l == o + b + 5
  <2>1. ASSUME NEW i \in 1..n PROVE At(d, l + i - 1) = t[i]
    <3>1. i - 1 \in Nat /\ i - 1 < n /\ 5 + (i - 1) < n + 5 /\ 5 + (i - 1) \in Nat
      BY <1>6
    <3>2. l + i - 1 = o + b + (5 + (i - 1))
      BY <1>5, <1>6
    <3>3. At(d, o + b + (5 + (i - 1))) = At(y, 5 + (i - 1))
      BY <1>7, <3>1
    <3>4. At(y, 5 + (i - 1)) = At(t, i - 1)
      BY <1>3, <3>1
    <3>5. At(t, i - 1) = t[i]
      <4>1. i - 1 \in 0..(n - 1) /\ (i - 1) + 1 = i
        BY <1>6
      <4>2. QED
        BY <4>1 DEF At, n
    <3>6. QED
      BY <3>2, <3>3, <3>4, <3>5
  <2>2. t = [i \in 1..n |-> t[i]]
    BY <1>1 DEF n
  <2> HIDE DEF l
  <2>3. Copy(d, l, n) = [i \in 1..n |-> t[i]]
    BY <2>1 DEF Copy
  <2>4. QED
    BY <2>2, <2>3 DEF l
<1>13. QED
  BY <1>3, <1>6, <1>9, <1>10, <1>11, <1>12 DEF t, y, d, o, b, n

\* The first server name is found if another extension follows and it fits.
LEMMA NameTaken ==
  ASSUME TlsInv, NEW h \in Hellos, Ours(h), HelloRead(h), ServerName
  PROVE  HelloRead(h)'
<1> DEFINE x == h.exts
           m == Len(x)
<1>1. /\ tls.pc = "loop" /\ tls \in TlsType /\ tls.found = FALSE /\ tls.eindex < tls.edatalen
      /\ ExtType = SERVER_NAME
  BY DEF ServerName, HelloRead, TlsInv
<1>2. PICK k \in 0..Len(x) : Behind(h, k)
  BY <1>1 DEF HelloRead, AtExtension
<1>3. k < Len(x) /\ AtNext(h, k)
  BY <1>1, <1>2, LoopGoesOn
<1> DEFINE e == x[k + 1]
           t == e.text
           n == Len(t)
           b == Body
           l == tls.edatalen
<1>4. h \in Hello /\ e \in Ext /\ k \in Nat
  <2>1. h \in Hello /\ x \in Seq(Ext)
    BY OursFacts
  <2> HIDE DEF x
  <2>2. QED
    BY <1>3, <2>1
<1>5. e.type = SERVER_NAME
  BY <1>1, <1>3 DEF AtNext
<1>6. NameExts(h) # {} /\ First(NameExts(h)) = k + 1
  BY <1>2, <1>3, <1>4, <1>5, FirstNamed DEF Behind
<1>7. /\ n \in Nat /\ Len(BodyOf(e)) = n + 5
      /\ EWord(b) = n + 3 /\ EByte(b + 2) = HOST_NAME /\ EWord(b + 3) = n
      /\ Copy(record.data, tls.index + b + 5, n) = t
  <2> HIDE DEF e
  <2>1. e = h.exts[k + 1]
    BY DEF e
  <2>2. QED
    BY <1>3, <1>4, <1>5, <2>1, HostRead
<1>8. IF k + 1 < m THEN b + 5 + n < l ELSE b + 5 + n = l
  <2> DEFINE p == Len(EncodedUpTo(x)[k + 1])
  <2>1. p = tls.eindex + 4 + Len(BodyOf(e)) /\ IF k + 1 < m THEN p < l ELSE p = l
    BY <1>3 DEF AtNext
  <2> HIDE DEF p, m, e
  <2>2. b = tls.eindex + 4 /\ tls.eindex \in Nat
    BY <1>1 DEF Body, TlsType
  <2> HIDE DEF b
  <2>3. p = b + 5 + n
    <3> DEFINE o == tls.eindex
    <3>1. p = o + 4 + (n + 5) /\ b = o + 4 /\ o \in Nat /\ n \in Nat
      BY <1>7, <2>1, <2>2
    <3> HIDE DEF o, n
    <3>2. QED
      BY <3>1
  <2>4. QED
    BY <2>1, <2>3
<1>9. b \in Nat /\ l \in Nat
  BY <1>1 DEF Body, TlsType
<1> DEFINE fits == k + 1 < m /\ NameFits(n)
           c == tls.index + b + 5
           w == Larger(tls.read, tls.index + b + 4 + n)
<1>10. IF fits THEN tls' = [tls EXCEPT !.pc = "done", !.found = TRUE, !.name = t, !.read = w]
       ELSE tls' = [tls EXCEPT !.pc = "done"]
  <2>1. /\ b + 1 < l /\ b + 4 < l /\ b + 2 + (n + 3) = b + 5 + n
        /\ ~(k + 1 < m) => ~(b + 5 + n < l)
    <3> HIDE DEF b, l, n, m
    <3>1. QED
      BY <1>7, <1>8, <1>9
  <2> DEFINE cond == /\ b + 1 < l /\ b + 2 + EWord(b) < l /\ EByte(b + 2) = HOST_NAME
                     /\ b + 4 < l /\ b + 5 + EWord(b + 3) < l /\ NameFits(EWord(b + 3))
  <2>2. cond <=> fits
    <3> HIDE DEF b, l, n, m
    <3>1. QED
      BY <1>7, <1>8, <2>1
  <2>3. IF cond
        THEN tls' = [tls EXCEPT !.pc = "done", !.found = TRUE,
                       !.name = Copy(record.data, tls.index + b + 5, EWord(b + 3)),
                       !.read = Larger(@, tls.index + b + 4 + EWord(b + 3))]
        ELSE tls' = [tls EXCEPT !.pc = "done"]
    BY DEF ServerName, Refuse
  <2> HIDE DEF cond, fits, b, n, t
  <2>4. QED
    BY <1>7, <2>2, <2>3
<1>11. CASE fits
  <2>1. tls' = [tls EXCEPT !.pc = "done", !.found = TRUE, !.name = t, !.read = w]
    BY <1>10, <1>11
  <2> HIDE DEF t, w
  <2>2. tls'.pc = "done" /\ tls'.found = TRUE /\ tls'.name = t
    BY <1>1, <2>1 DEF TlsType
  <2>3. Outcome(h)'
    BY <1>6, <1>11, <2>2 DEF Outcome, t
  <2>4. QED
    BY <2>2, <2>3 DEF HelloRead
<1>12. CASE ~fits
  <2>1. tls' = [tls EXCEPT !.pc = "done"]
    BY <1>10, <1>12
  <2>2. tls'.pc = "done" /\ tls'.found = FALSE
    BY <1>1, <2>1 DEF TlsType
  <2>3. Outcome(h)'
    BY <1>6, <1>12, <2>2 DEF Outcome
  <2>4. QED
    BY <2>2, <2>3 DEF HelloRead
<1>13. QED
  BY <1>11, <1>12

\* If the header of a hello ends within the range of the 8-bit index, parse_sni finds
\* the name of its first server name extension if another extension follows it and
\* the name fits its buffer, however many extensions precede it.  A first server name
\* that is the last extension (tls.c:130, 153) or is too long is refused, and no
\* other name is found instead.
THEOREM ServerNameSafety == TlsSpec => []ServerNameFound
<1>1. TlsInit => TlsInv /\ SniInv
  <2> SUFFICES ASSUME TlsInit PROVE TlsInv /\ SniInv
    OBVIOUS
  <2>1. TlsInv
    BY TlsStarts
  <2>2. tls.pc = "record" /\ tls.eindex = 0 /\ tls.found = FALSE
    BY DEF TlsInit, NoTls
  <2>3. QED
    BY <2>1, <2>2 DEF SniInv, HelloRead
<1>2. TlsInv /\ SniInv /\ [TlsNext]_tlsVars => (TlsInv /\ SniInv)'
  <2> SUFFICES ASSUME TlsInv, SniInv, [TlsNext]_tlsVars PROVE TlsInv' /\ SniInv'
    OBVIOUS
  <2>1. TlsInv'
    BY TlsKeeps
  <2>2. record' = record
    BY DEF TlsNext, tlsVars, CheckRecord, SkipSession, SkipSuites, SkipCompression,
           OpenExtensions, EndExtensions, RefuseExtension, SkipExtension, ServerName
  <2>3. ASSUME NEW h \in Hellos, Ours(h)' PROVE HelloRead(h)'
    <3>1. Ours(h) /\ HelloRead(h)
      BY <2>2, <2>3 DEF SniInv, Ours
    <3>2. CASE CheckRecord \/ SkipSession \/ SkipSuites \/ SkipCompression
      BY <3>1, <3>2, HeadRead
    <3>3. CASE OpenExtensions
      BY <3>1, <3>3, ExtensionsOpened
    <3>4. CASE EndExtensions \/ RefuseExtension
      BY <3>1, <3>4, LoopEnds
    <3>5. CASE SkipExtension
      BY <3>1, <3>5, ExtensionSkipped
    <3>6. CASE ServerName
      BY <3>1, <3>6, NameTaken
    <3>7. CASE UNCHANGED tlsVars
      BY <3>1, <3>7 DEF tlsVars, HelloRead, AtExtension, Behind, Outcome
    <3>8. QED
      BY <3>2, <3>3, <3>4, <3>5, <3>6, <3>7 DEF TlsNext
  <2>4. QED
    BY <2>1, <2>3 DEF SniInv
<1>3. SniInv => ServerNameFound
  <2> SUFFICES ASSUME SniInv, tls.pc = "done", NEW h \in Hellos, record = Payload[h],
                      ExtensionsAt(h) < Radix
               PROVE  Outcome(h)
    BY DEF ServerNameFound, Outcome, NameExts, First
  <2>1. Ours(h)
    BY DEF Ours, Payload
  <2>2. QED
    BY <2>1 DEF SniInv, HelloRead
<1>4. QED
  BY <1>1, <1>2, <1>3, PTL DEF TlsSpec

(***************************************************************************)
(* Checksums.                                                              *)
(***************************************************************************)
M == U16 - 1

\* The running sums of m summands that start with v.
Sums(v, w, m) ==
  {f \in [0..m -> Nat] : f[0] = v /\ \A i \in 1..m : f[i] = f[i - 1] + w[i]}

\* They exist.
LEMMA SumsExist ==
  ASSUME NEW v \in Nat, NEW m \in Nat, NEW w \in [1..m -> Nat]
  PROVE  Sums(v, w, m) # {}
<1> DEFINE S == {k \in Nat : k <= m => Sums(v, w, k) # {}}
<1>1. 0 \in S
  <2> DEFINE f == [i \in 0..0 |-> v]
  <2>1. f \in [0..0 -> Nat] /\ f[0] = v /\ \A i \in 1..0 : FALSE
    OBVIOUS
  <2> HIDE DEF f
  <2>2. f \in Sums(v, w, 0)
    BY <2>1 DEF Sums
  <2>3. QED
    BY <2>2
<1>2. ASSUME NEW k \in Nat, k \in S PROVE k + 1 \in S
  <2>1. SUFFICES ASSUME k + 1 <= m PROVE Sums(v, w, k + 1) # {}
    OBVIOUS
  <2>2. k <= m /\ k + 1 \in 1..m
    BY <2>1
  <2>3. PICK f \in Sums(v, w, k) : TRUE
    BY <1>2, <2>2
  <2>4. /\ f \in [0..k -> Nat] /\ f[0] = v
        /\ \A i \in 1..k : f[i] = f[i - 1] + w[i]
    BY DEF Sums
  <2> DEFINE x == f[k] + w[k + 1]
             g == [i \in 0..(k + 1) |-> IF i = k + 1 THEN x ELSE f[i]]
  <2>5. x \in Nat
    <3> DEFINE a == f[k]
               b == w[k + 1]
    <3>1. a \in Nat /\ b \in Nat
      BY <2>2, <2>4
    <3> HIDE DEF a, b
    <3>2. a + b \in Nat
      BY <3>1
    <3>3. QED
      BY <3>2 DEF a, b
  <2>6. g \in [0..(k + 1) -> Nat] /\ g[0] = v
    <3> HIDE DEF x
    <3>1. QED
      BY <2>4, <2>5
  <2>7. ASSUME NEW i \in 1..(k + 1) PROVE g[i] = g[i - 1] + w[i]
    <3>1. i - 1 \in 0..(k + 1) /\ i - 1 # k + 1 /\ i \in 0..(k + 1)
      BY <2>7
    <3>2. g[i - 1] = f[i - 1]
      BY <3>1
    <3>3. CASE i = k + 1
      <4>1. i - 1 = k
        BY <3>3
      <4>2. g[i] = x
        BY <3>1, <3>3
      <4>3. QED
        BY <3>2, <3>3, <4>1, <4>2
    <3>4. CASE i # k + 1
      <4>1. i \in 1..k
        BY <2>7, <3>4
      <4>2. g[i] = f[i]
        BY <3>1, <3>4
      <4>3. QED
        BY <2>4, <3>2, <4>1, <4>2
    <3>5. QED
      BY <3>3, <3>4
  <2> HIDE DEF g
  <2>8. g \in Sums(v, w, k + 1)
    BY <2>6, <2>7 DEF Sums
  <2>9. QED
    BY <2>8
<1> HIDE DEF S
<1>3. m \in S
  BY <1>1, <1>2, SetInduction
<1>4. QED
  BY <1>3 DEF S

\* The running sums, and the sum.
Running(w, m) == CHOOSE f \in Sums(0, w, m) : TRUE
SumOf(w, m) == Running(w, m)[m]

\* f adds the summands to v.
Adds(f, v, w, m) == f[0] = v /\ \A i \in 1..m : f[i] = f[i - 1] + w[i]

\* What the running sums are.
LEMMA RunningFacts ==
  ASSUME NEW m \in Nat, NEW w \in [1..m -> Nat]
  PROVE  /\ Running(w, m) \in [0..m -> Nat] /\ SumOf(w, m) \in Nat
         /\ Adds(Running(w, m), 0, w, m)
<1>1. Running(w, m) \in Sums(0, w, m)
  <2>1. 0 \in Nat
    OBVIOUS
  <2>2. QED
    BY <2>1, SumsExist DEF Running
<1>2. QED
  BY <1>1 DEF Sums, SumOf, Adds

\* A function that adds the summands to v ends with v and their sum.
LEMMA SumFrom ==
  ASSUME NEW m \in Nat, NEW w \in [1..m -> Nat], NEW v \in Nat, NEW f, Adds(f, v, w, m)
  PROVE  f[m] = v + SumOf(w, m)
<1> DEFINE r == Running(w, m)
           S == {k \in Nat : k <= m => f[k] = v + r[k]}
<1>1. r \in [0..m -> Nat] /\ r[0] = 0 /\ \A i \in 1..m : r[i] = r[i - 1] + w[i]
  BY RunningFacts DEF Adds
<1> HIDE DEF r
<1>2. 0 \in S
  BY <1>1 DEF Adds
<1>3. ASSUME NEW k \in Nat, k \in S PROVE k + 1 \in S
  <2>1. SUFFICES ASSUME k + 1 <= m PROVE f[k + 1] = v + r[k + 1]
    OBVIOUS
  <2>2. k <= m /\ k + 1 \in 1..m /\ (k + 1) - 1 = k /\ k \in 0..m
    BY <2>1
  <2>3. f[k] = v + r[k] /\ f[k + 1] = f[k] + w[k + 1] /\ r[k + 1] = r[k] + w[k + 1]
    BY <1>1, <1>3, <2>2 DEF Adds
  <2>4. r[k] \in Nat /\ w[k + 1] \in Nat
    BY <1>1, <2>2
  <2> DEFINE a == r[k]
             b == w[k + 1]
  <2>5. f[k + 1] = (v + a) + b /\ r[k + 1] = a + b /\ a \in Nat /\ b \in Nat
    BY <2>3, <2>4
  <2> HIDE DEF a, b
  <2>6. QED
    BY <2>5
<1> HIDE DEF S
<1>4. m \in S
  BY <1>2, <1>3, SetInduction
<1>5. QED
  BY <1>4 DEF S, r, SumOf

\* The summands of calc_checksum, those of the receiver, and the bytes that are
\* the second of a word.
LittleEndian(s) == [i \in 1..Len(s) |-> IF i % 2 = 1 THEN s[i] ELSE Radix * s[i]]
NetworkOrder(s) == [i \in 1..Len(s) |-> IF i % 2 = 1 THEN Radix * s[i] ELSE s[i]]
Seconds(s) == [i \in 1..Len(s) |-> IF i % 2 = 1 THEN 0 ELSE s[i]]

LE(s) == SumOf(LittleEndian(s), Len(s))
BE(s) == SumOf(NetworkOrder(s), Len(s))

\* The summands are natural numbers.
LEMMA SummandTypes ==
  ASSUME NEW s \in Seq(Nat)
  PROVE  /\ Len(s) \in Nat /\ LE(s) \in Nat /\ BE(s) \in Nat
         /\ LittleEndian(s) \in [1..Len(s) -> Nat] /\ NetworkOrder(s) \in [1..Len(s) -> Nat]
         /\ Seconds(s) \in [1..Len(s) -> Nat]
<1>1. Len(s) \in Nat /\ \A i \in 1..Len(s) : s[i] \in Nat
  OBVIOUS
<1>2. ASSUME NEW i \in 1..Len(s) PROVE Radix * s[i] \in Nat
  <2> DEFINE a == s[i]
  <2>1. a \in Nat /\ Radix \in Nat
    BY <1>1, RadixAssumption
  <2> HIDE DEF a
  <2>2. Radix * a \in Nat
    BY <2>1
  <2>3. QED
    BY <2>2 DEF a
<1>3. LittleEndian(s) \in [1..Len(s) -> Nat]
  BY <1>1, <1>2 DEF LittleEndian
<1>4. NetworkOrder(s) \in [1..Len(s) -> Nat]
  BY <1>1, <1>2 DEF NetworkOrder
<1>5. Seconds(s) \in [1..Len(s) -> Nat]
  BY <1>1 DEF Seconds
<1>6. LE(s) \in Nat /\ BE(s) \in Nat
  BY <1>1, <1>3, <1>4, RunningFacts DEF LE, BE
<1>7. QED
  BY <1>1, <1>3, <1>4, <1>5, <1>6

\* An even number more does not change what is odd.
LEMMA Parity ==
  ASSUME NEW n \in Nat, n % 2 = 0, NEW i \in Nat
  PROVE  (n + i) % 2 = i % 2
  OBVIOUS

\* The sum of a buffer is that of its parts if the first has whole words.
LEMMA SumJoined ==
  ASSUME NEW s \in Seq(Nat), Len(s) % 2 = 0, NEW t \in Seq(Nat), NEW u, Joined(u, s, t)
  PROVE  u \in Seq(Nat) /\ Len(u) = Len(s) + Len(t) /\ LE(u) = LE(s) + LE(t)
<1> DEFINE a == Len(s)
           b == Len(t)
           c == a + b
           ws == LittleEndian(s)
           wt == LittleEndian(t)
           wu == LittleEndian(u)
           f == Running(wu, c)
           v == SumOf(ws, a)
           g == [i \in 0..b |-> f[a + i]]
<1>1. u \in Seq(Nat)
  BY ConcatProperties DEF Joined
<1>2. Len(u) = c /\ a \in Nat /\ b \in Nat /\ c \in Nat /\ a % 2 = 0
  BY ConcatProperties DEF Joined
<1>3. \A i \in 1..c : u[i] = IF i <= a THEN s[i] ELSE t[i - a]
  BY ConcatProperties DEF Joined
<1>4. LE(s) = v /\ LE(t) = SumOf(wt, b) /\ LE(u) = f[c]
  BY <1>2 DEF LE, SumOf
<1>5. wu \in [1..c -> Nat] /\ ws \in [1..a -> Nat] /\ wt \in [1..b -> Nat]
  BY <1>1, <1>2, SummandTypes
<1>6. /\ \A i \in 1..a : ws[i] = IF i % 2 = 1 THEN s[i] ELSE Radix * s[i]
      /\ \A i \in 1..b : wt[i] = IF i % 2 = 1 THEN t[i] ELSE Radix * t[i]
      /\ \A i \in 1..c : wu[i] = IF i % 2 = 1 THEN u[i] ELSE Radix * u[i]
  BY <1>2 DEF LittleEndian
<1>7. c = a + b
  OBVIOUS
<1> HIDE DEF a, b, c, ws, wt, wu
<1>8. ASSUME NEW i \in 1..a PROVE wu[i] = ws[i] /\ i \in 1..c
  <2>1. i \in 1..c /\ i <= a
    BY <1>2, <1>7
  <2>2. u[i] = s[i]
    BY <1>3, <2>1
  <2>3. QED
    BY <1>6, <2>1, <2>2
<1>9. ASSUME NEW i \in 1..b
      PROVE  wu[a + i] = wt[i] /\ a + i \in 1..c /\ (a + i) - 1 = a + (i - 1)
  <2> DEFINE j == a + i
  <2>1. j \in 1..c /\ ~(j <= a) /\ j - a = i /\ i \in Nat /\ j - 1 = a + (i - 1)
    BY <1>2, <1>7
  <2>2. j % 2 = i % 2
    BY <1>2, <2>1, Parity
  <2> HIDE DEF j
  <2>3. u[j] = t[i]
    BY <1>3, <2>1
  <2>4. wu[j] = wt[i]
    BY <1>6, <2>1, <2>2, <2>3
  <2>5. QED
    BY <2>1, <2>4 DEF j
<1>10. f \in [0..c -> Nat] /\ Adds(f, 0, wu, c)
  BY <1>2, <1>5, RunningFacts
<1> HIDE DEF f
<1>11. v \in Nat /\ f[a] = v
  <2>1. Adds(f, 0, ws, a)
    BY <1>8, <1>10 DEF Adds
  <2>2. 0 \in Nat
    OBVIOUS
  <2>3. f[a] = 0 + v
    BY <1>2, <1>5, <2>1, <2>2, SumFrom
  <2>4. v \in Nat
    BY <1>2, <1>5, RunningFacts
  <2>5. QED
    BY <2>3, <2>4
<1> HIDE DEF v
<1>12. Adds(g, v, wt, b)
  <2>1. g[0] = v
    BY <1>2, <1>11
  <2>2. ASSUME NEW i \in 1..b PROVE g[i] = g[i - 1] + wt[i]
    <3>1. i \in 0..b /\ i - 1 \in 0..b
      BY <1>2
    <3>2. f[a + i] = f[a + (i - 1)] + wu[a + i]
      BY <1>9, <1>10 DEF Adds
    <3>3. g[i] = f[a + i] /\ g[i - 1] = f[a + (i - 1)]
      BY <3>1
    <3>4. QED
      BY <1>9, <3>2, <3>3
  <2> HIDE DEF g
  <2>3. QED
    BY <2>1, <2>2 DEF Adds
<1>13. g[b] = f[c]
  BY <1>2, <1>7
<1> HIDE DEF g
<1>14. g[b] = v + SumOf(wt, b)
  BY <1>2, <1>5, <1>11, <1>12, SumFrom
<1>15. LE(u) = LE(s) + LE(t)
  BY <1>4, <1>13, <1>14
<1>16. QED
  BY <1>1, <1>2, <1>7, <1>15 DEF a, b

\* A word, in the order of the engine's hosts.
LEMMA WordSum ==
  ASSUME NEW x \in Nat, NEW y \in Nat
  PROVE  <<x, y>> \in Seq(Nat) /\ Len(<<x, y>>) = 2 /\ LE(<<x, y>>) = x + Radix * y
<1> DEFINE s == <<x, y>>
           w == LittleEndian(s)
           r == Running(w, 2)
           z == Radix * y
<1>1. s \in Seq(Nat) /\ Len(s) = 2 /\ s[1] = x /\ s[2] = y
  OBVIOUS
<1> HIDE DEF s
<1>2. w = [i \in 1..2 |-> IF i % 2 = 1 THEN s[i] ELSE Radix * s[i]]
  BY <1>1 DEF LittleEndian
<1>3. w[1] = x /\ w[2] = z
  <2>1. 1 \in 1..2 /\ 2 \in 1..2 /\ 1 % 2 = 1 /\ 2 % 2 = 0
    OBVIOUS
  <2>2. QED
    BY <1>1, <1>2, <2>1
<1>4. w \in [1..2 -> Nat]
  BY <1>1, SummandTypes
<1> HIDE DEF w, z
<1>5. r \in [0..2 -> Nat] /\ Adds(r, 0, w, 2)
  <2>1. 2 \in Nat
    OBVIOUS
  <2>2. QED
    BY <1>4, <2>1, RunningFacts
<1> HIDE DEF r
<1>6. r[1] = r[0] + w[1] /\ r[2] = r[1] + w[2] /\ r[0] = 0
  <2>1. 1 \in 1..2 /\ 2 \in 1..2 /\ 1 - 1 = 0 /\ 2 - 1 = 1
    OBVIOUS
  <2>2. r[1] = r[1 - 1] + w[1] /\ r[2] = r[2 - 1] + w[2] /\ r[0] = 0
    BY <1>5, <2>1 DEF Adds
  <2>3. QED
    BY <2>1, <2>2
<1>7. z \in Nat
  BY RadixAssumption DEF z
<1>8. r[2] = x + z
  BY <1>3, <1>6, <1>7
<1>9. LE(s) = r[2]
  BY <1>1 DEF LE, SumOf, r, w
<1>10. QED
  BY <1>1, <1>8, <1>9 DEF s, z

\* Nothing has the sum 0.
LEMMA NoSum ==
  <<>> \in Seq(Nat) /\ Len(<<>>) = 0 /\ LE(<<>>) = 0
<1> DEFINE s == <<>>
           w == LittleEndian(s)
<1>1. s \in Seq(Nat) /\ Len(s) = 0
  OBVIOUS
<1> HIDE DEF s
<1>2. w \in [1..0 -> Nat] /\ 0 \in Nat
  BY <1>1, SummandTypes
<1> HIDE DEF w
<1>3. Running(w, 0)[0] = 0
  BY <1>2, RunningFacts DEF Adds
<1>4. LE(s) = 0
  BY <1>1, <1>3 DEF LE, SumOf, w
<1>5. QED
  BY <1>1, <1>4 DEF s

\* The modulus.
LEMMA Modulus ==
  /\ Radix \in Nat /\ Radix >= 2 /\ U16 = Radix * Radix /\ U16 \in Nat
  /\ M \in Nat /\ M >= 3 /\ U16 = M + 1
<1>1. Radix \in Nat /\ Radix >= 2
  BY RadixAssumption
<1>2. U16 = Radix * Radix /\ M = U16 - 1
  BY DEF U16, M
<1>3. U16 \in Nat /\ U16 >= 4
  BY <1>1, <1>2
<1>4. QED
  BY <1>1, <1>2, <1>3

\* The multiple e of M is the difference between the sum in one order, times Radix,
\* and the sum in the other.
LEMMA OrdersAgree ==
  ASSUME NEW s \in Seq(Nat)
  PROVE  /\ \E e \in Nat : Radix * LE(s) = BE(s) + M * e
         /\ LE(s) <= Radix * BE(s)
<1> DEFINE m == Len(s)
           wl == LittleEndian(s)
           wb == NetworkOrder(s)
           we == Seconds(s)
           l == Running(wl, m)
           b == Running(wb, m)
           e == Running(we, m)
           S == {k \in Nat : k <= m => /\ Radix * l[k] = b[k] + M * e[k]
                                       /\ l[k] <= Radix * b[k]}
<1>1. /\ m \in Nat /\ wl \in [1..m -> Nat] /\ wb \in [1..m -> Nat] /\ we \in [1..m -> Nat]
  BY SummandTypes
<1>2. \A i \in 1..m : s[i] \in Nat
  OBVIOUS
<1>3. \A i \in 1..m : /\ wl[i] = IF i % 2 = 1 THEN s[i] ELSE Radix * s[i]
                      /\ wb[i] = IF i % 2 = 1 THEN Radix * s[i] ELSE s[i]
                      /\ we[i] = IF i % 2 = 1 THEN 0 ELSE s[i]
  BY DEF LittleEndian, NetworkOrder, Seconds
<1>4. LE(s) = l[m] /\ BE(s) = b[m]
  BY DEF LE, BE, SumOf
<1> HIDE DEF m, wl, wb, we
<1>5. l \in [0..m -> Nat] /\ Adds(l, 0, wl, m)
  BY <1>1, RunningFacts
<1>6. b \in [0..m -> Nat] /\ Adds(b, 0, wb, m)
  BY <1>1, RunningFacts
<1>7. e \in [0..m -> Nat] /\ Adds(e, 0, we, m)
  BY <1>1, RunningFacts
<1> HIDE DEF l, b, e
<1>8. 0 \in S
  <2>1. l[0] = 0 /\ b[0] = 0 /\ e[0] = 0
    BY <1>5, <1>6, <1>7 DEF Adds
  <2>2. Radix * 0 = 0 /\ M * 0 = 0
    BY Modulus
  <2>3. QED
    BY <2>1, <2>2
<1>9. ASSUME NEW k \in Nat, k \in S PROVE k + 1 \in S
  <2>1. SUFFICES ASSUME k + 1 <= m
                 PROVE  /\ Radix * l[k + 1] = b[k + 1] + M * e[k + 1]
                        /\ l[k + 1] <= Radix * b[k + 1]
    OBVIOUS
  <2>2. k <= m /\ k + 1 \in 1..m /\ (k + 1) - 1 = k /\ k \in 0..m
    BY <1>1, <2>1
  <2> DEFINE x == s[k + 1]
             lk == l[k]
             bk == b[k]
             ek == e[k]
             y == Radix * x
  <2>3. /\ l[k + 1] = lk + wl[k + 1] /\ b[k + 1] = bk + wb[k + 1] /\ e[k + 1] = ek + we[k + 1]
    BY <1>5, <1>6, <1>7, <2>2 DEF Adds
  <2>4. x \in Nat /\ lk \in Nat /\ bk \in Nat /\ ek \in Nat
    BY <1>2, <1>5, <1>6, <1>7, <2>2
  <2>5. Radix * lk = bk + M * ek /\ lk <= Radix * bk
    BY <1>9, <2>2
  <2>6. \/ l[k + 1] = lk + x /\ b[k + 1] = bk + y /\ e[k + 1] = ek + 0
        \/ l[k + 1] = lk + y /\ b[k + 1] = bk + x /\ e[k + 1] = ek + x
    BY <1>3, <2>2, <2>3
  <2> HIDE DEF x, lk, bk, ek
  <2>7. /\ y \in Nat /\ Radix * y = M * x + x /\ x <= Radix * y
        /\ Radix * (lk + x) = Radix * lk + y
        /\ Radix * (lk + y) = Radix * lk + Radix * y
        /\ Radix * (bk + y) = Radix * bk + Radix * y
        /\ Radix * (bk + x) = Radix * bk + y
        /\ M * (ek + x) = M * ek + M * x
    <3>1. y \in Nat /\ M * x \in Nat
      BY <2>4, Modulus
    <3>2. Radix * y = U16 * x
      BY <2>4, Modulus
    <3>3. U16 * x = M * x + x
      BY <2>4, Modulus
    <3>4. Radix * (lk + x) = Radix * lk + y
      BY <2>4, Modulus
    <3>5. Radix * (bk + x) = Radix * bk + y
      BY <2>4, Modulus
    <3>6. M * (ek + x) = M * ek + M * x
      BY <2>4, Modulus
    <3> HIDE DEF y
    <3>7. Radix * (lk + y) = Radix * lk + Radix * y
      BY <2>4, <3>1, Modulus
    <3>8. Radix * (bk + y) = Radix * bk + Radix * y
      BY <2>4, <3>1, Modulus
    <3>9. x <= Radix * y
      BY <2>4, <3>1, <3>2, <3>3
    <3>10. QED
      BY <3>1, <3>2, <3>3, <3>4, <3>5, <3>6, <3>7, <3>8, <3>9
  <2> HIDE DEF y
  <2> DEFINE rl == Radix * lk
             rb == Radix * bk
             ry == Radix * y
             me == M * ek
             mx == M * x
  <2>8. rl \in Nat /\ rb \in Nat /\ ry \in Nat /\ me \in Nat /\ mx \in Nat
    BY <2>4, <2>7, Modulus
  <2>9. CASE l[k + 1] = lk + x /\ b[k + 1] = bk + y /\ e[k + 1] = ek + 0
    <3>1. Radix * (lk + x) = rl + y /\ Radix * (bk + y) = rb + ry /\ ek + 0 = ek
      BY <2>4, <2>7
    <3>2. rl = bk + me /\ lk <= rb /\ x <= ry /\ y \in Nat
      BY <2>5, <2>7
    <3> HIDE DEF rl, rb, ry, me
    <3>3. rl + y = (bk + y) + me /\ lk + x <= rb + ry
      BY <2>4, <2>8, <3>2
    <3>4. QED
      BY <2>9, <3>1, <3>3 DEF me
  <2>10. CASE l[k + 1] = lk + y /\ b[k + 1] = bk + x /\ e[k + 1] = ek + x
    <3>1. Radix * (lk + y) = rl + ry /\ Radix * (bk + x) = rb + y /\ M * (ek + x) = me + mx
      BY <2>7
    <3>2. rl = bk + me /\ lk <= rb /\ ry = mx + x /\ y \in Nat
      BY <2>5, <2>7
    <3> HIDE DEF rl, rb, ry, me, mx
    <3>3. rl + ry = (bk + x) + (me + mx) /\ lk + y <= rb + y
      BY <2>4, <2>8, <3>2
    <3>4. QED
      BY <2>10, <3>1, <3>3
  <2>11. QED
    BY <2>6, <2>9, <2>10
<1> HIDE DEF S
<1>10. m \in S
  BY <1>1, <1>8, <1>9, SetInduction
<1>11. Radix * l[m] = b[m] + M * e[m] /\ l[m] <= Radix * b[m] /\ e[m] \in Nat
  BY <1>1, <1>7, <1>10 DEF S
<1>12. QED
  BY <1>4, <1>11

\* A quotient and its remainder are unique.
LEMMA Unique ==
  ASSUME NEW n \in Nat, n >= 1, NEW p \in Int, NEW q \in Int, NEW r \in Int, NEW t \in Int,
         r >= 0, r < n, t >= 0, t < n, n * p + r = n * q + t
  PROVE  p = q /\ r = t
<1> DEFINE d == p - q
<1>1. d \in Int /\ n * d = n * p - n * q
  OBVIOUS
<1>2. n * p \in Int /\ n * q \in Int
  OBVIOUS
<1>3. n * d = t - r
  <2> DEFINE x == n * p
             y == n * q
  <2>1. x \in Int /\ y \in Int /\ x + r = y + t
    OBVIOUS
  <2> HIDE DEF x, y
  <2>2. x - y = t - r
    BY <2>1
  <2>3. QED
    BY <1>1, <2>2 DEF x, y
<1> HIDE DEF d
<1>4. ~(d >= 1)
  <2>1. SUFFICES ASSUME d >= 1 PROVE FALSE
    OBVIOUS
  <2>2. n * d >= n
    BY <1>1, <2>1
  <2>3. QED
    BY <1>3, <2>2
<1>5. ~(d <= -1)
  <2>1. SUFFICES ASSUME d <= -1 PROVE FALSE
    OBVIOUS
  <2>2. n * d <= -n
    BY <1>1, <2>1
  <2>3. QED
    BY <1>3, <2>2
<1>6. d = 0
  BY <1>1, <1>4, <1>5
<1>7. n * d = 0
  BY <1>6
<1>8. QED
  BY <1>3, <1>6, <1>7 DEF d

\* What is left of a number when the carries are added until there are none: 0 of
\* 0, and the remainder in 1..M of any other.
Folded(n) == IF n = 0 THEN 0 ELSE ((n - 1) % M) + 1

\* It differs from the number by a multiple of M.
LEMMA FoldedFacts ==
  ASSUME NEW n \in Nat
  PROVE  /\ Folded(n) \in Nat /\ Folded(n) <= M /\ (n = 0 <=> Folded(n) = 0)
         /\ \E q \in Nat : n = Folded(n) + M * q
<1>1. M \in Nat /\ M >= 3
  BY Modulus
<1>2. CASE n = 0
  <2>1. n = 0 + M * 0
    BY <1>1, <1>2
  <2>2. QED
    BY <1>1, <1>2, <2>1 DEF Folded
<1>3. CASE n # 0
  <2> DEFINE k == n - 1
             r == k % M
             q == k \div M
  <2>1. k \in Nat
    BY <1>3
  <2> HIDE DEF k
  <2>2. r \in Nat /\ r < M /\ q \in Nat /\ k = M * q + r
    BY <1>1, <2>1
  <2>3. Folded(n) = r + 1
    BY <1>3 DEF Folded, k
  <2>4. n = k + 1
    BY DEF k
  <2> DEFINE x == M * q
  <2>5. x \in Nat
    BY <1>1, <2>2
  <2> HIDE DEF r, q, x
  <2>6. k = x + r
    BY <2>2 DEF x
  <2>7. n = (r + 1) + x /\ r + 1 \in Nat /\ r + 1 <= M /\ r + 1 # 0
    BY <1>1, <2>2, <2>4, <2>5, <2>6
  <2>8. n = Folded(n) + M * q
    BY <2>3, <2>7 DEF x
  <2>9. QED
    BY <1>3, <2>2, <2>3, <2>7, <2>8
<1>4. QED
  BY <1>2, <1>3

\* And it is the only such number.
LEMMA FoldedIs ==
  ASSUME NEW n \in Nat, n # 0, NEW r \in Nat, r >= 1, r <= M, NEW q \in Int, n = r + M * q
  PROVE  Folded(n) = r
<1>1. M \in Nat /\ M >= 3
  BY Modulus
<1>2. PICK p \in Nat : n = Folded(n) + M * p
  BY FoldedFacts
<1>3. Folded(n) \in Nat /\ Folded(n) <= M /\ Folded(n) # 0
  BY FoldedFacts
<1> DEFINE f == Folded(n)
           x == M * p
           y == M * q
<1>4. x \in Int /\ y \in Int
  BY <1>1
<1>5. x + (f - 1) = y + (r - 1)
  <2>1. n = f + x /\ n = r + y /\ f \in Nat
    BY <1>2, <1>3
  <2> HIDE DEF f, x, y
  <2>2. QED
    BY <1>4, <2>1
<1>6. f - 1 \in Int /\ f - 1 >= 0 /\ f - 1 < M /\ r - 1 \in Int /\ r - 1 >= 0 /\ r - 1 < M
  <2> HIDE DEF f
  <2>1. f \in Nat /\ f <= M /\ f # 0
    BY <1>3 DEF f
  <2>2. QED
    BY <1>1, <2>1
<1> DEFINE a == f - 1
           b == r - 1
<1>7. M * p + a = M * q + b /\ a \in Int /\ a >= 0 /\ a < M /\ b \in Int /\ b >= 0 /\ b < M
  BY <1>5, <1>6
<1>8. a = b
  <2> HIDE DEF a, b
  <2>1. p \in Int /\ M >= 1
    BY <1>1
  <2>2. QED
    BY <1>1, <1>7, <2>1, Unique
<1>9. f \in Nat
  BY <1>3
<1> HIDE DEF f
<1>10. f = r
  BY <1>8, <1>9
<1>11. QED
  BY <1>10 DEF f

\* Numbers that differ by a multiple of M leave the same.
LEMMA SameFolded ==
  ASSUME NEW k \in Nat, NEW n \in Nat, k = 0 <=> n = 0, NEW q \in Int, k = n + M * q
  PROVE  Folded(k) = Folded(n)
<1>1. CASE n = 0
  BY <1>1 DEF Folded
<1>2. CASE n # 0
  <2>1. PICK p \in Nat : n = Folded(n) + M * p
    BY FoldedFacts
  <2>2. Folded(n) \in Nat /\ Folded(n) <= M /\ Folded(n) # 0
    BY <1>2, FoldedFacts
  <2> DEFINE r == Folded(n)
             c == p + q
             x == M * p
             y == M * q
  <2>3. M \in Nat /\ c \in Int /\ M * c = x + y /\ x \in Int /\ y \in Int
    BY Modulus
  <2>4. n = r + x /\ k = n + y /\ r \in Nat /\ r >= 1 /\ r <= M
    <3> HIDE DEF r
    <3>1. r \in Nat /\ r # 0 /\ r <= M
      BY <2>2 DEF r
    <3>2. QED
      BY <2>1, <3>1 DEF r
  <2> HIDE DEF x, y, c, r
  <2>5. k = r + M * c
    BY <2>3, <2>4
  <2>6. Folded(k) = r
    BY <1>2, <2>3, <2>4, <2>5, FoldedIs
  <2>7. QED
    BY <2>6 DEF r
<1>3. QED
  BY <1>1, <1>2

\* The carry of a number, added to the rest of it, leaves the same.
LEMMA CarryFolded ==
  ASSUME NEW n \in Nat, n >= U16
  PROVE  LET k == (n % U16) + (n \div U16)
         IN  k \in Nat /\ k < n /\ Folded(n) = Folded(k)
<1> DEFINE r == n % U16
           q == n \div U16
           k == r + q
           x == M * q
<1>1. M \in Nat /\ M >= 3 /\ U16 = M + 1 /\ U16 \in Nat
  BY Modulus
<1>2. r \in Nat /\ r < U16 /\ q \in Nat /\ n = U16 * q + r
  <2> DEFINE u == U16
  <2>1. u \in Nat /\ u >= 1 /\ q = n \div u /\ r = n % u
    BY <1>1
  <2> HIDE DEF r, q, u
  <2>2. r \in Nat /\ r < u /\ q \in Nat /\ n = u * q + r
    BY <2>1
  <2>3. QED
    BY <2>2 DEF u
<1> HIDE DEF r, q
<1>3. x \in Nat /\ U16 * q = x + q
  BY <1>1, <1>2
<1>4. q >= 1
  <2>1. SUFFICES ASSUME q = 0 PROVE FALSE
    BY <1>2
  <2>2. U16 * q = 0
    BY <1>1, <2>1
  <2>3. QED
    BY <1>1, <1>2, <2>2
<1>5. x >= M
  BY <1>1, <1>2, <1>4
<1> HIDE DEF x
<1>6. n = k + x /\ k \in Nat /\ k # 0 /\ n # 0 /\ k < n
  BY <1>1, <1>2, <1>3, <1>4, <1>5
<1> HIDE DEF k
<1>7. Folded(n) = Folded(k)
  <2>1. n = k + M * q /\ q \in Int /\ (n = 0 <=> k = 0)
    BY <1>2, <1>6 DEF x
  <2>2. QED
    BY <1>6, <2>1, SameFolded
<1>8. QED
  BY <1>6, <1>7 DEF k, r, q

\* Whatever adds carries until there are none ends with what Folded says.
Folds(f) == \A n \in Nat : f[n] = IF n < U16 THEN n ELSE f[(n % U16) + (n \div U16)]

\* A number without a carry is left as it is.
LEMMA NoCarry ==
  ASSUME NEW n \in Nat, n < U16
  PROVE  Folded(n) = n
<1>1. M \in Nat /\ M >= 3 /\ U16 = M + 1
  BY Modulus
<1>2. CASE n = 0
  BY <1>2 DEF Folded
<1>3. CASE n # 0
  <2>1. n >= 1 /\ n <= M /\ n = n + M * 0 /\ 0 \in Int
    BY <1>1, <1>3
  <2>2. QED
    BY <1>3, <2>1, FoldedIs
<1>4. QED
  BY <1>2, <1>3

\* What is reached by adding the carries.
LEMMA FoldsUnique ==
  ASSUME NEW f, Folds(f)
  PROVE  \A n \in Nat : f[n] = Folded(n)
<1> DEFINE T == {n \in Nat : f[n] # Folded(n)}
<1>1. SUFFICES ASSUME T # {} PROVE FALSE
  OBVIOUS
<1>2. T \in SUBSET Nat
  OBVIOUS
<1>3. PICK n \in T : \A k \in T : n <= k
  <2> HIDE DEF T
  <2>1. QED
    BY <1>1, <1>2, NatLeast
<1>4. n \in Nat /\ f[n] # Folded(n)
  OBVIOUS
<1>5. CASE n < U16
  BY <1>4, <1>5, NoCarry DEF Folds
<1>6. CASE ~(n < U16)
  <2> DEFINE k == (n % U16) + (n \div U16)
  <2>1. n >= U16
    BY <1>4, <1>6, Modulus
  <2>2. k \in Nat /\ k < n /\ Folded(n) = Folded(k)
    BY <1>4, <2>1, CarryFolded
  <2>3. f[n] = f[k]
    BY <1>4, <1>6 DEF Folds
  <2> HIDE DEF k
  <2>4. k \notin T
    <3> HIDE DEF T
    <3>1. QED
      BY <1>3, <1>4, <2>2
  <2>5. QED
    BY <1>4, <2>2, <2>3, <2>4
<1>7. QED
  BY <1>5, <1>6

\* calc_checksum is the sum of its words with the carries added.
LEMMA ChecksumIs ==
  ASSUME NEW v \in Nat, NEW s \in Seq(Nat)
  PROVE  calc_checksum(v, s) = Folded(v + LE(s))
<1> DEFINE m == Len(s)
           w == LittleEndian(s)
           DS(g) == [i \in 0..m |->
                       IF i = 0 THEN v
                       ELSE g[i - 1] + (IF i % 2 = 1 THEN s[i] ELSE Radix * s[i])]
           DF(g) == [n \in Nat |-> IF n < U16 THEN n ELSE g[(n % U16) + (n \div U16)]]
           S == CHOOSE g : g = DS(g)
           F == CHOOSE g : g = DF(g)
<1>1. calc_checksum(v, s) = F[S[m]]
  BY DEF calc_checksum
<1>2. m \in Nat /\ w \in [1..m -> Nat] /\ LE(s) = SumOf(w, m) /\ LE(s) \in Nat
  BY SummandTypes DEF LE
<1>3. \A i \in 1..m : w[i] = IF i % 2 = 1 THEN s[i] ELSE Radix * s[i]
  BY DEF LittleEndian
<1> HIDE DEF m, w
<1>4. ASSUME NEW i \in 0..m, i # 0 PROVE i \in 1..m
  BY <1>2, <1>4
<1>5. S = DS(S)
  <2>1. PICK f \in Sums(v, w, m) : TRUE
    BY <1>2, SumsExist
  <2>2. f \in [0..m -> Nat] /\ f[0] = v /\ \A i \in 1..m : f[i] = f[i - 1] + w[i]
    BY DEF Sums
  <2>3. f = DS(f)
    <3>1. ASSUME NEW i \in 0..m
          PROVE  f[i] = IF i = 0 THEN v
                        ELSE f[i - 1] + (IF i % 2 = 1 THEN s[i] ELSE Radix * s[i])
      <4>1. CASE i = 0
        BY <2>2, <4>1
      <4>2. CASE i # 0
        BY <1>3, <1>4, <2>2, <4>2
      <4>3. QED
        BY <4>1, <4>2
    <3>2. QED
      BY <2>2, <3>1
  <2> HIDE DEF DS
  <2>4. QED
    BY <2>3
<1>6. F = DF(F)
  <2> DEFINE f == [n \in Nat |-> Folded(n)]
  <2>1. ASSUME NEW n \in Nat
        PROVE  f[n] = IF n < U16 THEN n ELSE f[(n % U16) + (n \div U16)]
    <3>1. CASE n < U16
      BY <3>1, NoCarry
    <3>2. CASE ~(n < U16)
      <4> DEFINE k == (n % U16) + (n \div U16)
      <4>1. n >= U16
        BY <3>2, Modulus
      <4>2. k \in Nat /\ Folded(n) = Folded(k)
        BY <4>1, CarryFolded
      <4> HIDE DEF k
      <4>3. f[n] = f[k]
        BY <4>2
      <4>4. QED
        BY <3>2, <4>3 DEF k
    <3>3. QED
      BY <3>1, <3>2
  <2>2. f = DF(f)
    BY <2>1
  <2> HIDE DEF DF, f
  <2>3. QED
    BY <2>2
<1> HIDE DEF S, F
<1>7. S[m] = v + LE(s)
  <2>1. S[0] = v
    BY <1>2, <1>5
  <2>2. ASSUME NEW i \in 1..m PROVE S[i] = S[i - 1] + w[i]
    <3>1. i \in 0..m /\ i # 0
      BY <1>2
    <3>2. S[i] = S[i - 1] + (IF i % 2 = 1 THEN s[i] ELSE Radix * s[i])
      BY <1>5, <3>1
    <3>3. QED
      BY <1>3, <3>2
  <2>3. Adds(S, v, w, m)
    BY <2>1, <2>2 DEF Adds
  <2>4. QED
    BY <1>2, <2>3, SumFrom
<1>8. Folds(F)
  BY <1>6 DEF Folds
<1>9. v + LE(s) \in Nat
  BY <1>2
<1>10. F[v + LE(s)] = Folded(v + LE(s))
  BY <1>8, <1>9, FoldsUnique
<1>11. QED
  BY <1>1, <1>7, <1>10

\* The receiver's sum.
LEMMA VerifiesIs ==
  ASSUME NEW s \in Seq(Nat), BE(s) > 0, BE(s) % M = 0
  PROVE  Verifies(s)
<1> DEFINE m == Len(s)
           w == NetworkOrder(s)
           DS(g) == [i \in 0..m |->
                       IF i = 0 THEN 0
                       ELSE g[i - 1] + (IF i % 2 = 1 THEN Radix * s[i] ELSE s[i])]
           S == CHOOSE g : g = DS(g)
<1>1. Verifies(s) <=> S[m] > 0 /\ S[m] % M = 0
  BY DEF Verifies, M
<1>2. m \in Nat /\ w \in [1..m -> Nat] /\ BE(s) = SumOf(w, m) /\ BE(s) \in Nat
  BY SummandTypes DEF BE
<1>3. \A i \in 1..m : w[i] = IF i % 2 = 1 THEN Radix * s[i] ELSE s[i]
  BY DEF NetworkOrder
<1> HIDE DEF m, w
<1>4. ASSUME NEW i \in 0..m, i # 0 PROVE i \in 1..m
  BY <1>2, <1>4
<1>5. S = DS(S)
  <2>1. PICK f \in Sums(0, w, m) : TRUE
    <3>1. 0 \in Nat
      OBVIOUS
    <3>2. QED
      BY <1>2, <3>1, SumsExist
  <2>2. f \in [0..m -> Nat] /\ f[0] = 0 /\ \A i \in 1..m : f[i] = f[i - 1] + w[i]
    BY DEF Sums
  <2>3. f = DS(f)
    <3>1. ASSUME NEW i \in 0..m
          PROVE  f[i] = IF i = 0 THEN 0
                        ELSE f[i - 1] + (IF i % 2 = 1 THEN Radix * s[i] ELSE s[i])
      <4>1. CASE i = 0
        BY <2>2, <4>1
      <4>2. CASE i # 0
        BY <1>3, <1>4, <2>2, <4>2
      <4>3. QED
        BY <4>1, <4>2
    <3>2. QED
      BY <2>2, <3>1
  <2> HIDE DEF DS
  <2>4. QED
    BY <2>3
<1> HIDE DEF S
<1>6. S[0] = 0
  BY <1>2, <1>5
<1>7. ASSUME NEW i \in 1..m PROVE S[i] = S[i - 1] + w[i]
  <2>1. i \in 0..m /\ i # 0
    BY <1>2
  <2>2. S[i] = S[i - 1] + (IF i % 2 = 1 THEN Radix * s[i] ELSE s[i])
    BY <1>5, <2>1
  <2>3. QED
    BY <1>3, <2>2
<1>8. Adds(S, 0, w, m)
  BY <1>6, <1>7 DEF Adds
<1>9. S[m] = 0 + SumOf(w, m)
  <2>1. 0 \in Nat
    OBVIOUS
  <2>2. QED
    BY <1>2, <1>8, <2>1, SumFrom
<1>10. S[m] = BE(s)
  BY <1>2, <1>9
<1>11. QED
  BY <1>1, <1>10

\* The carries may be added between two parts of the sum as well.
LEMMA FoldedSum ==
  ASSUME NEW a \in Nat, NEW b \in Nat
  PROVE  Folded(Folded(a) + b) = Folded(a + b)
<1> DEFINE f == Folded(a)
           k == a + b
           n == f + b
<1>1. PICK q \in Nat : a = f + M * q
  BY FoldedFacts
<1>2. f \in Nat /\ (a = 0 <=> f = 0)
  BY FoldedFacts
<1> DEFINE x == M * q
<1>3. x \in Nat
  BY Modulus
<1> HIDE DEF f, x
<1>4. a = f + x
  BY <1>1 DEF x
<1>5. k \in Nat /\ n \in Nat /\ (k = 0 <=> n = 0) /\ k = n + x
  BY <1>2, <1>3, <1>4
<1> HIDE DEF k, n
<1>6. k = n + M * q /\ q \in Int
  BY <1>5 DEF x
<1>7. Folded(k) = Folded(n)
  BY <1>5, <1>6, SameFolded
<1>8. QED
  BY <1>7 DEF k, n, f

\* With its complement the sum is a multiple of M, and not 0.
LEMMA Completed ==
  ASSUME NEW x \in Nat
  PROVE  LET c == Complement(Folded(x))
         IN  c \in Nat /\ c <= M /\ \E k \in Nat : k >= 1 /\ x + c = M * k
<1> DEFINE f == Folded(x)
           c == Complement(f)
<1>1. PICK q \in Nat : x = f + M * q
  BY FoldedFacts
<1>2. f \in Nat /\ f <= M /\ M \in Nat
  BY FoldedFacts, Modulus
<1>3. c = M - f
  BY DEF Complement, M
<1> DEFINE y == M * q
           k == q + 1
<1>4. y \in Nat /\ M * k = y + M
  BY <1>2
<1> HIDE DEF f, c, y
<1>5. x = f + y
  BY <1>1 DEF y
<1>6. c \in Nat /\ c <= M /\ x + c = y + M
  BY <1>2, <1>3, <1>4, <1>5
<1>7. k \in Nat /\ k >= 1 /\ x + c = M * k
  BY <1>4, <1>6
<1> HIDE DEF k
<1>8. QED
  BY <1>6, <1>7 DEF c, f

\* The receiver accepts bytes of which the engine's sum is a multiple of M.
LEMMA ReceiverAccepts ==
  ASSUME NEW u \in Seq(Nat), NEW k \in Nat, k >= 1, LE(u) = M * k
  PROVE  Verifies(u)
<1> DEFINE l == LE(u)
           b == BE(u)
<1>1. l \in Nat /\ b \in Nat
  BY SummandTypes
<1>2. PICK e \in Nat : Radix * l = b + M * e
  BY OrdersAgree
<1>3. l <= Radix * b
  BY OrdersAgree
<1>4. l = M * k
  OBVIOUS
<1> HIDE DEF l, b
<1>5. M \in Nat /\ M >= 3 /\ Radix \in Nat
  BY Modulus
<1>6. b > 0
  <2>1. SUFFICES ASSUME b = 0 PROVE FALSE
    BY <1>1
  <2>2. Radix * b = 0
    BY <1>5, <2>1
  <2>3. M * k >= M
    BY <1>5
  <2>4. QED
    BY <1>1, <1>3, <1>4, <1>5, <2>2, <2>3
<1> DEFINE rk == Radix * k
           z == rk - e
<1>7. b = M * z /\ z \in Int
  <2>1. rk \in Nat /\ Radix * l = M * rk
    BY <1>4, <1>5
  <2> HIDE DEF rk
  <2>2. z \in Int /\ M * z = M * rk - M * e
    BY <1>5, <2>1
  <2> DEFINE x == M * rk
             y == M * e
  <2>3. x \in Nat /\ y \in Nat /\ x = b + y
    BY <1>2, <1>5, <2>1
  <2>4. M * z = x - y
    BY <2>2
  <2> HIDE DEF x, y, z
  <2>5. QED
    BY <1>1, <2>2, <2>3, <2>4
<1> HIDE DEF z
<1>8. b % M = 0
  <2> DEFINE r == b % M
             q == b \div M
             n == M
  <2>1. n \in Nat /\ n >= 3
    BY <1>5
  <2>2. r = b % n /\ q = b \div n
    OBVIOUS
  <2> HIDE DEF r, q, n
  <2>3. r \in Nat /\ r < n /\ q \in Nat /\ b = n * q + r
    BY <1>1, <2>1, <2>2
  <2>4. b = n * z + 0
    BY <1>1, <1>7 DEF n
  <2>5. r = 0
    <3>1. /\ n >= 1 /\ z \in Int /\ q \in Int /\ r \in Int /\ 0 \in Int
          /\ r >= 0 /\ r < n /\ 0 >= 0 /\ 0 < n /\ n * q + r = n * z + 0
      BY <1>7, <2>1, <2>3, <2>4
    <3>2. QED
      BY <2>1, <3>1, Unique
  <2>6. QED
    BY <2>5 DEF r
<1>9. QED
  BY <1>6, <1>8, VerifiesIs DEF b

\* A number as the engine stores it has itself as its sum.
LEMMA StoredSum ==
  ASSUME NEW n \in Nat
  PROVE  Stored(n) \in Seq(Nat) /\ Len(Stored(n)) = 2 /\ LE(Stored(n)) = n
<1> DEFINE r == n % Radix
           q == n \div Radix
<1>1. Radix \in Nat /\ Radix >= 2 /\ r = n % Radix /\ q = n \div Radix
  BY Modulus
<1>2. Stored(n) = <<r, q>>
  BY DEF Stored
<1> HIDE DEF r, q
<1>3. r \in Nat /\ q \in Nat /\ n = Radix * q + r
  BY <1>1
<1> DEFINE x == Radix * q
<1>4. x \in Nat
  BY <1>1, <1>3
<1> HIDE DEF x
<1>5. n = r + x
  BY <1>3, <1>4 DEF x
<1>6. LE(<<r, q>>) = r + x /\ <<r, q>> \in Seq(Nat) /\ Len(<<r, q>>) = 2
  BY <1>3, WordSum DEF x
<1>7. QED
  BY <1>2, <1>5, <1>6

\* Bytes that fill whole words.
InWords(s) == s \in Seq(Nat) /\ Len(s) % 2 = 0

\* Whole words after whole words.
LEMMA WholeJoined ==
  ASSUME NEW s, InWords(s), NEW t, InWords(t), NEW u, Joined(u, s, t)
  PROVE  InWords(u) /\ LE(u) = LE(s) + LE(t) /\ Len(u) = Len(s) + Len(t) /\ LE(u) \in Nat
<1>1. s \in Seq(Nat) /\ t \in Seq(Nat) /\ Len(s) % 2 = 0 /\ Len(t) % 2 = 0 /\ Joined(u, s, t)
  BY DEF InWords
<1>2. u \in Seq(Nat) /\ Len(u) = Len(s) + Len(t) /\ LE(u) = LE(s) + LE(t)
  BY <1>1, SumJoined
<1> DEFINE a == Len(s)
           b == Len(t)
<1>3. a \in Nat /\ b \in Nat /\ a % 2 = 0 /\ b % 2 = 0
  <2>1. s \in Seq(Nat) /\ t \in Seq(Nat)
    BY <1>1
  <2>2. Len(s) \in Nat /\ Len(t) \in Nat
    BY <2>1, LenProperties
  <2>3. QED
    BY <1>1, <2>2, Zenon
<1> HIDE DEF a, b
<1>4. (a + b) % 2 = 0
  BY <1>3
<1>5. LE(u) \in Nat
  BY <1>2, SummandTypes
<1>6. QED
  BY <1>2, <1>4, <1>5 DEF InWords, a, b

\* Four parts.
Four(u, a, b, c, d) == u = a \o b \o c \o d

\* The same for them.
LEMMA WholeFour ==
  ASSUME NEW a, InWords(a), NEW b, InWords(b), NEW c, InWords(c), NEW d, InWords(d),
         NEW u, Four(u, a, b, c, d)
  PROVE  /\ InWords(u) /\ LE(u) = ((LE(a) + LE(b)) + LE(c)) + LE(d)
         /\ LE(a) \in Nat /\ LE(b) \in Nat /\ LE(c) \in Nat /\ LE(d) \in Nat
<1> DEFINE v == a \o b
           w == v \o c
<1>1. Joined(u, w, d)
  BY DEF Four, Joined
<1>2. Joined(v, a, b) /\ Joined(w, v, c)
  BY DEF Joined
<1> HIDE DEF v, w
<1>3. InWords(v) /\ LE(v) = LE(a) + LE(b)
  BY <1>2, WholeJoined
<1>4. InWords(w) /\ LE(w) = LE(v) + LE(c)
  BY <1>2, <1>3, WholeJoined
<1>5. InWords(u) /\ LE(u) = LE(w) + LE(d)
  BY <1>1, <1>4, WholeJoined
<1>6. LE(a) \in Nat /\ LE(b) \in Nat /\ LE(c) \in Nat /\ LE(d) \in Nat
  BY SummandTypes DEF InWords
<1>7. QED
  BY <1>3, <1>4, <1>5, <1>6

\* The parts of headers are whole words.
LEMMA WholeParts ==
  /\ \A w \in OneWord : InWords(w) /\ Len(w) = 2
  /\ \A n \in Nat : InWords(htons(n)) /\ Len(htons(n)) = 2
  /\ \A n \in Nat : InWords(Stored(n)) /\ Len(Stored(n)) = 2
  /\ \A n \in Nat : InWords(<<0, n>>)
  /\ \A n \in Nat : InWords(<<0, 0, 0, n>>)
  /\ InWords(<<>>)
  /\ Len(<<0, 0>>) = 2 /\ LE(<<0, 0>>) = 0
<1>1. 2 % 2 = 0 /\ 4 % 2 = 0 /\ 0 % 2 = 0
  OBVIOUS
<1>2. ASSUME NEW w \in OneWord PROVE InWords(w) /\ Len(w) = 2
  <2>1. w \in [1..2 -> Nat]
    BY RadixAssumption DEF OneWord, Byte
  <2>2. w \in Seq(Nat) /\ Len(w) = 2
    <3>1. 2 \in Nat
      OBVIOUS
    <3>2. w \in Seq(Nat)
      <4>1. Seq(Nat) = UNION {[1..n -> Nat] : n \in Nat}
        BY SeqDef
      <4>2. [1..2 -> Nat] \in {[1..n -> Nat] : n \in Nat}
        BY <3>1
      <4>3. QED
        BY <2>1, <4>1, <4>2, Zenon
    <3>3. DOMAIN w = 1..2
      BY <2>1
    <3>4. DOMAIN w = 1..Len(w) /\ Len(w) \in Nat
      BY <3>2, LenProperties
    <3>5. QED
      BY <3>2, <3>3, <3>4
  <2>3. QED
    BY <1>1, <2>2 DEF InWords
<1>3. ASSUME NEW x \in Nat, NEW y \in Nat PROVE InWords(<<x, y>>) /\ Len(<<x, y>>) = 2
  BY <1>1 DEF InWords
<1>4. ASSUME NEW n \in Nat PROVE InWords(htons(n)) /\ Len(htons(n)) = 2
  <2> DEFINE r == n % Radix
             q == n \div Radix
  <2>1. Radix \in Nat /\ Radix >= 2 /\ r = n % Radix /\ q = n \div Radix
    BY Modulus
  <2>2. htons(n) = <<q, r>>
    BY DEF htons
  <2> HIDE DEF r, q
  <2>3. r \in Nat /\ q \in Nat
    BY <2>1
  <2>4. QED
    BY <1>3, <2>2, <2>3
<1>5. ASSUME NEW n \in Nat PROVE InWords(Stored(n)) /\ Len(Stored(n)) = 2
  BY <1>1, StoredSum DEF InWords
<1>6. ASSUME NEW n \in Nat PROVE InWords(<<0, n>>)
  BY <1>3
<1>7. ASSUME NEW n \in Nat PROVE InWords(<<0, 0, 0, n>>)
  BY <1>1 DEF InWords
<1>8. InWords(<<>>)
  BY <1>1 DEF InWords
<1>9. Len(<<0, 0>>) = 2 /\ LE(<<0, 0>>) = 0
  <2>1. 0 \in Nat
    OBVIOUS
  <2>2. LE(<<0, 0>>) = 0 + Radix * 0 /\ Len(<<0, 0>>) = 2
    BY <2>1, WordSum
  <2>3. 0 + Radix * 0 = 0
    BY Modulus
  <2>4. QED
    BY <2>2, <2>3
<1>10. QED
  BY <1>2, <1>4, <1>5, <1>6, <1>7, <1>8, <1>9

\* What a segment consists of.
LEMMA SegmentFacts ==
  ASSUME NEW s \in Segment
  PROVE  /\ InWords(s.src) /\ InWords(s.dst) /\ InWords(s.fields) /\ Len(s.fields) = 2
         /\ InWords(s.options) /\ s.data \in Seq(Nat) /\ Len(s.data) \in Nat /\ Protocol(s) \in Nat
<1>1. /\ s.kind \in {"tcp", "udp", "icmp"} /\ s.src \in OneWord /\ s.dst \in OneWord
      /\ s.fields \in OneWord /\ s.options \in {<<>>} \cup OneWord /\ s.data \in Seq(Byte)
  BY DEF Segment
<1>2. InWords(s.src) /\ InWords(s.dst) /\ InWords(s.fields) /\ Len(s.fields) = 2 /\ InWords(s.options)
  BY <1>1, WholeParts
<1>3. s.data \in Seq(Nat) /\ Len(s.data) \in Nat
  <2>1. Byte \subseteq Nat
    BY RadixAssumption DEF Byte
  <2>2. s.data \in Seq(Nat)
    BY <1>1, <2>1, SeqMonotonic
  <2>3. QED
    BY <2>2
<1>4. Protocol(s) \in Nat
  <2> DEFINE n == CASE s.kind = "tcp" -> 6 [] s.kind = "udp" -> 17 [] s.kind = "icmp" -> 1
  <2>1. n \in Nat
    BY <1>1
  <2>2. Protocol(s) = n % Radix
    BY DEF Protocol
  <2> HIDE DEF n
  <2>3. n % Radix \in Nat
    BY <2>1, Modulus
  <2>4. QED
    BY <2>2, <2>3
<1>5. QED
  BY <1>2, <1>3, <1>4

\* A header without the place of its checksum.
Unchecked(s) == s.fields \o (IF s.kind = "udp" THEN htons(6 + Len(s.data)) ELSE <<>>)

\* What the header is.
LEMMA SegmentHeader ==
  ASSUME NEW s \in Segment
  PROVE  /\ InWords(Unchecked(s)) /\ InWords(HeaderOf(s)) /\ LE(HeaderOf(s)) = LE(Unchecked(s))
         /\ Len(HeaderOf(s)) = Len(Unchecked(s)) + 2 /\ Len(Unchecked(s)) \in Nat
         /\ SubSeq(HeaderOf(s), 1, Len(HeaderOf(s)) - 2) = Unchecked(s)
<1> DEFINE f == Unchecked(s)
           h == HeaderOf(s)
           z == <<0, 0>>
           l == IF s.kind = "udp" THEN htons(6 + Len(s.data)) ELSE <<>>
           n == Len(f)
<1>1. Joined(f, s.fields, l)
  BY DEF Unchecked, Joined
<1>2. Joined(h, f, z)
  BY DEF HeaderOf, Unchecked, Joined
<1>3. InWords(l)
  <2>1. 6 + Len(s.data) \in Nat
    <3> DEFINE d == Len(s.data)
    <3>1. d \in Nat
      BY SegmentFacts
    <3> HIDE DEF d
    <3>2. 6 + d \in Nat
      BY <3>1
    <3>3. QED
      BY <3>2 DEF d
  <2>2. QED
    BY <2>1, WholeParts
<1>4. InWords(z) /\ Len(z) = 2 /\ LE(z) = 0
  <2>1. 0 \in Nat
    OBVIOUS
  <2>2. QED
    BY <2>1, WholeParts
<1> HIDE DEF f, h, z, l
<1>5. InWords(s.fields) /\ Len(s.fields) = 2
  BY SegmentFacts
<1>6. InWords(f) /\ n = 2 + Len(l) /\ LE(f) \in Nat
  BY <1>1, <1>3, <1>5, WholeJoined
<1>7. InWords(h) /\ Len(h) = n + 2 /\ LE(h) = LE(f) + 0
  <2>1. InWords(h) /\ LE(h) = LE(f) + LE(z) /\ Len(h) = Len(f) + Len(z)
    BY <1>2, <1>4, <1>6, WholeJoined
  <2>2. QED
    BY <1>4, <2>1
<1>8. LE(h) = LE(f)
  BY <1>6, <1>7
<1>9. n \in Nat /\ n >= 2
  <2> DEFINE k == Len(l)
  <2>1. l \in Seq(Nat)
    BY <1>3 DEF InWords
  <2>2. k \in Nat
    BY <2>1, LenProperties
  <2> HIDE DEF k, n
  <2>3. n = 2 + k
    BY <1>6 DEF k, n
  <2>4. QED
    BY <2>2, <2>3
<1>10. SubSeq(h, 1, Len(h) - 2) = f
  <2>1. f \in Seq(Nat) /\ z \in Seq(Nat)
    BY <1>4, <1>6 DEF InWords
  <2>2. SubSeq(f \o z, 1, Len(f)) = SubSeq(f, 1, Len(f))
    <3>1. 1 \in 1..Len(f) /\ Len(f) \in 1..Len(f)
      BY <1>9
    <3>2. QED
      BY <2>1, <3>1, SubSeqOfConcat1
  <2>3. SubSeq(f, 1, Len(f)) = f
    BY <2>1, SubSeqFull
  <2>4. Len(h) - 2 = Len(f)
    <3> HIDE DEF n
    <3>1. Len(h) - 2 = n
      BY <1>7, <1>9
    <3>2. QED
      BY <3>1 DEF n
  <2>5. QED
    BY <1>2, <2>2, <2>3, <2>4 DEF Joined
<1>11. QED
  BY <1>6, <1>7, <1>8, <1>9, <1>10 DEF f, h

\* The engine's pseudo header has the sum of the receiver's.
LEMMA PseudoSum ==
  ASSUME NEW s \in Segment, s.kind # "icmp", NEW n \in Nat, n = Length(s)
  PROVE  /\ InWords(Pseudo(s)) /\ InWords(PseudoHeader(s, n))
         /\ LE(Pseudo(s)) \in Nat /\ LE(PseudoHeader(s, n)) = LE(Pseudo(s))
<1> DEFINE a == s.src
           b == s.dst
           l == htons(n)
           p == Protocol(s)
           z == <<0, 0>>
           q == <<0, 0, 0, p>>
           i == Pseudo(s)
           o == PseudoHeader(s, n)
<1>1. InWords(a) /\ InWords(b) /\ p \in Nat
  BY SegmentFacts
<1> HIDE DEF p
<1>2. InWords(l) /\ InWords(z) /\ InWords(q) /\ InWords(<<0, p>>)
  <2>1. 0 \in Nat
    OBVIOUS
  <2>2. QED
    BY <1>1, <2>1, WholeParts
<1>3. CASE s.version = 4
  <2> DEFINE y == <<0, p>>
  <2>1. Four(i, a, b, y, l) /\ o = i
    BY <1>3 DEF Pseudo, PseudoHeader, Four, p
  <2> HIDE DEF i, o, a, b, y, l
  <2>2. InWords(i)
    BY <1>1, <1>2, <2>1, WholeFour DEF y
  <2>3. i \in Seq(Nat)
    BY <2>2 DEF InWords
  <2>4. LE(i) \in Nat
    BY <2>3, SummandTypes
  <2>5. QED
    BY <2>1, <2>2, <2>4 DEF i, o
<1>4. CASE s.version # 4
  <2>1. i = b \o a \o l \o z \o q /\ o = a \o b \o z \o l \o q
    BY <1>4 DEF Pseudo, PseudoHeader, p
  <2> DEFINE x == b \o a \o l \o z
             y == a \o b \o z \o l
  <2>2. Four(x, b, a, l, z) /\ Four(y, a, b, z, l) /\ Joined(i, x, q) /\ Joined(o, y, q)
    BY <2>1 DEF Four, Joined
  <2> HIDE DEF i, o, a, b, l, z, q, x, y
  <2>3. /\ InWords(x) /\ LE(x) = ((LE(b) + LE(a)) + LE(l)) + LE(z)
        /\ LE(a) \in Nat /\ LE(b) \in Nat /\ LE(l) \in Nat /\ LE(z) \in Nat
    BY <1>1, <1>2, <2>2, WholeFour
  <2>4. InWords(y) /\ LE(y) = ((LE(a) + LE(b)) + LE(z)) + LE(l)
    BY <1>1, <1>2, <2>2, WholeFour
  <2>5. LE(x) = LE(y)
    BY <2>3, <2>4
  <2>6. InWords(i) /\ LE(i) = LE(x) + LE(q) /\ LE(i) \in Nat
    BY <1>2, <2>2, <2>3, WholeJoined
  <2>7. InWords(o) /\ LE(o) = LE(y) + LE(q)
    BY <1>2, <2>2, <2>4, WholeJoined
  <2>8. QED
    BY <2>5, <2>6, <2>7 DEF i, o
<1>5. QED
  BY <1>3, <1>4

\* The length of the contents.
LEMMA LengthFacts ==
  ASSUME NEW s \in Segment
  PROVE  /\ Length(s) \in Nat
         /\ Length(s) = ((Len(Unchecked(s)) + 2) + Len(s.options)) + Len(s.data)
<1>1. Len(HeaderOf(s)) = Len(Unchecked(s)) + 2 /\ Len(Unchecked(s)) \in Nat
  BY SegmentHeader
<1>2. Len(s.options) \in Nat /\ Len(s.data) \in Nat
  <2>1. s.options \in Seq(Nat) /\ s.data \in Seq(Nat)
    BY SegmentFacts DEF InWords
  <2>2. QED
    BY <2>1, LenProperties
<1> DEFINE a == Len(Unchecked(s))
           b == Len(s.options)
           c == Len(s.data)
<1>3. Length(s) = ((a + 2) + b) + c
  BY <1>1 DEF Length
<1> HIDE DEF a, b, c
<1>4. ((a + 2) + b) + c \in Nat
  <2>1. a \in Nat /\ b \in Nat /\ c \in Nat
    BY <1>1, <1>2 DEF a, b, c
  <2>2. QED
    BY <2>1
<1>5. QED
  BY <1>3, <1>4 DEF a, b, c

\* The kernel accepts the header of an IPv4 packet.
LEMMA IpVerifies ==
  ASSUME NEW s \in Segment, s.version = 4
  PROVE  Verifies(IpHeader(s))
<1> DEFINE n == 10 + Length(s)
           l == htons(n)
           p == <<0, Protocol(s)>>
           g == l \o p \o s.src \o s.dst
           z == <<0, 0>>
           u == g \o z
           x == LE(g)
           c == Complement(calc_checksum(0, u))
           t == Stored(c)
           i == IpHeader(s)
<1>1. n \in Nat
  <2> DEFINE k == Length(s)
  <2>1. k \in Nat
    BY LengthFacts
  <2> HIDE DEF k
  <2>2. 10 + k \in Nat
    BY <2>1
  <2>3. QED
    BY <2>2 DEF k
<1>2. InWords(l) /\ InWords(p) /\ InWords(s.src) /\ InWords(s.dst)
  BY <1>1, SegmentFacts, WholeParts
<1>3. InWords(z) /\ LE(z) = 0
  <2>1. 0 \in Nat
    OBVIOUS
  <2>2. QED
    BY <2>1, WholeParts
<1>4. Four(g, l, p, s.src, s.dst)
  BY DEF Four
<1>5. Joined(u, g, z)
  BY DEF Joined
<1>6. Joined(i, g, t)
  BY DEF IpHeader, Joined
<1>7. c = Complement(calc_checksum(0, u))
  OBVIOUS
<1> HIDE DEF l, p, g, z, u, t, i, n, c
<1>8. InWords(g)
  BY <1>2, <1>4, WholeFour
<1>9. x \in Nat
  BY <1>8, SummandTypes DEF InWords
<1>10. InWords(u) /\ LE(u) = x + 0
  <2>1. InWords(u) /\ LE(u) = LE(g) + LE(z)
    BY <1>3, <1>5, <1>8, WholeJoined
  <2>2. QED
    BY <1>3, <2>1
<1> HIDE DEF x
<1>11. c = Complement(Folded(x))
  <2>1. LE(u) = x /\ 0 + LE(u) = x
    BY <1>9, <1>10
  <2>2. u \in Seq(Nat) /\ 0 \in Nat
    BY <1>10 DEF InWords
  <2>3. calc_checksum(0, u) = Folded(0 + LE(u))
    BY <2>2, ChecksumIs
  <2>4. QED
    BY <1>7, <2>1, <2>3
<1>12. c \in Nat
  BY <1>9, <1>11, Completed
<1>13. PICK k \in Nat : k >= 1 /\ x + c = M * k
  BY <1>9, <1>11, Completed
<1>14. InWords(t) /\ LE(t) = c
  BY <1>12, StoredSum, WholeParts DEF t
<1>15. InWords(i) /\ LE(i) = x + c
  <2>1. InWords(i) /\ LE(i) = LE(g) + LE(t)
    BY <1>6, <1>8, <1>14, WholeJoined
  <2>2. QED
    BY <1>14, <2>1 DEF x
<1>16. i \in Seq(Nat) /\ LE(i) = M * k
  BY <1>13, <1>15 DEF InWords
<1>17. Verifies(i)
  BY <1>13, <1>16, ReceiverAccepts
<1>18. QED
  BY <1>17 DEF i

\* A segment as the assumption on Segments has it.
Proper(s) ==
  s \in Segment /\ (s.kind # "tcp" => s.options = <<>>) /\ (s.kind = "icmp" => s.version = 4)

\* The parts of which the checksum is one sum.
Summed(s) ==
  ((LE(PseudoHeader(s, Length(s))) + LE(Unchecked(s))) + LE(s.options)) + LE(s.data)

\* The checksum is that of the sum, however it is divided.
LEMMA CheckIs ==
  ASSUME NEW s, Proper(s)
  PROVE  /\ InWords(PseudoHeader(s, Length(s))) /\ Summed(s) \in Nat
         /\ Check(s) = Complement(Folded(Summed(s)))
<1> DEFINE h == HeaderOf(s)
           o == s.options
           d == s.data
           e == PseudoHeader(s, Length(s))
           a == LE(e)
           b == LE(Unchecked(s))
           c == LE(o)
           g == LE(d)
<1>1. s \in Segment /\ (s.kind # "tcp" => o = <<>>)
  BY DEF Proper
<1>2. InWords(h) /\ LE(h) = b /\ h \in Seq(Nat)
  BY <1>1, SegmentHeader DEF InWords
<1>3. o \in Seq(Nat) /\ d \in Seq(Nat)
  BY <1>1, SegmentFacts DEF InWords
<1>4. b \in Nat /\ c \in Nat /\ g \in Nat
  <2>1. LE(h) \in Nat /\ LE(o) \in Nat /\ LE(d) \in Nat
    BY <1>2, <1>3, SummandTypes
  <2>2. QED
    BY <1>2, <2>1
<1>5. Summed(s) = ((a + b) + c) + g
  BY DEF Summed
<1>6. CASE s.kind = "icmp"
  <2> DEFINE u == h \o d
  <2>1. e = <<>> /\ o = <<>>
    BY <1>1, <1>6 DEF PseudoHeader
  <2>2. InWords(e) /\ a = 0 /\ c = 0
    BY <2>1, NoSum, WholeParts
  <2>3. Joined(u, h, d) /\ Len(h) % 2 = 0
    BY <1>2 DEF Joined, InWords
  <2>4. Check(s) = Complement(calc_checksum(0, u))
    BY <1>6 DEF Check
  <2> HIDE DEF u, h, d, o, e
  <2>5. u \in Seq(Nat) /\ LE(u) = LE(h) + LE(d)
    BY <1>2, <1>3, <2>3, SumJoined
  <2>6. calc_checksum(0, u) = Folded(0 + LE(u))
    <3>1. 0 \in Nat
      OBVIOUS
    <3>2. QED
      BY <2>5, <3>1, ChecksumIs
  <2>7. LE(u) = b + g
    BY <1>2, <2>5
  <2> HIDE DEF a, b, c, g
  <2>8. ((a + b) + c) + g = b + g /\ b + g \in Nat /\ 0 + (b + g) = b + g
    BY <1>4, <2>2
  <2>9. Check(s) = Complement(Folded(b + g))
    BY <2>4, <2>6, <2>7, <2>8
  <2>10. QED
    BY <1>5, <2>2, <2>8, <2>9 DEF e
<1>7. CASE s.kind # "icmp"
  <2> DEFINE i == Pseudo(s)
             n == Length(s)
             c1 == calc_checksum(0, i)
             c2 == calc_checksum(c1, h)
             c3 == calc_checksum(c2, o)
             c4 == calc_checksum(c3, d)
  <2>1. Check(s) = Complement(c4)
    BY <1>7 DEF Check
  <2>2. n \in Nat
    BY <1>1, LengthFacts
  <2>3. InWords(i) /\ InWords(e) /\ a = LE(i) /\ a \in Nat
    BY <1>1, <1>7, <2>2, PseudoSum
  <2>4. i \in Seq(Nat)
    BY <2>3 DEF InWords
  <2> HIDE DEF i, h, o, d, e, n
  <2>5. c1 = Folded(a)
    <3>1. 0 \in Nat
      OBVIOUS
    <3>2. c1 = Folded(0 + LE(i))
      BY <2>4, <3>1, ChecksumIs
    <3>3. 0 + LE(i) = a
      BY <2>3
    <3>4. QED
      BY <3>2, <3>3
  <2> DEFINE x == a + b
             y == x + c
  <2> HIDE DEF a, b, c, g
  <2>6. x \in Nat /\ y \in Nat /\ y + g \in Nat
    BY <1>4, <2>3
  <2> HIDE DEF x, y
  <2>7. c2 = Folded(x)
    <3>1. c1 \in Nat
      BY <2>3, <2>5, FoldedFacts
    <3> HIDE DEF c1
    <3>2. c2 = Folded(c1 + LE(h))
      BY <1>2, <3>1, ChecksumIs
    <3>3. c2 = Folded(Folded(a) + b)
      BY <1>2, <2>5, <3>2
    <3>4. QED
      BY <1>4, <2>3, <3>3, FoldedSum DEF x
  <2> HIDE DEF c2
  <2>8. c3 = Folded(y)
    <3>1. c2 \in Nat
      BY <2>6, <2>7, FoldedFacts
    <3>2. c3 = Folded(c2 + LE(o))
      BY <1>3, <3>1, ChecksumIs
    <3>3. c3 = Folded(Folded(x) + c)
      BY <2>7, <3>2 DEF c
    <3>4. QED
      BY <1>4, <2>6, <3>3, FoldedSum DEF y
  <2> HIDE DEF c3
  <2>9. c4 = Folded(y + g)
    <3>1. c3 \in Nat
      BY <2>6, <2>8, FoldedFacts
    <3>2. c4 = Folded(c3 + LE(d))
      BY <1>3, <3>1, ChecksumIs
    <3>3. c4 = Folded(Folded(y) + g)
      BY <2>8, <3>2 DEF g
    <3>4. QED
      BY <1>4, <2>6, <3>3, FoldedSum
  <2>10. Summed(s) = y + g
    BY <1>5 DEF x, y
  <2>11. QED
    BY <2>1, <2>3, <2>6, <2>9, <2>10 DEF e
<1>8. QED
  BY <1>6, <1>7

\* The checksum of the packet is right.
LEMMA ContentsVerify ==
  ASSUME NEW s, Proper(s)
  PROVE  Verifies(PseudoHeader(s, Len(Contents(s))) \o Contents(s))
<1> DEFINE f == Unchecked(s)
           o == s.options
           d == s.data
           e == PseudoHeader(s, Length(s))
           c == Check(s)
           t == Stored(c)
           v == f \o t
           w == v \o o
           p == Contents(s)
           u == e \o p
           x == Summed(s)
<1>1. s \in Segment
  BY DEF Proper
<1>2. InWords(e) /\ x \in Nat /\ c = Complement(Folded(x))
  BY CheckIs
<1>3. InWords(f) /\ InWords(o) /\ d \in Seq(Nat)
  BY <1>1, SegmentFacts, SegmentHeader
<1>4. Joined(v, f, t) /\ Joined(w, v, o) /\ Joined(u, e, p)
  BY DEF Joined
<1>5. Joined(p, w, d)
  BY <1>1, SegmentHeader DEF Contents, Joined
<1>6. x = ((LE(e) + LE(f)) + LE(o)) + LE(d)
  BY DEF Summed
<1>7. Length(s) = ((Len(f) + 2) + Len(o)) + Len(d)
  BY <1>1, LengthFacts
<1> HIDE DEF f, o, d, e, c, t, v, w, p, u, x
<1>8. c \in Nat
  BY <1>2, Completed
<1>9. PICK k \in Nat : k >= 1 /\ x + c = M * k
  BY <1>2, Completed
<1>10. InWords(t) /\ LE(t) = c /\ Len(t) = 2
  BY <1>8, StoredSum, WholeParts DEF t
<1>11. InWords(v) /\ LE(v) = LE(f) + LE(t) /\ Len(v) = Len(f) + Len(t)
  BY <1>3, <1>4, <1>10, WholeJoined
<1>12. InWords(w) /\ LE(w) = LE(v) + LE(o) /\ Len(w) = Len(v) + Len(o)
  BY <1>3, <1>4, <1>11, WholeJoined
<1>13. p \in Seq(Nat) /\ LE(p) = LE(w) + LE(d) /\ Len(p) = Len(w) + Len(d)
  BY <1>3, <1>5, <1>12, SumJoined DEF InWords
<1>14. u \in Seq(Nat) /\ LE(u) = LE(e) + LE(p)
  BY <1>2, <1>4, <1>13, SumJoined DEF InWords
<1>15. Len(p) = Length(s)
  BY <1>7, <1>10, <1>11, <1>12, <1>13
<1>16. LE(u) = M * k
  <2>1. LE(e) \in Nat /\ LE(f) \in Nat /\ LE(o) \in Nat /\ LE(d) \in Nat
    BY <1>2, <1>3, SummandTypes DEF InWords
  <2>2. LE(u) = LE(e) + (((LE(f) + c) + LE(o)) + LE(d))
    BY <1>10, <1>11, <1>12, <1>13, <1>14
  <2>3. LE(u) = x + c
    BY <1>6, <1>8, <2>1, <2>2
  <2>4. QED
    BY <1>9, <2>3
<1>17. Verifies(u)
  BY <1>9, <1>14, <1>16, ReceiverAccepts
<1>18. QED
  BY <1>15, <1>17 DEF u, e, p

\* The elements of c are those of a, and then those of b.
InARow(c, a, b) ==
  /\ \A i \in 1..Len(a) : c[i] = a[i]
  /\ \A i \in 1..Len(b) : c[Len(a) + i] = b[i]

\* The elements of two sequences that are joined.
LEMMA ElementsJoined ==
  ASSUME NEW a \in Seq(Nat), NEW b \in Seq(Nat), NEW c, Joined(c, a, b)
  PROVE  c \in Seq(Nat) /\ Len(c) = Len(a) + Len(b) /\ InARow(c, a, b)
<1> DEFINE m == Len(a)
           n == Len(b)
<1>1. m \in Nat /\ n \in Nat
  BY LenProperties
<1> HIDE DEF m, n
<1>2. /\ c \in Seq(Nat) /\ Len(c) = m + n
      /\ \A i \in 1..(m + n) : c[i] = IF i <= m THEN a[i] ELSE b[i - m]
  BY ConcatProperties DEF Joined, m, n
<1>3. ASSUME NEW i \in 1..m PROVE c[i] = a[i]
  <2>1. i \in 1..(m + n) /\ i <= m
    BY <1>1
  <2>2. QED
    BY <1>2, <2>1
<1>4. ASSUME NEW i \in 1..n PROVE c[m + i] = b[i]
  <2> DEFINE j == m + i
  <2>1. j \in 1..(m + n) /\ ~(j <= m) /\ j - m = i
    BY <1>1
  <2> HIDE DEF j
  <2>2. c[j] = b[j - m]
    BY <1>2, <2>1
  <2>3. c[j] = b[i]
    BY <2>1, <2>2
  <2>4. QED
    BY <2>3 DEF j
<1>5. QED
  BY <1>2, <1>3, <1>4 DEF m, n, InARow

\* A UDP packet is written without a checksum if the computed one is zero.
LEMMA ZeroChecksum ==
  ASSUME NEW s, Proper(s)
  PROVE  NoChecksum(s, Contents(s)) <=> s.kind = "udp" /\ Check(s) = 0
<1>1. CASE s.kind # "udp"
  BY <1>1 DEF NoChecksum
<1>2. CASE s.kind = "udp"
  <2> DEFINE c == Check(s)
             f == Unchecked(s)
             t == Stored(c)
             d == s.data
             r == c % Radix
             q == c \div Radix
             p == Contents(s)
             v == f \o t
             o == s.options
  <2>1. s \in Segment /\ o = <<>>
    BY <1>2 DEF Proper
  <2>2. d \in Seq(Nat) /\ f \in Seq(Nat) /\ SubSeq(HeaderOf(s), 1, Len(HeaderOf(s)) - 2) = f
    BY <2>1, SegmentFacts, SegmentHeader DEF InWords
  <2>3. c \in Nat
    <3> DEFINE x == Summed(s)
    <3>1. x \in Nat /\ c = Complement(Folded(x))
      BY CheckIs
    <3> HIDE DEF x, c
    <3>2. QED
      BY <3>1, Completed
  <2>4. t = <<r, q>>
    BY DEF Stored
  <2> HIDE DEF c
  <2>5. Radix \in Nat /\ Radix >= 2 /\ r \in Nat /\ q \in Nat /\ c = Radix * q + r
    BY <2>3, Modulus
  <2>6. r = 0 /\ q = 0 <=> c = 0
    <3> HIDE DEF r, q, c
    <3>1. ASSUME q # 0 PROVE c # 0
      <4> DEFINE y == Radix * q
      <4>1. y \in Nat /\ y >= 1
        BY <2>5, <3>1
      <4> HIDE DEF y
      <4>2. c = y + r
        BY <2>5 DEF y
      <4>3. QED
        BY <2>5, <4>1, <4>2
    <3>2. ASSUME q = 0 PROVE c = r
      <4>1. Radix * q = 0
        BY <2>5, <3>2
      <4>2. QED
        BY <2>5, <4>1
    <3>3. ASSUME c = 0 PROVE q = 0 /\ r = 0
      BY <3>1, <3>2, <3>3
    <3>4. ASSUME q = 0, r = 0 PROVE c = 0
      BY <3>2, <3>4
    <3>5. QED
      BY <3>3, <3>4
  <2>7. Len(f) = 4
    <3> DEFINE k == Len(d)
               n == 6 + k
               z == htons(n)
    <3>1. n \in Nat
      <4>1. k \in Nat
        BY <2>2
      <4> HIDE DEF k
      <4>2. QED
        BY <4>1
    <3>2. Joined(f, s.fields, z)
      BY <1>2 DEF Unchecked, Joined
    <3>3. s.fields \in Seq(Nat) /\ Len(s.fields) = 2
      BY <2>1, SegmentFacts DEF InWords
    <3> HIDE DEF f, n
    <3>4. z \in Seq(Nat) /\ Len(z) = 2
      BY <3>1, WholeParts DEF InWords
    <3> HIDE DEF z
    <3>5. Len(f) = Len(s.fields) + Len(z)
      BY <3>2, <3>3, <3>4, ElementsJoined
    <3>6. QED
      BY <3>3, <3>4, <3>5
  <2> HIDE DEF r, q, f, d, o
  <2>8. t \in Seq(Nat) /\ Len(t) = 2 /\ t[1] = r /\ t[2] = q
    BY <2>4, <2>5
  <2>9. p = ((f \o t) \o o) \o d
    BY <2>2 DEF Contents, f, t, o, d, c
  <2> HIDE DEF t, p
  <2>10. v \in Seq(Nat) /\ Len(v) = 6 /\ v[5] = r /\ v[6] = q
    <3>1. Joined(v, f, t)
      BY DEF Joined
    <3> HIDE DEF v
    <3>2. v \in Seq(Nat) /\ Len(v) = Len(f) + Len(t) /\ InARow(v, f, t)
      BY <2>2, <2>8, <3>1, ElementsJoined
    <3>3. \A i \in 1..2 : v[4 + i] = t[i]
      BY <2>7, <2>8, <3>2 DEF InARow
    <3>4. v[4 + 1] = t[1] /\ v[4 + 2] = t[2]
      BY <3>3
    <3>5. QED
      BY <2>7, <2>8, <3>2, <3>4
  <2> HIDE DEF v
  <2>11. p = v \o d
    <3>1. v \o <<>> = v
      BY <2>10, ConcatEmptySeq
    <3>2. QED
      BY <2>1, <2>9, <3>1 DEF v
  <2>12. p[5] = r /\ p[6] = q
    <3>1. Joined(p, v, d)
      BY <2>11 DEF Joined
    <3>2. InARow(p, v, d)
      BY <2>2, <2>10, <3>1, ElementsJoined
    <3>3. \A i \in 1..6 : p[i] = v[i]
      BY <2>10, <3>2 DEF InARow
    <3>4. QED
      BY <2>10, <3>3
  <2>13. QED
    BY <1>2, <2>6, <2>12 DEF NoChecksum, p, c
<1>3. QED
  BY <1>1, <1>2

\* The kernel accepts what is in the packet, unless it is UDP over IPv6 and its
\* checksum is computed as zero.
LEMMA ContentsAccepted ==
  ASSUME NEW s, Proper(s)
  PROVE  Accepts(s, Contents(s)) <=> ~(s.kind = "udp" /\ s.version = 6 /\ Check(s) = 0)
<1>1. NoChecksum(s, Contents(s)) <=> s.kind = "udp" /\ Check(s) = 0
  BY ZeroChecksum
<1>2. Verifies(PseudoHeader(s, Len(Contents(s))) \o Contents(s))
  BY ContentsVerify
<1>3. s.version = 4 <=> s.version # 6
  BY DEF Proper, Segment
<1>4. QED
  BY <1>1, <1>2, <1>3 DEF Accepts

\* A packet that waits to be written is one of Segments.
Unwritten == segment.pc = "write" => Proper(segment.of)

ChecksumInv == Unwritten /\ ChecksumsVerify

\* Every segment is proper.
LEMMA SegmentsProper ==
  ASSUME NEW s \in Segments
  PROVE  Proper(s)
<1>1. s \in Segment /\ (s.kind # "tcp" => s.options = <<>>) /\ (s.kind = "icmp" => s.version = 4)
  BY WireAssumption
<1>2. QED
  BY <1>1 DEF Proper

\* Nothing is written at first.
LEMMA ChecksumStarts ==
  ASSUME WireInit
  PROVE  ChecksumInv
<1>1. CASE segment = NoSegment
  BY <1>1 DEF ChecksumInv, Unwritten, ChecksumsVerify, NoSegment
<1>2. CASE segment \in {[pc |-> "write", of |-> s] : s \in Segments}
  <2>1. PICK s \in Segments : segment = [pc |-> "write", of |-> s]
    BY <1>2
  <2>2. segment.pc = "write" /\ segment.of = s
    BY <2>1
  <2>3. QED
    BY <2>2, SegmentsProper DEF ChecksumInv, Unwritten, ChecksumsVerify
<1>3. QED
  BY <1>1, <1>2 DEF WireInit

\* What is written is accepted by the kernel, but for the one kind of packet.
LEMMA ChecksumKeeps ==
  ASSUME ChecksumInv, [WireNext]_wireVars
  PROVE  ChecksumInv'
<1>1. CASE UNCHANGED segment
  BY <1>1 DEF ChecksumInv, Unwritten, ChecksumsVerify
<1>2. CASE WritePacket
  <2> DEFINE s == segment.of
             i == IpHeader(s)
             c == Contents(s)
  <2>1. segment.pc = "write" /\ segment' = [pc |-> "written", of |-> s, ip |-> i, contents |-> c]
    BY <1>2 DEF WritePacket
  <2>2. Proper(s) /\ s \in Segment
    BY <2>1 DEF ChecksumInv, Unwritten, Proper
  <2>3. s.version = 4 => Verifies(i)
    BY <2>2, IpVerifies
  <2>4. Accepts(s, c) <=> ~(s.kind = "udp" /\ s.version = 6 /\ Check(s) = 0)
    BY <2>2, ContentsAccepted
  <2> HIDE DEF s, i, c
  <2>5. segment'.pc = "written" /\ segment'.of = s /\ segment'.ip = i /\ segment'.contents = c
    BY <2>1
  <2>6. QED
    BY <2>3, <2>4, <2>5 DEF ChecksumInv, Unwritten, ChecksumsVerify
<1>3. QED
  BY <1>1, <1>2 DEF WireNext, CompareSerials, wireVars

\* The kernel of the device accepts every packet that write_tcp, write_udp and
\* check_icmp_socket write to the tun device, except UDP over IPv6 whose checksum is
\* computed as zero and written as it is, which it discards: for every length of the
\* data, whatever the width of a byte, the checksums calc_checksum computes in the
\* byte order of the host are those the receiver expects.
THEOREM ChecksumSafety == WireSpec => []ChecksumsVerify
<1>1. WireInit => ChecksumInv
  BY ChecksumStarts
<1>2. ChecksumInv /\ [WireNext]_wireVars => ChecksumInv'
  BY ChecksumKeeps
<1>3. ChecksumInv => ChecksumsVerify
  BY DEF ChecksumInv
<1>4. QED
  BY <1>1, <1>2, <1>3, PTL DEF WireSpec

(***************************************************************************)
(* The parsers end.                                                        *)
(***************************************************************************)
\* A bound of the steps parse_sni still takes: in the loop every extension has
\* four bytes at least.
Part == [record |-> 6, session |-> 5, suites |-> 4, compression |-> 3, extensions |-> 2]

TlsLeft ==
  IF tls.pc \in DOMAIN Part THEN RecordSize + Part[tls.pc]
  ELSE IF tls.pc = "loop" THEN tls.edatalen - tls.eindex + 1
  ELSE 0

\* Every step of parse_sni uses up some of a budget that is no more than the
\* length of the payload and six, whatever lengths the app puts into it and
\* wherever the index wraps: no payload keeps the tunnel thread in the loop.
SniAdvances == [][TlsLeft' \in Nat /\ TlsLeft' < TlsLeft]_tlsVars

\* No extension is skipped before the loop, and none beyond its end.
SniBudget ==
  /\ tls.pc = "loop" => tls.eindex <= tls.edatalen
  /\ tls.pc \in DOMAIN Part => tls.eindex = 0

\* What a step has to show.
SniSpends == SniBudget' /\ TlsLeft' \in Nat /\ TlsLeft' < TlsLeft

\* Something is left until the parser is done.
LEMMA SniLeft ==
  ASSUME TlsInv, SniBudget
  PROVE  /\ tls.pc # "done" => TlsLeft \in Nat /\ TlsLeft >= 1
         /\ tls.pc \in DOMAIN Part => TlsLeft = RecordSize + Part[tls.pc] /\ tls.eindex = 0
         /\ DOMAIN Part = {"record", "session", "suites", "compression", "extensions"}
         /\ RecordSize \in Nat
<1>1. /\ tls.pc \in {"record", "session", "suites", "compression", "extensions", "loop", "done"}
      /\ tls.edatalen \in Nat /\ tls.eindex \in Nat
  BY DEF TlsInv, TlsType
<1>2. RecordSize \in Nat
  BY RecordFacts
<1>3. DOMAIN Part = {"record", "session", "suites", "compression", "extensions"}
  BY DEF Part
<1>4. \A pc \in DOMAIN Part : Part[pc] \in Nat /\ Part[pc] >= 1
  BY DEF Part
<1>5. CASE tls.pc \in DOMAIN Part
  <2> DEFINE n == Part[tls.pc]
  <2>1. TlsLeft = RecordSize + n
    BY <1>5 DEF TlsLeft
  <2>2. n \in Nat /\ n >= 1
    BY <1>4, <1>5
  <2> HIDE DEF n
  <2>3. RecordSize + n \in Nat /\ RecordSize + n >= 1
    BY <1>2, <2>2
  <2>4. QED
    BY <1>2, <1>3, <1>5, <2>1, <2>3 DEF SniBudget, n
<1>6. CASE tls.pc = "loop"
  <2>1. TlsLeft = tls.edatalen - tls.eindex + 1
    BY <1>3, <1>6 DEF TlsLeft
  <2>2. tls.eindex <= tls.edatalen
    BY <1>6 DEF SniBudget
  <2>3. QED
    BY <1>1, <1>2, <1>3, <1>6, <2>1, <2>2
<1>7. CASE tls.pc = "done"
  BY <1>2, <1>3, <1>7
<1>8. QED
  BY <1>1, <1>3, <1>5, <1>6, <1>7

\* The parser ends.
LEMMA RefuseSpends ==
  ASSUME TlsInv, SniBudget, tls.pc # "done", Refuse
  PROVE  SniSpends
<1>1. tls'.pc = "done"
  BY DEF TlsInv, TlsType, Refuse
<1>2. DOMAIN Part = {"record", "session", "suites", "compression", "extensions"}
  BY SniLeft
<1>3. SniBudget' /\ TlsLeft' = 0
  BY <1>1, <1>2 DEF SniBudget, TlsLeft
<1>4. TlsLeft \in Nat /\ TlsLeft >= 1
  BY SniLeft
<1>5. QED
  BY <1>3, <1>4 DEF SniSpends

\* The parser goes on to a later part before the loop.
LEMMA AdvanceSpends ==
  ASSUME TlsInv, SniBudget, UNCHANGED record, tls.pc \in DOMAIN Part,
         NEW pc \in DOMAIN Part, Part[pc] < Part[tls.pc], NEW i, NEW n, Advance(pc, i, n)
  PROVE  SniSpends
<1>1. tls'.pc = pc /\ tls'.eindex = tls.eindex
  BY DEF TlsInv, TlsType, Advance
<1>2. tls.eindex = 0 /\ TlsLeft = RecordSize + Part[tls.pc] /\ RecordSize \in Nat
  BY SniLeft
<1>3. DOMAIN Part = {"record", "session", "suites", "compression", "extensions"}
  BY SniLeft
<1>4. SniBudget'
  BY <1>1, <1>2, <1>3 DEF SniBudget
<1>5. TlsLeft' = RecordSize + Part[pc]
  BY <1>1 DEF TlsLeft, RecordSize
<1>6. Part[pc] \in Nat /\ Part[tls.pc] \in Nat
  BY DEF Part
<1> DEFINE x == Part[pc]
           y == Part[tls.pc]
<1>7. x \in Nat /\ y \in Nat /\ x < y
  BY <1>6
<1> HIDE DEF x, y
<1>8. RecordSize + x \in Nat /\ RecordSize + x < RecordSize + y
  BY <1>2, <1>7
<1>9. QED
  BY <1>2, <1>4, <1>5, <1>8 DEF SniSpends, x, y

\* The loop starts with the extensions the record has room for.
LEMMA OpenSpends ==
  ASSUME TlsInv, SniBudget, OpenExtensions
  PROVE  SniSpends
<1> DEFINE e == Word(record.data, tls.index)
           j == Wrapped(tls.index + 2)
           r == Larger(tls.read, tls.index + 1)
<1>1. tls.pc = "extensions" /\ record' = record
  BY DEF OpenExtensions
<1>2. CASE Refuse
  BY <1>1, <1>2, RefuseSpends
<1>3. CASE /\ j + e = RecordSize
           /\ tls' = [tls EXCEPT !.pc = "loop", !.index = j, !.edatalen = e, !.read = r]
  <2>1. "extensions" \in DOMAIN Part /\ Part["extensions"] = 2
    BY DEF Part
  <2>2. TlsLeft = RecordSize + 2 /\ tls.eindex = 0 /\ RecordSize \in Nat
    BY <1>1, <2>1, SniLeft
  <2>3. e \in Nat /\ j \in Nat
    <3> DEFINE i == tls.index
    <3>1. i \in Nat /\ record.data \in Seq(Byte) /\ \A k \in Nat : Wrapped(k) \in Nat
      BY RecordFacts
    <3> HIDE DEF i
    <3>2. i + 2 \in Nat /\ i \in Int
      BY <3>1
    <3>3. Word(record.data, i) \in Nat /\ Wrapped(i + 2) \in Nat
      BY <3>1, <3>2, ByteFacts
    <3>4. QED
      BY <3>3 DEF i
  <2> HIDE DEF e, j, r
  <2>4. tls'.pc = "loop" /\ tls'.edatalen = e /\ tls'.eindex = tls.eindex
    BY <1>3 DEF TlsInv, TlsType
  <2>5. "loop" \notin DOMAIN Part
    BY DEF Part
  <2>6. TlsLeft' = e - 0 + 1 /\ SniBudget'
    BY <2>2, <2>3, <2>4, <2>5 DEF TlsLeft, SniBudget
  <2>7. e - 0 + 1 \in Nat /\ e - 0 + 1 < RecordSize + 2
    BY <1>3, <2>2, <2>3
  <2>8. QED
    BY <2>2, <2>6, <2>7 DEF SniSpends
<1>4. QED
  BY <1>2, <1>3 DEF OpenExtensions

\* An extension that is skipped has four bytes at least.
LEMMA SkipSpends ==
  ASSUME TlsInv, SniBudget, SkipExtension
  PROVE  SniSpends
<1> DEFINE m == ExtLen
           b == Body
           r == Larger(tls.read, tls.index + Body - 1)
           x == tls.eindex
           l == tls.edatalen
<1>1. /\ tls.pc = "loop" /\ x < l /\ b + m <= l
      /\ tls' = [tls EXCEPT !.eindex = b + m, !.read = r]
  BY DEF SkipExtension, ExtFits
<1>2. x \in Nat /\ l \in Nat /\ b = x + 4
  BY RecordFacts DEF Body
<1>3. m \in Nat
  <2> DEFINE i == tls.index + (x + 2)
  <2>1. i \in Int
    <3>1. tls.index \in Nat /\ tls.eindex \in Nat
      BY RecordFacts
    <3>2. QED
      BY <3>1
  <2>2. m = Word(record.data, i)
    BY DEF ExtLen, EWord
  <2> HIDE DEF i
  <2>3. record.data \in Seq(Byte)
    BY RecordFacts
  <2>4. QED
    BY <2>1, <2>2, <2>3, ByteFacts
<1>4. "loop" \notin DOMAIN Part
  BY DEF Part
<1>5. TlsLeft = l - x + 1
  BY <1>1, <1>4 DEF TlsLeft
<1> HIDE DEF m, b, r
<1>6. tls'.pc = "loop" /\ tls'.eindex = b + m /\ tls'.edatalen = l
  BY <1>1 DEF TlsInv, TlsType
<1>7. SniBudget' /\ TlsLeft' = l - (b + m) + 1
  BY <1>1, <1>4, <1>6 DEF SniBudget, TlsLeft
<1> HIDE DEF x, l
<1>8. l - (b + m) + 1 \in Nat /\ l - (b + m) + 1 < l - x + 1
  BY <1>1, <1>2, <1>3
<1>9. QED
  BY <1>5, <1>7, <1>8 DEF SniSpends

\* The name ends the loop.
LEMMA NameSpends ==
  ASSUME TlsInv, SniBudget, ServerName
  PROVE  SniSpends
<1>1. tls.pc = "loop"
  BY DEF ServerName
<1>2. CASE Refuse
  BY <1>1, <1>2, RefuseSpends
<1>3. CASE ~Refuse
  <2> DEFINE l == EWord(Body + 3)
             c == Copy(record.data, tls.index + Body + 5, l)
             n == Larger(tls.read, tls.index + Body + 4 + l)
  <2>1. tls' = [tls EXCEPT !.pc = "done", !.found = TRUE, !.name = c, !.read = n]
    BY <1>3 DEF ServerName
  <2> HIDE DEF l, c, n
  <2>2. tls'.pc = "done"
    BY <2>1 DEF TlsInv, TlsType
  <2>3. "done" \notin DOMAIN Part
    BY DEF Part
  <2>4. SniBudget' /\ TlsLeft' = 0
    BY <2>2, <2>3 DEF SniBudget, TlsLeft
  <2>5. TlsLeft \in Nat /\ TlsLeft >= 1
    BY <1>1, SniLeft
  <2>6. QED
    BY <2>4, <2>5 DEF SniSpends
<1>4. QED
  BY <1>2, <1>3

\* Every step spends some of the budget.
LEMMA SniSteps ==
  ASSUME TlsInv, SniBudget, TlsNext
  PROVE  SniSpends
<1>1. /\ DOMAIN Part = {"record", "session", "suites", "compression", "extensions"}
      /\ Part["session"] < Part["record"] /\ Part["suites"] < Part["session"]
      /\ Part["compression"] < Part["suites"] /\ Part["extensions"] < Part["compression"]
  BY DEF Part
<1>2. CASE CheckRecord
  <2>1. tls.pc = "record" /\ record' = record /\ (Refuse \/ Advance("session", Fixed, RecordLen))
    BY <1>2 DEF CheckRecord
  <2>2. QED
    BY <1>1, <2>1, RefuseSpends, AdvanceSpends
<1>3. CASE SkipSession
  <2>1. /\ tls.pc = "session" /\ record' = record
        /\ Refuse \/ \E i, n : Advance("suites", i, n)
    BY <1>3 DEF SkipSession
  <2>2. QED
    BY <1>1, <2>1, RefuseSpends, AdvanceSpends
<1>4. CASE SkipSuites
  <2>1. /\ tls.pc = "suites" /\ record' = record
        /\ Refuse \/ \E i, n : Advance("compression", i, n)
    BY <1>4 DEF SkipSuites
  <2>2. QED
    BY <1>1, <2>1, RefuseSpends, AdvanceSpends
<1>5. CASE SkipCompression
  <2>1. /\ tls.pc = "compression" /\ record' = record
        /\ Refuse \/ \E i, n : Advance("extensions", i, n)
    BY <1>5 DEF SkipCompression
  <2>2. QED
    BY <1>1, <2>1, RefuseSpends, AdvanceSpends
<1>6. CASE OpenExtensions
  BY <1>6, OpenSpends
<1>7. CASE EndExtensions \/ RefuseExtension
  <2>1. tls.pc = "loop" /\ Refuse
    BY <1>7 DEF EndExtensions, RefuseExtension
  <2>2. QED
    BY <2>1, RefuseSpends
<1>8. CASE SkipExtension
  BY <1>8, SkipSpends
<1>9. CASE ServerName
  BY <1>9, NameSpends
<1>10. QED
  BY <1>2, <1>3, <1>4, <1>5, <1>6, <1>7, <1>8, <1>9 DEF TlsNext

\* Whatever lengths the app puts into the payload, parse_sni ends: each of its steps
\* lowers a natural number that is at most six more than the length of the payload.
THEOREM SniProgress == TlsSpec => SniAdvances
<1> DEFINE Step == TlsLeft' \in Nat /\ TlsLeft' < TlsLeft
           Inv == TlsInv /\ SniBudget
<1>1. TlsInit => Inv
  <2>1. TlsInit => SniBudget
    BY DEF TlsInit, NoTls, SniBudget
  <2>2. QED
    BY <2>1, TlsStarts
<1>2. Inv /\ [TlsNext]_tlsVars => Inv'
  <2> SUFFICES ASSUME Inv, [TlsNext]_tlsVars PROVE SniBudget'
    BY TlsKeeps
  <2>1. CASE TlsNext
    BY <2>1, SniSteps DEF SniSpends
  <2>2. CASE UNCHANGED tlsVars
    BY <2>2 DEF tlsVars, SniBudget
  <2>3. QED
    BY <2>1, <2>2
<1>3. Inv /\ [TlsNext]_tlsVars => [Step]_tlsVars
  BY SniSteps DEF SniSpends
<1>4. QED
  BY <1>1, <1>2, <1>3, PTL DEF TlsSpec, SniAdvances

\* The names that may still be read, and a bound of the steps that remain: of a
\* name MaxHops + 1 parts at most are read before it is left.
NamesLeft ==
  IF parse.pc = "header" THEN response.acount + 2
  ELSE IF parse.to = "question" THEN response.acount + 1
  ELSE response.acount - parse.a

DnsLeft ==
  IF parse.pc \in {"header", "name", "question", "answer"}
  THEN (MaxHops + 4) * NamesLeft
         + (IF parse.pc = "name" THEN MaxHops + 2 - qname.count ELSE 0)
  ELSE 0

\* Every step of parse_dns_response and get_qname uses up some of a budget the
\* count of answers fixes at the start: pointers that form loops, in any number
\* of names, do not keep the tunnel thread in get_qname.
DnsAdvances == [][DnsLeft' \in Nat /\ DnsLeft' < DnsLeft]_dnsVars

\* Where parse_dns_response is, and what may still come.
DnsBudget ==
  /\ parse.a \in Nat
  /\ parse.pc \in {"header", "name", "question", "answer", "done"}
  /\ parse.pc \in {"question", "answer"} => parse.to = parse.pc
  /\ parse.pc = "header" => parse.to = "question"
  /\ parse.to = "question" => parse.a = 0
  /\ parse.pc \in {"name", "question", "answer"} =>
       response.acount > 0 /\ (parse.to = "answer" => parse.a < response.acount)
  /\ parse.pc = "name" => qname.count <= MaxHops + 1

DnsSpends == DnsBudget' /\ DnsLeft' \in Nat /\ DnsLeft' < DnsLeft

\* The budget for m names, and x more steps.
Budget(m, x) == (MaxHops + 4) * m + x

\* It is lower for fewer names, and for the same with fewer steps.
LEMMA BudgetFacts ==
  ASSUME NEW m \in Nat, NEW x \in Nat
  PROVE  /\ Budget(m, x) \in Nat
         /\ m >= 1 \/ x >= 1 => Budget(m, x) > 0
         /\ \A y \in Nat : x < y => Budget(m, x) < Budget(m, y)
         /\ x < MaxHops + 4 => Budget(m, x) < Budget(m + 1, 0)
<1> DEFINE w == MaxHops + 4
           z == w * m
<1>1. w \in Nat /\ w >= 4
  BY DnsAssumption
<1>2. \A k, y \in Nat : Budget(k, y) = w * k + y
  BY DEF Budget
<1> HIDE DEF w
<1>3. z \in Nat /\ w * (m + 1) = z + w /\ (m >= 1 => z >= w)
  BY <1>1
<1>4. Budget(m, x) = z + x /\ Budget(m + 1, 0) = (z + w) + 0 /\ \A y \in Nat : Budget(m, y) = z + y
  BY <1>2, <1>3
<1> HIDE DEF z
<1>5. z + x \in Nat /\ (m >= 1 \/ x >= 1 => z + x > 0) /\ (x < w => z + x < (z + w) + 0)
  BY <1>1, <1>3
<1>6. ASSUME NEW y \in Nat, x < y PROVE z + x < z + y
  BY <1>3, <1>6
<1>7. QED
  BY <1>4, <1>5, <1>6 DEF w

\* The budget in every state.
LEMMA DnsLeftIs ==
  ASSUME DnsInv, DnsBudget
  PROVE  /\ response.acount \in Nat /\ parse.a \in Nat /\ MaxHops \in Nat
         /\ parse.pc = "header" => DnsLeft = Budget(response.acount + 2, 0)
         /\ parse.pc = "question" => DnsLeft = Budget(response.acount + 1, 0)
         /\ parse.pc = "answer" => DnsLeft = Budget(response.acount - parse.a, 0)
         /\ parse.pc = "name" => DnsLeft = Budget(NamesLeft, MaxHops + 2 - qname.count)
<1>1. response.acount \in Nat /\ parse.a \in Nat /\ MaxHops \in Nat
  BY DnsAssumption DEF DnsInv, DnsBudget, Response
<1>2. CASE parse.pc = "header"
  BY <1>1, <1>2 DEF DnsLeft, NamesLeft, Budget
<1>3. CASE parse.pc = "question"
  <2>1. parse.to = "question"
    BY <1>3 DEF DnsBudget
  <2>2. QED
    BY <1>1, <1>3, <2>1 DEF DnsLeft, NamesLeft, Budget
<1>4. CASE parse.pc = "answer"
  <2>1. parse.to = "answer"
    BY <1>4 DEF DnsBudget
  <2>2. QED
    BY <1>1, <1>4, <2>1 DEF DnsLeft, NamesLeft, Budget
<1>5. CASE parse.pc = "name"
  BY <1>1, <1>5 DEF DnsLeft, Budget
<1>6. CASE parse.pc \notin {"header", "question", "answer", "name"}
  BY <1>1, <1>6
<1>7. QED
  BY <1>2, <1>3, <1>4, <1>5, <1>6

\* While a name is read.
LEMMA NamesLeftIs ==
  ASSUME DnsInv, DnsBudget, parse.pc = "name"
  PROVE  /\ NamesLeft \in Nat /\ NamesLeft >= 1
         /\ parse.to = "question" => NamesLeft = response.acount + 1
         /\ parse.to = "answer" => NamesLeft = response.acount - parse.a
         /\ qname.count \in Nat /\ qname.count <= MaxHops + 1 /\ parse.to \in {"question", "answer"}
<1>1. response.acount \in Nat /\ parse.a \in Nat
  BY DnsLeftIs
<1>2. parse.to \in {"question", "answer"} /\ qname.count \in Nat /\ qname.count <= MaxHops + 1
  BY DEF DnsInv, DnsBudget, QnameType
<1>3. NamesLeft = IF parse.to = "question" THEN response.acount + 1 ELSE response.acount - parse.a
  BY DEF NamesLeft
<1>4. parse.to = "answer" => parse.a < response.acount
  BY DEF DnsBudget
<1>5. QED
  BY <1>1, <1>2, <1>3, <1>4

\* The parser ends.
LEMMA DoneSpends ==
  ASSUME DnsInv, DnsBudget, parse.pc # "done",
         parse'.pc = "done", parse'.a \in Nat, parse'.to = "question" => parse'.a = 0
  PROVE  DnsSpends
<1>1. DnsBudget' /\ DnsLeft' = 0
  BY DEF DnsBudget, DnsLeft
<1>2. DnsLeft > 0 /\ DnsLeft \in Nat
  <2>1. parse.pc \in {"header", "name", "question", "answer"}
    BY DEF DnsBudget
  <2> DEFINE k == response.acount
             b == parse.a
  <2>2. k \in Nat /\ b \in Nat /\ MaxHops \in Nat
    BY DnsLeftIs
  <2>3. k + 2 \in Nat /\ k + 2 >= 1 /\ k + 1 \in Nat /\ k + 1 >= 1 /\ 0 \in Nat
    <3> HIDE DEF k
    <3>1. QED
      BY <2>2
  <2>4. CASE parse.pc = "header"
    <3> DEFINE m == k + 2
    <3>1. DnsLeft = Budget(m, 0) /\ m \in Nat /\ m >= 1
      BY <2>3, <2>4, DnsLeftIs
    <3> HIDE DEF m
    <3>2. QED
      BY <2>3, <3>1, BudgetFacts
  <2>5. CASE parse.pc = "question"
    <3> DEFINE m == k + 1
    <3>1. DnsLeft = Budget(m, 0) /\ m \in Nat /\ m >= 1
      BY <2>3, <2>5, DnsLeftIs
    <3> HIDE DEF m
    <3>2. QED
      BY <2>3, <3>1, BudgetFacts
  <2>6. CASE parse.pc = "answer"
    <3>1. b < k
      BY <2>6 DEF DnsBudget
    <3> DEFINE m == k - b
    <3>2. DnsLeft = Budget(m, 0)
      BY <2>6, DnsLeftIs
    <3> HIDE DEF k, b
    <3>3. m \in Nat /\ m >= 1
      BY <2>2, <3>1
    <3> HIDE DEF m
    <3>4. QED
      BY <2>3, <3>2, <3>3, BudgetFacts
  <2>7. CASE parse.pc = "name"
    <3> DEFINE m == NamesLeft
               x == MaxHops + 2 - qname.count
    <3>1. DnsLeft = Budget(m, x)
      BY <2>7, DnsLeftIs
    <3>2. m \in Nat /\ m >= 1 /\ qname.count \in Nat /\ qname.count <= MaxHops + 1
      BY <2>7, NamesLeftIs
    <3>3. x \in Nat
      BY <2>2, <3>2
    <3> HIDE DEF m, x
    <3>4. QED
      BY <3>1, <3>2, <3>3, BudgetFacts
  <2>8. QED
    BY <2>1, <2>4, <2>5, <2>6, <2>7
<1>3. QED
  BY <1>1, <1>2 DEF DnsSpends

\* One more part of a name is read.
LEMMA PartSpends ==
  ASSUME DnsInv, DnsBudget, InLoop, UNCHANGED <<response, parse>>, qname'.count = qname.count + 1
  PROVE  DnsSpends
<1> DEFINE m == NamesLeft
           c == qname.count
           x == MaxHops + 2 - (c + 1)
           y == MaxHops + 2 - c
<1>1. parse.pc = "name" /\ c <= MaxHops
  BY DEF InLoop
<1>2. m \in Nat /\ c \in Nat /\ MaxHops \in Nat
  BY <1>1, NamesLeftIs, DnsLeftIs
<1>3. DnsLeft = Budget(m, y)
  BY <1>1, DnsLeftIs
<1>4. DnsLeft' = Budget(m, x)
  BY <1>1 DEF DnsLeft, NamesLeft, Budget
<1> HIDE DEF m
<1>5. x \in Nat /\ y \in Nat /\ x < y /\ c + 1 <= MaxHops + 1
  <2> HIDE DEF c
  <2>1. c \in Nat /\ c <= MaxHops
    BY <1>1, <1>2 DEF c
  <2>2. QED
    BY <1>2, <2>1
<1>6. DnsBudget'
  BY <1>5 DEF DnsBudget
<1> HIDE DEF x, y
<1>7. Budget(m, x) < Budget(m, y) /\ Budget(m, x) \in Nat
  BY <1>2, <1>5, BudgetFacts
<1>8. QED
  BY <1>3, <1>4, <1>6, <1>7 DEF DnsSpends

\* get_qname returns.
LEMMA ReturnSpends ==
  ASSUME DnsInv, DnsBudget, parse.pc = "name", UNCHANGED response, NEW n, Return(n)
  PROVE  DnsSpends
<1> DEFINE m == NamesLeft
           c == qname.count
           y == MaxHops + 2 - c
<1>1. parse' = [parse EXCEPT !.pc = parse.to, !.off = n] /\ qname' = qname
  BY DEF Return
<1>2. DOMAIN parse = ParseFields
  BY DEF DnsInv
<1>3. parse'.pc = parse.to /\ parse'.to = parse.to /\ parse'.a = parse.a
  BY <1>1, <1>2 DEF ParseFields
<1>4. /\ m \in Nat /\ c \in Nat /\ MaxHops \in Nat /\ c <= MaxHops + 1
      /\ parse.to \in {"question", "answer"}
  BY NamesLeftIs, DnsLeftIs
<1>5. DnsLeft = Budget(m, y)
  BY DnsLeftIs
<1>6. DnsLeft' = Budget(m, 0)
  BY <1>3, <1>4 DEF DnsLeft, NamesLeft, Budget
<1>7. DnsBudget'
  BY <1>3, <1>4 DEF DnsBudget
<1> HIDE DEF m
<1>8. y \in Nat /\ 0 < y /\ 0 \in Nat
  <2> HIDE DEF c
  <2>1. QED
    BY <1>4
<1> HIDE DEF y
<1>9. Budget(m, 0) < Budget(m, y) /\ Budget(m, 0) \in Nat
  BY <1>4, <1>8, BudgetFacts
<1>10. QED
  BY <1>5, <1>6, <1>7, <1>9 DEF DnsSpends

\* get_qname is called: a name less may be read after it.
LEMMA CallSpends ==
  ASSUME DnsInv, UNCHANGED response, response.acount > 0,
         NEW p, DOMAIN p = ParseFields, p.a \in Nat,
         NEW off, NEW to \in {"question", "answer"}, NEW before, Call(p, off, to, before),
         to = "question" => p.a = 0, to = "answer" => p.a < response.acount,
         NEW m \in Nat, m = IF to = "question" THEN response.acount + 1 ELSE response.acount - p.a,
         DnsLeft = Budget(m + 1, 0)
  PROVE  DnsSpends
<1> DEFINE x == MaxHops + 2
<1>1. MaxHops \in Nat
  BY DnsAssumption
<1>2. /\ parse'.to = to /\ parse'.a = p.a
      /\ ((parse'.pc = "name" /\ qname'.count = 0) \/ parse'.pc = to)
  <2>1. CASE off < Size
    <3> DEFINE l == Data(off)
    <3>1. /\ qname' = [off |-> off, ptr |-> off, len |-> l, text |-> <<>>, count |-> 0, jumped |-> FALSE]
          /\ parse' = [p EXCEPT !.pc = "name", !.to = to]
      BY <2>1 DEF Call
    <3> HIDE DEF l
    <3>2. qname'.count = 0
      BY <3>1
    <3>3. parse'.pc = "name" /\ parse'.to = to /\ parse'.a = p.a
      BY <3>1 DEF ParseFields
    <3>4. QED
      BY <3>2, <3>3
  <2>2. CASE ~(off < Size)
    <3>1. parse' = [p EXCEPT !.pc = to, !.to = to, !.off = Fail]
      BY <2>2 DEF Call
    <3>2. QED
      BY <3>1 DEF ParseFields
  <2>3. QED
    BY <2>1, <2>2
<1>3. CASE parse'.pc = "name" /\ qname'.count = 0
  <2>1. DnsBudget'
    BY <1>1, <1>2, <1>3 DEF DnsBudget
  <2>2. NamesLeft' = m
    BY <1>2, <1>3 DEF NamesLeft
  <2>3. DnsLeft' = Budget(m, MaxHops + 2 - 0)
    BY <1>3, <2>2 DEF DnsLeft, Budget
  <2>4. MaxHops + 2 - 0 = x /\ x \in Nat /\ x < MaxHops + 4
    BY <1>1
  <2> HIDE DEF x
  <2>5. Budget(m, x) < Budget(m + 1, 0) /\ Budget(m, x) \in Nat
    BY <2>4, BudgetFacts
  <2>6. QED
    BY <2>1, <2>3, <2>4, <2>5 DEF DnsSpends
<1>4. CASE parse'.pc = to
  <2>1. DnsBudget'
    BY <1>2, <1>4 DEF DnsBudget
  <2>2. NamesLeft' = m
    BY <1>2, <1>4 DEF NamesLeft
  <2>3. DnsLeft' = Budget(m, 0)
    BY <1>4, <2>2 DEF DnsLeft, Budget
  <2>4. 0 \in Nat /\ 0 < MaxHops + 4
    BY <1>1
  <2>5. Budget(m, 0) < Budget(m + 1, 0) /\ Budget(m, 0) \in Nat
    BY <2>4, BudgetFacts
  <2>6. QED
    BY <2>1, <2>3, <2>5 DEF DnsSpends
<1>5. QED
  BY <1>2, <1>3, <1>4

\* The header and the question.
LEMMA QuestionSpends ==
  ASSUME DnsInv, DnsBudget, CheckHeader \/ ReadQuestion
  PROVE  DnsSpends
<1> DEFINE k == response.acount
<1>1. DOMAIN parse = ParseFields /\ k \in Nat /\ parse.a \in Nat
  BY DnsLeftIs DEF DnsInv
<1>2. ASSUME Done, parse.pc # "done" PROVE DnsSpends
  <2>1. parse'.pc = "done" /\ parse'.a = parse.a /\ parse'.to = parse.to
    BY <1>1, <1>2 DEF Done, ParseFields
  <2>2. QED
    BY <1>1, <1>2, <2>1, DoneSpends DEF DnsBudget
<1>3. CASE CheckHeader
  <2> DEFINE m == k + 1
             b == HeaderLen - 1
  <2>1. /\ parse.pc = "header" /\ response' = response
        /\ Done \/ (k > 0 /\ Call(parse, HeaderLen, "question", b))
    BY <1>3 DEF CheckHeader, IsAnswer
  <2>2. parse.a = 0
    BY <2>1 DEF DnsBudget
  <2>3. DnsLeft = Budget(m + 1, 0) /\ m \in Nat
    <3>1. DnsLeft = Budget(k + 2, 0)
      BY <2>1, DnsLeftIs
    <3> HIDE DEF k
    <3>2. m + 1 = k + 2 /\ m \in Nat
      BY <1>1
    <3>3. QED
      BY <3>1, <3>2
  <2>4. CASE Done
    BY <1>2, <2>1, <2>4
  <2>5. CASE k > 0 /\ Call(parse, HeaderLen, "question", b)
    <3>1. m = IF "question" = "question" THEN response.acount + 1 ELSE response.acount - parse.a
      OBVIOUS
    <3> HIDE DEF m, b
    <3>2. QED
      BY <1>1, <2>1, <2>2, <2>3, <2>5, <3>1, CallSpends
  <2>6. QED
    BY <2>1, <2>4, <2>5
<1>4. CASE ReadQuestion
  <2> DEFINE q == NameRead
             p == [parse EXCEPT !.question = q]
             o == parse.off + QFixed
             b == parse.off + QFixed - 1
  <2>1. /\ parse.pc = "question" /\ response' = response
        /\ Done \/ Call(p, o, "answer", b)
    BY <1>4 DEF ReadQuestion
  <2>2. parse.a = 0 /\ parse.to = "question" /\ k > 0
    BY <2>1 DEF DnsBudget
  <2> HIDE DEF q
  <2>3. DOMAIN p = ParseFields /\ p.a = 0
    BY <1>1, <2>2 DEF ParseFields
  <2>4. DnsLeft = Budget(k + 1, 0)
    BY <2>1, DnsLeftIs
  <2>5. CASE Done
    BY <1>2, <2>1, <2>5
  <2>6. CASE Call(p, o, "answer", b)
    <3>1. k = IF "answer" = "question" THEN response.acount + 1 ELSE response.acount - p.a
      BY <1>1, <2>3
    <3>2. p.a \in Nat /\ p.a < k
      BY <2>2, <2>3
    <3> HIDE DEF p, o, b
    <3>3. QED
      BY <1>1, <2>1, <2>2, <2>3, <2>4, <2>6, <3>1, <3>2, CallSpends
  <2>7. QED
    BY <2>1, <2>5, <2>6
<1>5. QED
  BY <1>3, <1>4

\* An answer.
LEMMA AnswerSpends ==
  ASSUME DnsInv, DnsBudget, ReadAnswer \/ RefuseAnswer
  PROVE  DnsSpends
<1> DEFINE k == response.acount
           c == parse.a
<1>1. DOMAIN parse = ParseFields /\ k \in Nat /\ c \in Nat
  BY DnsLeftIs DEF DnsInv
<1>2. parse.pc = "answer" /\ response' = response
  BY DEF ReadAnswer, RefuseAnswer
<1>3. parse.to = "answer" /\ c < k /\ k > 0
  BY <1>1, <1>2 DEF DnsBudget
<1>4. CASE RefuseAnswer
  <2>1. Done
    BY <1>4 DEF RefuseAnswer
  <2>2. parse'.pc = "done" /\ parse'.a = parse.a /\ parse'.to = parse.to
    BY <1>1, <2>1 DEF Done, ParseFields
  <2>3. QED
    BY <1>1, <1>2, <1>3, <2>2, DoneSpends
<1>5. CASE ReadAnswer
  <2> DEFINE r == parse.reported \o Reported(parse.off)
             d == c + 1
             p == [parse EXCEPT !.a = d, !.reported = r]
             o == AfterRecord(parse.off)
             u == parse.off + RRFixed + AddrLen(Data(parse.off)) - 1
  <2>1. \/ d < k /\ Call(p, o, "answer", u)
        \/ parse' = [p EXCEPT !.pc = "done"]
    BY <1>5 DEF ReadAnswer
  <2>2. d \in Nat
    BY <1>1
  <2> HIDE DEF r, d
  <2>3. DOMAIN p = ParseFields /\ p.a = d /\ p.to = parse.to
    BY <1>1 DEF ParseFields
  <2>4. CASE parse' = [p EXCEPT !.pc = "done"]
    <3> HIDE DEF p
    <3>1. parse'.pc = "done" /\ parse'.a = d /\ parse'.to = parse.to
      BY <2>3, <2>4 DEF ParseFields
    <3>2. QED
      BY <1>2, <1>3, <2>2, <3>1, DoneSpends
  <2>5. CASE d < k /\ Call(p, o, "answer", u)
    <3> DEFINE m == k - d
    <3>1. DnsLeft = Budget(k - c, 0)
      BY <1>2, DnsLeftIs
    <3>2. d = c + 1
      BY DEF d
    <3>3. m \in Nat /\ m + 1 = k - c
      <4> HIDE DEF k, c
      <4>1. QED
        BY <1>1, <2>2, <2>5, <3>2
    <3>4. m = IF "answer" = "question" THEN response.acount + 1 ELSE response.acount - p.a
      BY <2>3
    <3>5. DnsLeft = Budget(m + 1, 0)
      BY <3>1, <3>3
    <3> HIDE DEF m, p, o, u
    <3>6. p.a \in Nat /\ p.a < response.acount
      BY <2>2, <2>3, <2>5
    <3>7. QED
      BY <1>2, <1>3, <2>3, <2>5, <3>3, <3>4, <3>5, <3>6, CallSpends
  <2>6. QED
    BY <2>1, <2>4, <2>5
<1>6. QED
  BY <1>4, <1>5

\* Every step spends some of the budget.
LEMMA DnsSteps ==
  ASSUME DnsInv, DnsBudget, DnsNext
  PROVE  DnsSpends
<1>1. CASE CheckHeader \/ ReadQuestion
  BY <1>1, QuestionSpends
<1>2. CASE ReadAnswer \/ RefuseAnswer
  BY <1>2, AnswerSpends
<1>3. CASE FollowPointer
  <2> DEFINE t == Target
             l == Data(Target)
             n == qname.count + 1
  <2>1. /\ InLoop /\ UNCHANGED <<response, parse>>
        /\ qname' = [qname EXCEPT !.ptr = t, !.len = l, !.jumped = TRUE, !.count = n]
    BY <1>3 DEF FollowPointer
  <2> HIDE DEF t, l, n
  <2>2. qname'.count = n
    BY <2>1 DEF DnsInv, QnameType
  <2>3. QED
    BY <2>1, <2>2, PartSpends DEF n
<1>4. CASE CopyLabel
  <2> DEFINE e == qname.ptr + 1 + qname.len
             x == Appended(Copy(response.data, qname.ptr + 1, qname.len))
             l == Data(e)
             n == qname.count + 1
  <2>1. /\ InLoop /\ UNCHANGED <<response, parse>>
        /\ qname' = [qname EXCEPT !.text = x, !.ptr = e, !.len = l, !.count = n]
    BY <1>4 DEF CopyLabel
  <2> HIDE DEF e, x, l, n
  <2>2. qname'.count = n
    BY <2>1 DEF DnsInv, QnameType
  <2>3. QED
    BY <2>1, <2>2, PartSpends DEF n
<1>5. CASE RefuseName
  BY <1>5, ReturnSpends DEF RefuseName
<1>6. CASE EndName
  BY <1>6, ReturnSpends DEF EndName
<1>7. QED
  BY <1>1, <1>2, <1>3, <1>4, <1>5, <1>6 DEF DnsNext

\* Wherever the pointers of a message lead, parse_dns_response ends: each of its
\* steps and of those of get_qname lowers a natural number that the count of answers
\* and the limit on hops fix at the start.
THEOREM DnsProgress == DnsSpec => DnsAdvances
<1> DEFINE Step == DnsLeft' \in Nat /\ DnsLeft' < DnsLeft
           Inv == DnsInv /\ DnsBudget
<1>1. DnsInit => Inv
  <2>1. DnsInit => DnsBudget
    BY DEF DnsInit, NoParse, DnsBudget
  <2>2. QED
    BY <2>1, DnsStarts
<1>2. Inv /\ [DnsNext]_dnsVars => Inv'
  <2> SUFFICES ASSUME Inv, [DnsNext]_dnsVars PROVE DnsBudget'
    BY DnsKeeps
  <2>1. CASE DnsNext
    BY <2>1, DnsSteps DEF DnsSpends
  <2>2. CASE UNCHANGED dnsVars
    BY <2>2 DEF dnsVars, DnsBudget
  <2>3. QED
    BY <2>1, <2>2
<1>3. Inv /\ [DnsNext]_dnsVars => [Step]_dnsVars
  BY DnsSteps DEF DnsSpends
<1>4. QED
  BY <1>1, <1>2, <1>3, PTL DEF DnsSpec, DnsAdvances
=============================================================================
