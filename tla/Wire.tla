-------------------------------- MODULE Wire --------------------------------
(***************************************************************************)
(* Numbers as they are on the wire: the checksums of the packets written   *)
(* to the tun device (util.c, calc_checksum; write_tcp, write_udp,         *)
(* check_icmp_socket with write_icmp) and the order of TCP sequence        *)
(* numbers, which are 32 bits wide (util.c, compare_u32).                  *)
(*                                                                         *)
(* Bytes are summed as little-endian words, the order of the hosts the     *)
(* engine is built for, while the receiver sums them in network order.     *)
(* An address is one word; of a header what is not an address, a length    *)
(* or a checksum is one word, fields.                                      *)
(***************************************************************************)
EXTENDS Bytes

CONSTANTS
  Half,      \* 0x7FFFFFFF: the largest int32_t
  Segments,  \* packets to be written
  Serials    \* sequence numbers to be compared

U16 == Radix * Radix   \* the modulus of a uint16_t
U32 == 2 * Half + 2    \* the modulus of a uint32_t

OneWord == [1..2 -> Byte]

Segment ==
  [kind : {"tcp", "udp", "icmp"}, version : {4, 6}, src : OneWord, dst : OneWord,
   fields : OneWord, options : {<<>>} \cup OneWord, data : Seq(Byte)]

\* Two numbers of a connection: their offsets from a third one.
Serial == [base : 0..(U32 - 1), a : 0..(Half - 1), b : 0..(Half - 1)]

\* Only TCP has options, and the code for ICMPv6 is marked as untested.
ASSUME WireAssumption ==
  /\ Half \in Nat \ {0}
  /\ Segments \subseteq Segment
  /\ \A s \in Segments : /\ s.kind # "tcp" => s.options = <<>>
                         /\ s.kind = "icmp" => s.version = 4
  /\ Serials \subseteq Serial

VARIABLES
  segment,  \* the packet, and what is written: IPv4 header and contents
  serial    \* the numbers, and their comparison

wireVars == <<segment, serial>>

(***************************************************************************)
(* Checksums.                                                              *)
(***************************************************************************)
\* Mutant: the carry of the carry is lost.
calc_checksum_one_carry(start, buffer) ==
  LET Sum[i \in 0..Len(buffer)] ==
        IF i = 0 THEN start
        ELSE Sum[i - 1] + (IF i % 2 = 1 THEN buffer[i] ELSE Radix * buffer[i])
      total == Sum[Len(buffer)]
  IN  ((total % U16) + (total \div U16)) % U16

\* The sum of the words and of an odd last byte; the carries are added until
\* there are none.  A packet is too short for the 32 bits of the sum to wrap.
calc_checksum(start, buffer) ==
  LET Sum[i \in 0..Len(buffer)] ==
        IF i = 0 THEN start
        ELSE Sum[i - 1] + (IF i % 2 = 1 THEN buffer[i] ELSE Radix * buffer[i])
      Fold[n \in Nat] == IF n < U16 THEN n ELSE Fold[(n % U16) + (n \div U16)]
  IN  Fold[Sum[Len(buffer)]]

Complement(n) == U16 - 1 - n

htons(n) == <<n \div Radix, n % Radix>>
Stored(n) == <<n % Radix, n \div Radix>>   \* a uint16_t in memory

Protocol(s) == (CASE s.kind = "tcp" -> 6 [] s.kind = "udp" -> 17 [] s.kind = "icmp" -> 1) % Radix

\* The header of the contents without its checksum, which is the last word.
HeaderOf(s) ==
  s.fields \o (IF s.kind = "udp" THEN htons(6 + Len(s.data)) ELSE <<>>) \o <<0, 0>>

Length(s) == Len(HeaderOf(s)) + Len(s.options) + Len(s.data)

\* struct ippseudo and struct ip6_hdr_pseudo as the code fills them: for IPv6 it
\* takes source for destination, and puts the length in the first half of a
\* field of 32 bits.
Pseudo(s) ==
  IF s.version = 4
  THEN s.src \o s.dst \o <<0, Protocol(s)>> \o htons(Length(s))
  ELSE s.dst \o s.src \o htons(Length(s)) \o <<0, 0>> \o <<0, 0, 0, Protocol(s)>>

\* The sum continues from one part to the next; of ICMP it is one buffer.
Check(s) ==
  IF s.kind = "icmp"
  THEN Complement(calc_checksum(0, HeaderOf(s) \o s.data))
  ELSE LET pseudo  == calc_checksum(0, Pseudo(s))
           header  == calc_checksum(pseudo, HeaderOf(s))
           options == calc_checksum(header, s.options)
       IN  Complement(calc_checksum(options, s.data))

Contents(s) ==
  SubSeq(HeaderOf(s), 1, Len(HeaderOf(s)) - 2) \o Stored(Check(s)) \o s.options \o s.data

IpHeader(s) ==
  LET fields == htons(10 + Length(s)) \o <<0, Protocol(s)>> \o s.src \o s.dst
  IN  IF s.version = 4
      THEN fields \o Stored(Complement(calc_checksum(0, fields \o <<0, 0>>)))
      ELSE <<>>

WritePacket ==
  /\ segment.pc = "write"
  /\ segment' = [pc |-> "written", of |-> segment.of,
                 ip |-> IpHeader(segment.of), contents |-> Contents(segment.of)]
  /\ UNCHANGED serial

(***************************************************************************)
(* Sequence numbers.                                                       *)
(***************************************************************************)
\* Addition of numbers of 32 bits.
Plus(x, y) == IF x + y >= U32 THEN x + y - U32 ELSE x + y

\* Mutant: the numbers are compared as they are.
compare_u32_unsigned(s1, s2) == IF s1 = s2 THEN 0 ELSE IF s1 < s2 THEN -1 ELSE 1

compare_u32(s1, s2) ==
  IF s1 = s2 THEN 0
  ELSE IF \/ s1 < s2 /\ s2 - s1 < Half
          \/ s1 > s2 /\ s1 - s2 > Half
       THEN -1 ELSE 1

CompareSerials ==
  /\ serial.pc = "compare"
  /\ LET n == serial.of
     IN  serial' = [pc |-> "compared", of |-> n,
                    result |-> compare_u32(Plus(n.base, n.a), Plus(n.base, n.b))]
  /\ UNCHANGED segment

NoSegment == [pc |-> "idle"]
NoSerial == [pc |-> "idle"]

WireInit ==
  \/ /\ segment \in {[pc |-> "write", of |-> s] : s \in Segments}
     /\ serial = NoSerial
  \/ /\ serial \in {[pc |-> "compare", of |-> n] : n \in Serials}
     /\ segment = NoSegment

WireNext == WritePacket \/ CompareSerials

WireSpec == WireInit /\ [][WireNext]_wireVars

-----------------------------------------------------------------------------
(***************************************************************************)
(* What the receiver does, after RFC 768, RFC 793, RFC 1071 and RFC 8200.  *)
(***************************************************************************)
\* The words in network order, a last odd byte filled up with zero, have the
\* sum -0 in one's complement arithmetic.
Verifies(bytes) ==
  LET Sum[i \in 0..Len(bytes)] ==
        IF i = 0 THEN 0
        ELSE Sum[i - 1] + (IF i % 2 = 1 THEN Radix * bytes[i] ELSE bytes[i])
      total == Sum[Len(bytes)]
  IN  total > 0 /\ total % (U16 - 1) = 0

PseudoHeader(s, length) ==
  CASE s.kind = "icmp" -> <<>>
    [] s.kind # "icmp" /\ s.version = 4 ->
         s.src \o s.dst \o <<0, Protocol(s)>> \o htons(length)
    [] OTHER -> s.src \o s.dst \o <<0, 0>> \o htons(length) \o <<0, 0, 0, Protocol(s)>>

\* The checksum of a UDP packet, its last word in front of the data, is zero: the
\* sender did not compute one.
NoChecksum(s, contents) == s.kind = "udp" /\ contents[5] = 0 /\ contents[6] = 0

\* A UDP packet without a checksum is delivered over IPv4 (RFC 768) and discarded
\* over IPv6 (RFC 8200); of every other packet the checksum has to be right.
Accepts(s, contents) ==
  IF NoChecksum(s, contents) THEN s.version = 4
  ELSE Verifies(PseudoHeader(s, Len(contents)) \o contents)

(***************************************************************************)
(* Properties.                                                             *)
(***************************************************************************)
\* The app's kernel accepts every packet written to the tun device but one kind,
\* though the checksums are summed in another byte order, in parts, with data of
\* odd length, and for IPv6 over a pseudo header in another order.  The exception
\* is UDP over IPv6 whose checksum is computed as zero: write_udp stores it as it
\* is (udp.c:515), where RFC 768 and 8200 have the sender put 0xFFFF, and the
\* kernel discards the packet.
ChecksumsVerify ==
  segment.pc = "written" =>
    LET s == segment.of
    IN  /\ s.version = 4 => Verifies(segment.ip)
        /\ Accepts(s, segment.contents)
             <=> ~(s.kind = "udp" /\ s.version = 6 /\ Check(s) = 0)

\* compare_u32 orders the numbers of a connection like their offsets, wherever
\* between them the 32 bits wrap: queue_tcp keeps its list sorted and handle_tcp
\* tells old acknowledgements from new ones, as long as they are less than 2^31 - 1
\* apart.
SerialOrder ==
  serial.pc = "compared" =>
    LET n == serial.of
    IN  /\ n.a < n.b => serial.result = -1
        /\ n.a = n.b => serial.result = 0
        /\ n.a > n.b => serial.result = 1

=============================================================================
