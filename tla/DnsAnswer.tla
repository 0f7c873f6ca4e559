------------------------------ MODULE DnsAnswer ------------------------------
(***************************************************************************)
(* The DNS answers the engine learns names from (dns.c): a message a       *)
(* resolver sent is walked by parse_dns_response, which calls get_qname    *)
(* for the name of the question and of every answer.  One step is one      *)
(* iteration of a loop.                                                    *)
(*                                                                         *)
(* The sizes of the message's parts are constants, so that small messages  *)
(* have them all.  A field of several bytes is one byte wide: the first of *)
(* a record's fixed part stands for its type and class, the last for its   *)
(* rdlength.  The flags and counts of the header are fields of the record  *)
(* response; the bytes of the header can still be the target of a pointer. *)
(***************************************************************************)
EXTENDS Bytes

CONSTANTS
  Flag,       \* 64: a length byte from here on has a bit of a pointer set
  QnameMax,   \* DNS_QNAME_MAX: the buffer of a name holds one byte more
  MaxHops,    \* 25: get_qname leaves its loop when it counted more
  HeaderLen,  \* sizeof(struct dns_header)
  QFixed,     \* 4: what follows the name of a question
  RRFixed,    \* 10: what follows the name of an answer, up to its rdata
  ALen, AAAALen,  \* sizes of the addresses
  Responses   \* the messages

Response ==
  [standard : BOOLEAN,  \* qr = 1 and opcode = 0
   qcount : Nat, acount : Nat, data : Seq(Byte)]

ASSUME DnsAssumption ==
  /\ Flag \in Byte \ {0} /\ QnameMax \in Nat \ {0} /\ MaxHops \in Nat
  /\ HeaderLen \in Nat \ {0} /\ QFixed \in Nat \ {0} /\ RRFixed \in Nat \ {0}
  /\ ALen \in Nat \ {0} /\ AAAALen \in Nat \ {0}
  /\ Responses \subseteq Response

VARIABLES
  response,  \* the message
  parse,     \* locals of parse_dns_response
  qname,     \* locals of get_qname
  touched    \* highest offset read in the message and written in the name

dnsVars == <<response, parse, qname, touched>>

Size == Len(response.data)
Data(i) == At(response.data, i)

Dot == Radix   \* the '.' between labels, told apart from the bytes of a label
Fail == -1

A == 1
AAAA == 2

Read(i) == touched' = [touched EXCEPT !.read = Larger(@, i)]

(***************************************************************************)
(* get_qname.                                                              *)
(***************************************************************************)
\* get_qname is called for the name at off; to is where its result is used, and
\* before is the last offset read before the call.
Call(p, off, to, before) ==
  IF off < Size
  THEN /\ qname' = [off |-> off, ptr |-> off, len |-> Data(off), text |-> <<>>,
                    count |-> 0, jumped |-> FALSE]
       /\ parse' = [p EXCEPT !.pc = "name", !.to = to]
       /\ Read(Larger(before, off))
  ELSE /\ qname' = [qname EXCEPT !.off = off, !.text = <<>>]
       /\ parse' = [p EXCEPT !.pc = to, !.to = to, !.off = Fail]
       /\ Read(before)

Return(result) ==
  /\ parse' = [parse EXCEPT !.pc = parse.to, !.off = result]
  /\ UNCHANGED <<qname, touched>>

\* The loop goes on.
InLoop == parse.pc = "name" /\ qname.len # 0 /\ qname.count <= MaxHops

Pointer == qname.len >= Flag /\ qname.ptr + 1 < Size
Target == (qname.len % Flag) * Radix + Data(qname.ptr + 1)

\* Mutant: only labels are counted.
FollowPointer_uncounted ==
  /\ InLoop /\ Pointer /\ Target < Size
  /\ qname' = [qname EXCEPT !.ptr = Target, !.len = Data(Target), !.jumped = TRUE]
  /\ Read(Larger(qname.ptr + 1, Target))
  /\ UNCHANGED <<response, parse>>

\* A pointer inside the message is followed.
FollowPointer ==
  /\ InLoop /\ Pointer /\ Target < Size
  /\ qname' = [qname EXCEPT !.ptr = Target, !.len = Data(Target), !.jumped = TRUE,
                            !.count = @ + 1]
  /\ Read(Larger(qname.ptr + 1, Target))
  /\ UNCHANGED <<response, parse>>

\* Mutant: the place of the dot is forgotten.
LabelFits_without_dot ==
  /\ qname.ptr + 1 + qname.len < Size
  /\ Len(qname.text) + qname.len <= QnameMax + 1

\* The label, the length behind it (dns.c:56 asks for that once more) and the dot
\* have room.
LabelFits ==
  /\ qname.ptr + 1 + qname.len < Size
  /\ Len(qname.text) + qname.len <= QnameMax

\* noff is the length of text.  It counts modulo QnameMax + 1: a buffer that is
\* full is filled from its start again.
Appended(label) ==
  LET text == qname.text \o label \o <<Dot>>
  IN  IF Len(text) > QnameMax THEN <<>> ELSE text

CopyLabel ==
  /\ InLoop /\ ~Pointer /\ LabelFits
  /\ LET next == qname.ptr + 1 + qname.len
     IN  /\ qname' = [qname EXCEPT
                        !.text = Appended(Copy(response.data, qname.ptr + 1, qname.len)),
                        !.ptr = next, !.len = Data(next), !.count = @ + 1]
         /\ touched' = [read |-> Larger(touched.read, next),
                        written |-> Larger(touched.written, Len(qname.text) + qname.len)]
  /\ UNCHANGED <<response, parse>>

\* The loop is left with a length that is not zero.
RefuseName ==
  /\ parse.pc = "name" /\ qname.len # 0
  /\ \/ ~InLoop
     \/ Pointer /\ Target >= Size
     \/ ~Pointer /\ ~LabelFits
  /\ Return(Fail)
  /\ UNCHANGED response

\* Mutant: the offset after the bytes that were read last.
AfterName_last_read == qname.ptr + 1

\* The offset behind a name: after its zero, or two after its start as soon as
\* a pointer was followed.
AfterName == IF qname.jumped THEN qname.off + 2 ELSE qname.ptr + 1

\* The end of the name, which is invalid if it is empty.
EndName ==
  /\ parse.pc = "name" /\ qname.len = 0
  /\ Return(IF qname.text = <<>> THEN Fail ELSE AfterName)
  /\ UNCHANGED response

(***************************************************************************)
(* parse_dns_response.                                                     *)
(***************************************************************************)
Done == parse' = [parse EXCEPT !.pc = "done"] /\ UNCHANGED <<qname, touched>>

IsAnswer ==
  /\ Size >= HeaderLen + 1
  /\ response.standard /\ response.qcount > 0 /\ response.acount > 0

CheckHeader ==
  /\ parse.pc = "header"
  /\ IF IsAnswer THEN Call(parse, HeaderLen, "question", HeaderLen - 1) ELSE Done
  /\ UNCHANGED response

\* The last dot becomes the end of the string.
NameRead == CString(SubSeq(qname.text, 1, Len(qname.text) - 1))

\* Only the first question is read; the answers are looked for behind it.
ReadQuestion ==
  /\ parse.pc = "question"
  /\ IF parse.off > 0 /\ parse.off + QFixed <= Size
     THEN Call([parse EXCEPT !.question = NameRead], parse.off + QFixed, "answer",
               parse.off + QFixed - 1)
     ELSE Done
  /\ UNCHANGED response

AddrLen(kind) == CASE kind = A -> ALen [] kind = AAAA -> AAAALen [] OTHER -> 0

\* Mutant: the answer after the first address is looked for at that address.
AfterRecord_no_rdata(off) == off + RRFixed

\* The offset of the record behind the one whose fixed part is at off.
AfterRecord(off) == off + RRFixed + Data(off + RRFixed - 1)

Reported(off) ==
  IF Data(off) \in {A, AAAA}
  THEN <<[question |-> parse.question, name |-> NameRead, kind |-> Data(off),
          addr |-> Copy(response.data, off + RRFixed, AddrLen(Data(off)))]>>
  ELSE <<>>

\* An answer; an address is handed to dns_resolved.
ReadAnswer ==
  /\ parse.pc = "answer"
  /\ parse.off > 0 /\ parse.off + RRFixed <= Size
  /\ parse.off + RRFixed + Data(parse.off + RRFixed - 1) <= Size
  /\ parse.off + RRFixed + AddrLen(Data(parse.off)) <= Size
  /\ LET p    == [parse EXCEPT !.a = @ + 1, !.reported = @ \o Reported(parse.off)]
         upto == parse.off + RRFixed + AddrLen(Data(parse.off)) - 1
     IN  IF parse.a + 1 < response.acount
         THEN Call(p, AfterRecord(parse.off), "answer", upto)
         ELSE parse' = [p EXCEPT !.pc = "done"] /\ Read(upto) /\ UNCHANGED qname
  /\ UNCHANGED response

\* The name, the fixed part, the rdata or the address is not in the message:
\* the rest of it is not read.
RefuseAnswer ==
  /\ parse.pc = "answer"
  /\ \/ parse.off <= 0 \/ parse.off + RRFixed > Size
     \/ parse.off + RRFixed + Data(parse.off + RRFixed - 1) > Size
     \/ parse.off + RRFixed + AddrLen(Data(parse.off)) > Size
  /\ Done
  /\ UNCHANGED response

NoParse == [pc |-> "header", to |-> "question", off |-> Fail, a |-> 0,
            question |-> <<>>, reported |-> <<>>]
NoName == [off |-> 0, ptr |-> 0, len |-> 0, text |-> <<>>, count |-> 0, jumped |-> FALSE]
Untouched == [read |-> -1, written |-> -1]

DnsInit ==
  /\ response \in Responses
  /\ parse = NoParse
  /\ qname = NoName
  /\ touched = Untouched

DnsNext ==
  \/ CheckHeader \/ ReadQuestion \/ ReadAnswer \/ RefuseAnswer
  \/ FollowPointer \/ CopyLabel \/ RefuseName \/ EndName

DnsSpec == DnsInit /\ [][DnsNext]_dnsVars

-----------------------------------------------------------------------------
(***************************************************************************)
(* What a name and an answer are, after RFC 1035.                          *)
(***************************************************************************)
Bad == [ok |-> FALSE, text |-> <<>>, parts |-> 0, after |-> 0, pointer |-> FALSE]

\* The name at offset i of data, rest[j] being the one at j: labels up to a zero,
\* or up to a pointer to the rest of the name.  after is the offset behind the
\* name.  As in the code, one of the two bits makes a pointer.
NameAt(data, i, rest) ==
  LET b    == At(data, i)
      last == i + (IF b < Flag THEN b ELSE 1)   \* where this part ends
      next == IF b < Flag THEN last + 1 ELSE (b % Flag) * Radix + At(data, i + 1)
  IN  IF last >= Len(data) THEN Bad
      ELSE IF b = 0 THEN [Bad EXCEPT !.ok = TRUE, !.after = i + 1]
      ELSE IF b < Flag
           THEN [rest[next] EXCEPT !.text = Copy(data, i + 1, b) \o <<Dot>> \o @,
                                   !.parts = @ + 1]
           ELSE [rest[next] EXCEPT !.after = i + 2, !.pointer = TRUE, !.parts = @ + 1]

\* Names[n][i] is the name at offset i if it has fewer than n parts.
Names(data) ==
  LET N[n \in Nat] == IF n = 0 THEN [i \in Nat |-> Bad]
                      ELSE [i \in Nat |-> NameAt(data, i, N[n - 1])]
  IN  N

\* A walk longer than the message is a loop.
Decoded(data, o) == Names(data)[Len(data) + 1][o]

\* A name get_qname has to accept: the buffer holds it, with its last dot, and
\* the hops suffice.
Legal(name) ==
  /\ name.ok /\ name.text # <<>>
  /\ Len(name.text) <= QnameMax /\ name.parts <= MaxHops + 1

\* Labels in front of a pointer: get_qname forgets them in the offset.
Mixed(data, o) == At(data, o) < Flag /\ Decoded(data, o).pointer

\* A name as a C string: its last dot becomes the end of it.
Spelled(text) == CString(SubSeq(text, 1, Len(text) - 1))

\* The addresses from the record at offset i of data, rest[j] being those from j:
\* none if the record is not complete.  clear is FALSE, and the list ends there,
\* if a name is mixed, and the offsets of the code are not those of the message,
\* or beyond the limits.
AddressesAt(data, question, i, rest) ==
  LET name == Decoded(data, i)
      f    == name.after
      rd   == f + RRFixed
      kind == At(data, f)
      this == [question |-> question, name |-> Spelled(name.text),
               kind |-> kind, addr |-> Copy(data, rd, AddrLen(kind))]
  IN  IF name.ok /\ name.text # <<>> /\ (Mixed(data, i) \/ ~Legal(name))
      THEN [clear |-> FALSE, list |-> <<>>]
      ELSE IF \/ ~Legal(name) \/ rd > Len(data)
              \/ rd + Larger(At(data, rd - 1), AddrLen(kind)) > Len(data)
      THEN [clear |-> TRUE, list |-> <<>>]
      ELSE [rest[rd + At(data, rd - 1)] EXCEPT
              !.list = (IF kind \in {A, AAAA} THEN <<this>> ELSE <<>>) \o @]

\* Addresses[n][i] are the addresses of the n records from offset i.
Addresses(data, question) ==
  LET R[n \in Nat] == IF n = 0 THEN [i \in Nat |-> [clear |-> TRUE, list |-> <<>>]]
                      ELSE [i \in Nat |-> AddressesAt(data, question, i, R[n - 1])]
  IN  R

(***************************************************************************)
(* Properties.                                                             *)
(***************************************************************************)
\* No byte outside the message is read and none outside the buffer of a name
\* is written, wherever lengths, pointers and truncation lead.
DnsInBounds ==
  /\ touched.read < Size
  /\ touched.written <= QnameMax

\* get_qname has just returned.
Returned == parse.pc \in {"question", "answer"}

\* get_qname returns the name that is encoded at the offset, through pointers in
\* either direction, and the offset behind it (unless labels precede the
\* pointer); it refuses what is no name, in particular a loop of pointers.
NameDecoded ==
  Returned =>
    LET name == Decoded(response.data, qname.off)
    IN  /\ Legal(name) => parse.off # Fail /\ qname.text = name.text
        /\ Legal(name) /\ ~Mixed(response.data, qname.off) => parse.off = name.after
        /\ parse.off # Fail => name.ok

\* list starts with the elements of first.
StartsWith(list, first) == \A i \in DOMAIN first : i \in DOMAIN list /\ list[i] = first[i]

\* Where the code finds the end of the question's name: every address is reported
\* once, in order, with its name and that of the question, up to the first record
\* that is incomplete, and nothing else is.  At a record whose name has labels in
\* front of a pointer get_qname returns a wrong offset, and it may refuse a name
\* beyond its limits: the addresses in front of such a record are reported, but
\* behind them the code may lose or invent others, and nothing is said of those.
\* Nor is anything said if the name of the question is such a one.  A message that
\* is no answer, or whose question has no name, reports nothing.
AnswersReported ==
  parse.pc = "done" =>
    LET name == Decoded(response.data, HeaderLen)
        ref  == Addresses(response.data, Spelled(name.text))[response.acount][name.after + QFixed]
    IN  /\ ~IsAnswer \/ ~name.ok \/ name.text = <<>> => parse.reported = <<>>
        /\ IsAnswer /\ Legal(name) /\ ~Mixed(response.data, HeaderLen) =>
             IF name.after + QFixed > Size THEN parse.reported = <<>>
             ELSE IF ref.clear THEN parse.reported = ref.list
             ELSE StartsWith(parse.reported, ref.list)

=============================================================================
