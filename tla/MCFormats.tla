------------------------------ MODULE MCFormats ------------------------------
(***************************************************************************)
(* Inputs for what the engine reads and writes byte by byte: DNS answers,  *)
(* TLS client hellos, checksums and sequence numbers.  A behaviour is the  *)
(* handling of one of them.                                                *)
(***************************************************************************)
EXTENDS DnsAnswer, TlsHello, Wire

Strings(S, n) == UNION {[1..k -> S] : k \in 0..n}

(***************************************************************************)
(* DNS.                                                                    *)
(***************************************************************************)
\* Bytes of a name: lengths, offsets, and the first byte of a pointer.
NameBytes == {0, 1, 2, 3, 3 * Flag}

AnyHeader == <<1>>
Address == <<3 * Flag, 1, A, 1, 5>>   \* the name of the question, an address

Answering(acount, data) ==
  [standard |-> TRUE, qcount |-> 1, acount |-> acount, data |-> data]

\* Names that fill the buffer, and that go on behind it.
LongNames == {<<3, 1, 1, 1, 0>>, <<3, 1, 1, 1, 1, 2, 0>>, <<1, 5, 1, 6, 0>>}

\* Any bytes as the name of the question, and one answer.
Questions ==
  {Answering(1, AnyHeader \o q \o <<0>> \o Address) : q \in Strings(NameBytes, 4) \cup LongNames}

\* Any bytes as the name of the first answer, and a second answer.
Answers ==
  {Answering(n, AnyHeader \o <<1, 2, 0, 0>> \o a \o <<k, r, 7, 1>> \o Address) :
     n \in {1, 2}, a \in Strings(NameBytes, 4) \cup LongNames, k \in {A, AAAA, 3}, r \in {0, 1, 2}}

\* Messages cut short, and messages that are not answers.
Cut == {Answering(1, SubSeq(AnyHeader \o <<1, 2, 0, 0>> \o Address, 1, n)) : n \in 0..9}
NoAnswers ==
  {[r EXCEPT !.standard = FALSE] : r \in Cut} \cup {[r EXCEPT !.qcount = 0] : r \in Cut}

SmallResponses == Questions \cup Answers \cup Cut \cup NoAnswers

(***************************************************************************)
(* TLS.                                                                    *)
(***************************************************************************)
Extension == {[type |-> SERVER_NAME, text |-> <<>>], [type |-> SERVER_NAME, text |-> <<7>>],
              [type |-> SERVER_NAME, text |-> <<7, 0>>], [type |-> SERVER_NAME, text |-> <<7, 8, 9>>],
              [type |-> 1, text |-> <<>>], [type |-> 2, text |-> <<0, 0, 0, 0, 0, 0>>]}

SmallHellos ==
  [session : {0, 2}, suites : {1, 7, 8}, compression : {0, 1}, exts : Strings(Extension, 2)]

\* One byte is another one, or the end is missing.
Damaged(r) ==
  {[r EXCEPT !.data[i] = b] : i \in (Fixed + 1)..Len(r.data), b \in {0, 1, Radix - 1}}
  \cup {[hello |-> TRUE, length |-> n - RecordLen, data |-> SubSeq(r.data, 1, n)] :
           n \in RecordLen..Len(r.data)}

LongHellos ==
  {h \in SmallHellos : h.session = 2 /\ h.compression = 0 /\ Len(h.exts) = 2
                         /\ h.exts[1].text # <<>> /\ h.exts[2].type = 2}

SmallRecords ==
  {RecordOf(h) : h \in SmallHellos}
    \cup UNION {Damaged(r) : r \in {RecordOf(h) : h \in LongHellos}}
    \cup {[hello |-> FALSE, length |-> n, data |-> Zeros(n)] : n \in 0..2}

(***************************************************************************)
(* Checksums and sequence numbers.                                         *)
(***************************************************************************)
SomeWords == {<<0, 0>>, <<0, 1>>, <<Radix - 1, Radix - 1>>}

SmallSegments ==
  {s \in [kind : {"tcp", "udp", "icmp"}, version : {4, 6}, src : SomeWords,
          dst : SomeWords, fields : SomeWords,
          options : {<<>>, <<2, 3>>, <<Radix - 1, Radix - 1>>},
          data : Strings({0, 1, Radix - 1}, 3)] :
     (s.kind # "tcp" => s.options = <<>>) /\ (s.kind = "icmp" => s.version = 4)}

(***************************************************************************)
(* One input is handled.                                                   *)
(***************************************************************************)
vars == <<dnsVars, tlsVars, wireVars>>

NoResponse == Answering(0, <<>>)
NoRecord == [hello |-> FALSE, length |-> 0, data |-> <<>>]

NoDns == /\ response = NoResponse /\ parse = [NoParse EXCEPT !.pc = "idle"]
         /\ qname = NoName /\ touched = Untouched
NoHello == record = NoRecord /\ tls = [NoTls EXCEPT !.pc = "idle"]
NoWire == segment = NoSegment /\ serial = NoSerial

Init ==
  \/ DnsInit /\ NoHello /\ NoWire
  \/ NoDns /\ TlsInit /\ NoWire
  \/ NoDns /\ NoHello /\ WireInit

Next ==
  \/ DnsNext /\ UNCHANGED <<tlsVars, wireVars>>
  \/ TlsNext /\ UNCHANGED <<dnsVars, wireVars>>
  \/ WireNext /\ UNCHANGED <<dnsVars, tlsVars>>

Spec == Init /\ [][Next]_vars /\ WF_vars(Next)

\* Every message is read to its end: no pointers, however they point, keep the
\* tunnel thread in get_qname, and no extension keeps it in parse_sni.
MessageEnds ==
  <>(parse.pc \in {"done", "idle"} /\ tls.pc \in {"done", "idle"})
=============================================================================
