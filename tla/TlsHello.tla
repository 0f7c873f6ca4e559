------------------------------ MODULE TlsHello ------------------------------
(***************************************************************************)
(* The server name of a TLS client hello (tls.c, parse_sni): handle_ip     *)
(* looks for one in the payload of every TCP segment of an app.  One step  *)
(* is one part of the hello, or one of its extensions.                     *)
(*                                                                         *)
(* The index into the record is a uint8_t and counts modulo Radix; the     *)
(* index into the extensions is wide enough for a segment.  The types and  *)
(* the version of the record are one field, and so is the content_length.  *)
(***************************************************************************)
EXTENDS Bytes

CONSTANTS
  RecordLen,   \* 5: the length of a record's own header
  Fixed,       \* 43: what precedes the session id
  SniLength,   \* TLS_SNI_LENGTH: the buffer of the name holds one byte more
  Hellos,      \* client hellos, as RFC 5246 and RFC 6066 describe them
  Records      \* the payloads

Record ==
  [hello : BOOLEAN,   \* a handshake record of TLS with a client hello
   length : Nat,      \* content_length
   data : Seq(Byte)]

\* The lengths of the session id, the cipher suites and the compression methods,
\* and the extensions: text is the host name of a server name extension, the body
\* of any other.
Hello ==
  [session : Nat, suites : Nat, compression : Nat,
   exts : Seq([type : Nat, text : Seq(Byte)])]

ASSUME TlsAssumption ==
  /\ RecordLen \in Nat /\ Fixed \in Nat /\ Fixed > RecordLen /\ Fixed < Radix
  /\ SniLength \in Nat \ {0}
  /\ Hellos \subseteq Hello /\ Records \subseteq Record

VARIABLES
  record,  \* the payload
  tls      \* locals of parse_sni, its result, and the highest offset read

tlsVars == <<record, tls>>

RecordSize == Len(record.data)
SERVER_NAME == 0   \* TLS_EXTENSION_TYPE_SERVER_NAME
HOST_NAME == 0

\* index += n of a uint8_t.
Wrapped(i) == i % Radix

\* The rest of the hello is not looked at.
Refuse == tls' = [tls EXCEPT !.pc = "done"]

\* What follows: the next part is at index, and read was the last offset read.
Advance(pc, index, read) ==
  tls' = [tls EXCEPT !.pc = pc, !.index = Wrapped(index),
                     !.read = Larger(@, read)]

CheckRecord ==
  /\ tls.pc = "record"
  /\ IF RecordSize > RecordLen /\ record.hello /\ RecordLen + record.length = RecordSize
     THEN Advance("session", Fixed, RecordLen)
     ELSE Refuse
  /\ UNCHANGED record

\* One byte of length and the session id.
SkipSession ==
  /\ tls.pc = "session"
  /\ IF tls.index < RecordSize
     THEN Advance("suites", tls.index + 1 + At(record.data, tls.index), tls.index)
     ELSE Refuse
  /\ UNCHANGED record

\* Mutant: only the first byte of the length has to be there.
SkipSuites_one_byte ==
  /\ tls.pc = "suites"
  /\ IF tls.index < RecordSize
     THEN Advance("compression", tls.index + 2 + Word(record.data, tls.index), tls.index + 1)
     ELSE Refuse
  /\ UNCHANGED record

SkipSuites ==
  /\ tls.pc = "suites"
  /\ IF tls.index + 1 < RecordSize
     THEN Advance("compression", tls.index + 2 + Word(record.data, tls.index), tls.index + 1)
     ELSE Refuse
  /\ UNCHANGED record

SkipCompression ==
  /\ tls.pc = "compression"
  /\ IF tls.index < RecordSize
     THEN Advance("extensions", tls.index + 1 + At(record.data, tls.index), tls.index)
     ELSE Refuse
  /\ UNCHANGED record

\* The extensions must fill the record.
OpenExtensions ==
  /\ tls.pc = "extensions"
  /\ LET edatalen == Word(record.data, tls.index)
     IN  IF /\ tls.index + 1 < RecordSize
            /\ edatalen # 0 /\ Wrapped(tls.index + 2) + edatalen = RecordSize
         THEN tls' = [tls EXCEPT !.pc = "loop", !.index = Wrapped(@ + 2),
                                 !.edatalen = edatalen, !.read = Larger(@, tls.index + 1)]
         ELSE Refuse
  /\ UNCHANGED record

(***************************************************************************)
(* The loop over the extensions.                                           *)
(***************************************************************************)
EWord(i) == Word(record.data, tls.index + i)
EByte(i) == At(record.data, tls.index + i)

ExtType == EWord(tls.eindex)
ExtLen == EWord(tls.eindex + 2)

\* Mutant: the index is not moved behind the length.
Body_at_length == tls.eindex + 2

Body == tls.eindex + 4

\* Type, length and body of the extension lie within the extensions.
ExtFits ==
  /\ tls.eindex + 3 < tls.edatalen
  /\ Body + ExtLen <= tls.edatalen

EndExtensions ==
  /\ tls.pc = "loop" /\ tls.eindex >= tls.edatalen
  /\ Refuse
  /\ UNCHANGED record

RefuseExtension ==
  /\ tls.pc = "loop" /\ tls.eindex < tls.edatalen /\ ~ExtFits
  /\ Refuse
  /\ UNCHANGED record

SkipExtension ==
  /\ tls.pc = "loop" /\ tls.eindex < tls.edatalen /\ ExtFits
  /\ ExtType # SERVER_NAME
  /\ tls' = [tls EXCEPT !.eindex = Body + ExtLen,
                        !.read = Larger(@, tls.index + Body - 1)]
  /\ UNCHANGED record

NameFits(name_len) == name_len < SniLength

\* A list whose first entry is a host name.  What is compared with >= in the
\* code must end before the end of the extensions.
ServerName ==
  /\ tls.pc = "loop" /\ tls.eindex < tls.edatalen /\ ExtFits
  /\ ExtType = SERVER_NAME
  /\ LET sni_len  == EWord(Body)
         name_len == EWord(Body + 3)
     IN  IF /\ Body + 1 < tls.edatalen
            /\ Body + 2 + sni_len < tls.edatalen
            /\ EByte(Body + 2) = HOST_NAME
            /\ Body + 4 < tls.edatalen
            /\ Body + 5 + name_len < tls.edatalen
            /\ NameFits(name_len)
         THEN tls' = [tls EXCEPT !.pc = "done", !.found = TRUE,
                        !.name = Copy(record.data, tls.index + Body + 5, name_len),
                        !.read = Larger(@, tls.index + Body + 4 + name_len)]
         ELSE Refuse
  /\ UNCHANGED record

NoTls == [pc |-> "record", index |-> 0, edatalen |-> 0, eindex |-> 0,
          found |-> FALSE, name |-> <<>>, read |-> -1]

TlsInit ==
  /\ record \in Records
  /\ tls = NoTls

TlsNext ==
  \/ CheckRecord \/ SkipSession \/ SkipSuites \/ SkipCompression \/ OpenExtensions
  \/ EndExtensions \/ RefuseExtension \/ SkipExtension \/ ServerName

TlsSpec == TlsInit /\ [][TlsNext]_tlsVars

-----------------------------------------------------------------------------
(***************************************************************************)
(* The bytes of a client hello (external).                                 *)
(***************************************************************************)
TwoBytes(n) == <<n \div Radix, n % Radix>>
Zeros(n) == [i \in 1..n |-> 0]

BodyOf(e) ==
  IF e.type # SERVER_NAME THEN e.text
  ELSE TwoBytes(Len(e.text) + 3) \o <<HOST_NAME>> \o TwoBytes(Len(e.text)) \o e.text

ExtensionOf(e) == TwoBytes(e.type) \o TwoBytes(Len(BodyOf(e))) \o BodyOf(e)

\* EncodedUpTo[i] are the bytes of the first i extensions.
EncodedUpTo(exts) ==
  LET E[i \in 0..Len(exts)] == IF i = 0 THEN <<>> ELSE E[i - 1] \o ExtensionOf(exts[i])
  IN  E

EncodedExtensions(exts) == EncodedUpTo(exts)[Len(exts)]

Encoded(h) ==
  LET exts == EncodedExtensions(h.exts)
  IN  Zeros(Fixed) \o <<h.session>> \o Zeros(h.session)
        \o TwoBytes(h.suites) \o Zeros(h.suites)
        \o <<h.compression>> \o Zeros(h.compression)
        \o TwoBytes(Len(exts)) \o exts

RecordOf(h) ==
  [hello |-> TRUE, length |-> Len(Encoded(h)) - RecordLen, data |-> Encoded(h)]

Payload == [h \in Hellos |-> RecordOf(h)]

\* The offset of the first extension.
ExtensionsAt(h) == Fixed + h.session + h.suites + h.compression + 6

(***************************************************************************)
(* Properties.                                                             *)
(***************************************************************************)
\* No byte outside the payload is read and none outside the buffer of the name
\* is written, though the index wraps around and all lengths come from the app.
TlsInBounds ==
  /\ tls.read < RecordSize
  /\ Len(tls.name) <= SniLength

\* If the header of the hello ends within the range of the index, the name of the
\* first server name extension is found if another extension follows it and the name
\* fits its buffer; otherwise no name is found.
ServerNameFound ==
  tls.pc = "done" =>
    \A h \in Hellos :
      record = Payload[h] /\ ExtensionsAt(h) < Radix =>
        LET names == {i \in DOMAIN h.exts : h.exts[i].type = SERVER_NAME}
            first == CHOOSE i \in names : \A j \in names : i <= j
        IN  IF /\ names # {} /\ first < Len(h.exts)
               /\ NameFits(Len(h.exts[first].text))
            THEN tls.found /\ tls.name = h.exts[first].text
            ELSE ~tls.found

=============================================================================
