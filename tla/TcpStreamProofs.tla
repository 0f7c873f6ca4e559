--------------------------- MODULE TcpStreamProofs ---------------------------
(***************************************************************************)
(* The app's stream, its window and the life of a connection: what         *)
(* TcpSession does with the contents of the session record, for every      *)
(* value of the constants.                                                 *)
(***************************************************************************)
EXTENDS TcpSessionProofs, SequenceTheorems

(***************************************************************************)
(* The contents of a session that operators leave alone.                   *)
(***************************************************************************)
SameStream(s, r) == r.stream = s.stream /\ r.forward = s.forward

SameNumbers(s, r) ==
  /\ r.local_seq = s.local_seq /\ r.acked = s.acked
  /\ r.send_window = s.send_window /\ r.socks5 = s.socks5

\* write_rst changes the number of the app's side only in LISTEN.
LEMMA RstFields ==
  ASSUME NEW s \in Session
  PROVE  /\ SameStream(s, write_rst(s)) /\ SameNumbers(s, write_rst(s))
         /\ write_rst(s).confirmed = s.confirmed
         /\ write_rst(s).remote_seq
              = IF s.state = "LISTEN" THEN s.remote_seq + 1 ELSE s.remote_seq
<1> DEFINE q == IF s.state = "LISTEN" THEN s.remote_seq + 1 ELSE s.remote_seq
           u == IF s.state = "CLOSE" THEN "CLOSE" ELSE "CLOSING"
<1>1. write_rst(s) = [s EXCEPT !.remote_seq = q, !.state = u]
  BY DEF write_rst
<1> HIDE DEF q, u
<1>2. QED
  BY <1>1 DEF Session, SameStream, SameNumbers, q

\* Writing a segment confirms remote_seq, or changes the state alone.
LEMMA WrittenFields ==
  ASSUME NEW s \in Session, NEW ok \in BOOLEAN
  PROVE  /\ SameStream(s, Written(s, ok)) /\ SameNumbers(s, Written(s, ok))
         /\ Written(s, ok).remote_seq = s.remote_seq
         /\ Written(s, ok).confirmed
              = IF ok THEN Larger(s.confirmed, s.remote_seq) ELSE s.confirmed
<1>1. CASE ok
  <2> DEFINE c == Larger(s.confirmed, s.remote_seq)
  <2>1. Written(s, ok) = [s EXCEPT !.confirmed = c]
    BY <1>1 DEF Written
  <2> HIDE DEF c
  <2>2. QED
    BY <1>1, <2>1 DEF Session, SameStream, SameNumbers, c
<1>2. CASE ~ok
  <2>1. Written(s, ok) = [s EXCEPT !.state = "CLOSING"]
    BY <1>2 DEF Written
  <2>2. QED
    BY <1>2, <2>1 DEF Session, SameStream, SameNumbers
<1>3. QED
  BY <1>1, <1>2

\* Moving remote_seq on by one.
LEMMA AdvanceFields ==
  ASSUME NEW s \in Session
  PROVE  LET r == [s EXCEPT !.remote_seq = @ + 1]
         IN  /\ SameStream(s, r) /\ SameNumbers(s, r)
             /\ r.confirmed = s.confirmed /\ r.remote_seq = s.remote_seq + 1
  BY DEF Session, SameStream, SameNumbers

\* The place of a segment's first byte in the stream.
Place(seq) == IF seq = 0 THEN 1 ELSE seq

\* The queue after the segment <<seq, len>> was put into it.
Queued(s, seq, len) ==
  {g \in s.forward : g.seq # seq} \cup
  {[seq |-> seq, len |-> len, sent |-> SentOf(s, seq), data |-> Place(seq)]}

\* What a packet sets before its flags are looked at.
LEMMA EnqueuedFields ==
  ASSUME TypeOK, NEW p \in PacketType, NEW win \in Windows
  PROVE  LET s == Enqueued(p, win)
         IN  /\ s.stream = t.stream /\ s.remote_seq = t.remote_seq
             /\ s.confirmed = t.confirmed /\ s.local_seq = t.local_seq
             /\ s.acked = t.acked /\ s.socks5 = t.socks5 /\ s.send_window = win
             /\ s.forward = IF p.len > 0 /\ p.seq >= t.remote_seq
                            THEN Queued(t, p.seq, p.len) ELSE t.forward
<1> DEFINE u == Touched(p, win)
<1>1. /\ u \in Session /\ u.remote_seq = t.remote_seq /\ u.stream = t.stream
      /\ u.forward = t.forward /\ u.confirmed = t.confirmed
      /\ u.local_seq = t.local_seq /\ u.acked = t.acked /\ u.socks5 = t.socks5
      /\ u.send_window = win
  BY ConstantsAssumption DEF Touched, TypeOK, Session
<1>2. p.seq \in Nat /\ p.len \in Nat /\ t.remote_seq \in Nat
  BY DEF PacketType, TypeOK, Session
<1>3. Enqueued(p, win) = IF p.len > 0 THEN queue_tcp(u, p.seq, p.len, Place(p.seq)) ELSE u
  BY DEF Enqueued, Place
<1> HIDE DEF u
<1>4. CASE p.len > 0 /\ p.seq >= t.remote_seq
  <2> DEFINE q == Queued(t, p.seq, p.len)
  <2>1. SentOf(u, p.seq) = SentOf(t, p.seq)
    BY <1>1 DEF SentOf
  <2>2. Enqueued(p, win) = [u EXCEPT !.forward = q]
    BY <1>1, <1>2, <1>3, <1>4, <2>1 DEF queue_tcp, Queued
  <2> HIDE DEF q
  <2>3. QED
    BY <1>1, <1>4, <2>2 DEF Session, q
<1>5. CASE p.len > 0 /\ ~(p.seq >= t.remote_seq)
  <2>1. p.seq < u.remote_seq
    BY <1>1, <1>2, <1>5
  <2>2. Enqueued(p, win) = u
    BY <1>3, <1>5, <2>1 DEF queue_tcp
  <2>3. QED
    BY <1>1, <1>5, <2>2
<1>6. CASE ~(p.len > 0)
  BY <1>1, <1>3, <1>6
<1>7. QED
  BY <1>4, <1>5, <1>6

\* Confirming the FIN moves remote_seq on and enters the next state, or closes.
LEMMA FinFields ==
  ASSUME NEW s \in Session, NEW ok \in BOOLEAN, NEW next \in States
  PROVE  LET f == FinConfirmed(s, ok, next)
         IN  /\ f \in Session /\ SameStream(s, f) /\ SameNumbers(s, f)
             /\ f.socket = s.socket
             /\ f.remote_seq = s.remote_seq + 1
             /\ f.state = IF ok THEN next ELSE "CLOSING"
             /\ f.confirmed = IF ok THEN Larger(s.confirmed, s.remote_seq + 1)
                                    ELSE s.confirmed
<1> DEFINE r == [s EXCEPT !.remote_seq = @ + 1]
           w == Written(r, ok)
<1>1. /\ r \in Session /\ SameStream(s, r) /\ SameNumbers(s, r)
      /\ r.socket = s.socket /\ r.remote_seq = s.remote_seq + 1
      /\ r.confirmed = s.confirmed
  BY Advance, AdvanceFields
<1> HIDE DEF r
<1>2. /\ w \in Session /\ SameStream(s, w) /\ SameNumbers(s, w)
      /\ w.socket = s.socket /\ w.remote_seq = s.remote_seq + 1
      /\ ~ok => w.state = "CLOSING"
      /\ w.confirmed = IF ok THEN Larger(s.confirmed, s.remote_seq + 1)
                             ELSE s.confirmed
  BY <1>1, WrittenType, WrittenFields DEF SameStream, SameNumbers
<1>3. FinConfirmed(s, ok, next) = IF ok THEN [w EXCEPT !.state = next] ELSE w
  BY DEF FinConfirmed, r
<1> HIDE DEF w
<1>4. LET f == [w EXCEPT !.state = next]
      IN  /\ f \in Session /\ SameStream(w, f) /\ SameNumbers(w, f)
          /\ f.socket = w.socket /\ f.remote_seq = w.remote_seq
          /\ f.state = next /\ f.confirmed = w.confirmed
  BY <1>2 DEF Session, SameStream, SameNumbers
<1>5. CASE ok
  BY <1>2, <1>3, <1>4, <1>5 DEF SameStream, SameNumbers
<1>6. CASE ~ok
  BY <1>2, <1>3, <1>6
<1>7. QED
  BY <1>5, <1>6

\* The SYN+ACK takes one number of each side, or fails and takes the app's.
LEMMA SynAckFields ==
  ASSUME NEW s \in Session, NEW ok \in BOOLEAN
  PROVE  LET f == SynAckWritten(s, ok)
         IN  /\ SameStream(s, f) /\ f.socks5 = s.socks5 /\ f.acked = s.acked
             /\ f.send_window = s.send_window
             /\ f.remote_seq = s.remote_seq + 1
             /\ f.local_seq = IF ok THEN s.local_seq + 1 ELSE s.local_seq
             /\ f.state = IF ok THEN "SYN_RECV" ELSE "CLOSING"
             /\ f.confirmed = IF ok THEN Larger(s.confirmed, s.remote_seq + 1)
                                    ELSE s.confirmed
<1> DEFINE r == [s EXCEPT !.remote_seq = @ + 1]
           w == Written(r, ok)
<1>1. /\ r \in Session /\ SameStream(s, r) /\ SameNumbers(s, r)
      /\ r.remote_seq = s.remote_seq + 1 /\ r.confirmed = s.confirmed
  BY Advance, AdvanceFields
<1> HIDE DEF r
<1>2. /\ w \in Session /\ SameStream(s, w) /\ SameNumbers(s, w)
      /\ w.remote_seq = s.remote_seq + 1
      /\ ~ok => w.state = "CLOSING"
      /\ w.confirmed = IF ok THEN Larger(s.confirmed, s.remote_seq + 1)
                             ELSE s.confirmed
  BY <1>1, WrittenType, WrittenFields DEF SameStream, SameNumbers
<1>3. SynAckWritten(s, ok)
        = IF ok THEN [w EXCEPT !.idle = FALSE, !.local_seq = @ + 1,
                               !.state = "SYN_RECV"]
                ELSE w
  BY DEF SynAckWritten, r
<1> HIDE DEF w
<1>4. LET f == [w EXCEPT !.idle = FALSE, !.local_seq = @ + 1, !.state = "SYN_RECV"]
      IN  /\ SameStream(w, f) /\ f.socks5 = w.socks5 /\ f.acked = w.acked
          /\ f.send_window = w.send_window /\ f.remote_seq = w.remote_seq
          /\ f.local_seq = w.local_seq + 1 /\ f.state = "SYN_RECV"
          /\ f.confirmed = w.confirmed
  BY <1>2 DEF Session, SameStream
<1>5. CASE ok
  BY <1>2, <1>3, <1>4, <1>5 DEF SameStream, SameNumbers
<1>6. CASE ~ok
  BY <1>2, <1>3, <1>6 DEF SameNumbers
<1>7. QED
  BY <1>5, <1>6

\* The server's end: a FIN written to the app once the queue is empty, or a
\* reset.
LEMMA EndOfFileFields ==
  ASSUME NEW s \in Session, NEW ok \in BOOLEAN,
         s.state \in {"ESTABLISHED", "CLOSE_WAIT"}
  PROVE  LET f == EndOfFile(s, ok)
             fin == ok /\ s.forward = {}
         IN  /\ SameStream(s, f) /\ f.socks5 = s.socks5 /\ f.acked = s.acked
             /\ f.send_window = s.send_window
             /\ f.remote_seq = s.remote_seq
             /\ f.local_seq = IF fin THEN s.local_seq + 1 ELSE s.local_seq
             /\ f.state = IF fin
                          THEN IF s.state = "ESTABLISHED" THEN "FIN_WAIT1"
                                                          ELSE "LAST_ACK"
                          ELSE "CLOSING"
             /\ f.confirmed = IF fin THEN Larger(s.confirmed, s.remote_seq)
                                     ELSE s.confirmed
<1> DEFINE w == Written(s, ok)
           next == IF s.state = "ESTABLISHED" THEN "FIN_WAIT1" ELSE "LAST_ACK"
           fin == IF ok THEN [w EXCEPT !.local_seq = @ + 1, !.state = next] ELSE w
           e == IF s.forward = {} THEN fin ELSE write_rst(s)
<1>1. EndOfFile(s, ok) = [e EXCEPT !.socket = FALSE]
  BY DEF EndOfFile
<1>2. /\ w \in Session /\ SameStream(s, w) /\ SameNumbers(s, w)
      /\ w.remote_seq = s.remote_seq
      /\ ~ok => w.state = "CLOSING"
      /\ w.confirmed = IF ok THEN Larger(s.confirmed, s.remote_seq) ELSE s.confirmed
  BY WrittenType, WrittenFields
<1>3. /\ write_rst(s) \in Session /\ SameStream(s, write_rst(s))
      /\ SameNumbers(s, write_rst(s)) /\ write_rst(s).confirmed = s.confirmed
      /\ write_rst(s).remote_seq = s.remote_seq /\ write_rst(s).state = "CLOSING"
  BY WriteRst, RstFields
<1>4. next \in States
  BY DEF States
<1> HIDE DEF w, next
<1>5. LET f == [w EXCEPT !.local_seq = @ + 1, !.state = next]
      IN  /\ f \in Session /\ SameStream(w, f) /\ f.socks5 = w.socks5
          /\ f.acked = w.acked /\ f.send_window = w.send_window
          /\ f.remote_seq = w.remote_seq /\ f.local_seq = w.local_seq + 1
          /\ f.state = next /\ f.confirmed = w.confirmed
  <2> DEFINE m == w.local_seq + 1
  <2>1. m \in Nat /\ [w EXCEPT !.local_seq = @ + 1, !.state = next]
                       = [w EXCEPT !.local_seq = m, !.state = next]
    BY <1>2 DEF Session
  <2> HIDE DEF m
  <2>2. LET f == [w EXCEPT !.local_seq = m, !.state = next]
        IN  /\ f \in Session /\ SameStream(w, f) /\ f.socks5 = w.socks5
            /\ f.acked = w.acked /\ f.send_window = w.send_window
            /\ f.remote_seq = w.remote_seq /\ f.local_seq = m
            /\ f.state = next /\ f.confirmed = w.confirmed
    BY <1>2, <1>4, <2>1 DEF Session, SameStream
  <2>3. QED
    BY <2>1, <2>2 DEF m
<1>6. /\ e \in Session /\ SameStream(s, e) /\ e.socks5 = s.socks5
      /\ e.acked = s.acked /\ e.send_window = s.send_window
      /\ e.remote_seq = s.remote_seq
      /\ e.local_seq = IF ok /\ s.forward = {} THEN s.local_seq + 1 ELSE s.local_seq
      /\ e.state = IF ok /\ s.forward = {} THEN next ELSE "CLOSING"
      /\ e.confirmed = IF ok /\ s.forward = {} THEN Larger(s.confirmed, s.remote_seq)
                                               ELSE s.confirmed
  <2>1. CASE s.forward = {} /\ ok
    BY <1>2, <1>5, <2>1 DEF SameStream, SameNumbers
  <2>2. CASE s.forward = {} /\ ~ok
    BY <1>2, <2>2 DEF SameStream, SameNumbers
  <2>3. CASE s.forward # {}
    BY <1>3, <2>3 DEF SameStream, SameNumbers
  <2>4. QED
    BY <2>1, <2>2, <2>3
<1> HIDE DEF e
<1>7. LET f == [e EXCEPT !.socket = FALSE]
      IN  /\ SameStream(e, f) /\ SameNumbers(e, f) /\ f.remote_seq = e.remote_seq
          /\ f.state = e.state /\ f.confirmed = e.confirmed
  BY <1>6 DEF Session, SameStream, SameNumbers
<1>8. QED
  BY <1>1, <1>6, <1>7 DEF next, SameStream, SameNumbers

\* Data of the server moves local_seq by its length, or the session closes.
LEMMA DataFields ==
  ASSUME NEW s \in Session, NEW n \in Nat, NEW ok \in BOOLEAN
  PROVE  LET f == DataWritten(s, n, ok)
         IN  /\ SameStream(s, f) /\ f.socks5 = s.socks5 /\ f.acked = s.acked
             /\ f.send_window = s.send_window
             /\ f.remote_seq = s.remote_seq
             /\ f.local_seq = IF ok THEN s.local_seq + n ELSE s.local_seq
             /\ f.state = IF ok THEN s.state ELSE "CLOSING"
             /\ f.confirmed = IF ok THEN Larger(s.confirmed, s.remote_seq)
                                    ELSE s.confirmed
<1> DEFINE w == Written(s, ok)
<1>1. /\ w \in Session /\ SameStream(s, w) /\ SameNumbers(s, w)
      /\ w.remote_seq = s.remote_seq
      /\ w.state = IF ok THEN s.state ELSE "CLOSING"
      /\ w.confirmed = IF ok THEN Larger(s.confirmed, s.remote_seq) ELSE s.confirmed
  BY WrittenType, WrittenFields
<1>2. DataWritten(s, n, ok)
        = IF ok THEN [w EXCEPT !.local_seq = @ + n, !.unconfirmed = @ + 1] ELSE w
  BY DEF DataWritten
<1> HIDE DEF w
<1>3. LET f == [w EXCEPT !.local_seq = @ + n, !.unconfirmed = @ + 1]
      IN  /\ SameStream(w, f) /\ f.socks5 = w.socks5 /\ f.acked = w.acked
          /\ f.send_window = w.send_window /\ f.remote_seq = w.remote_seq
          /\ f.local_seq = w.local_seq + n
          /\ f.state = w.state /\ f.confirmed = w.confirmed
  BY <1>1 DEF Session, SameStream
<1>4. CASE ok
  BY <1>1, <1>2, <1>3, <1>4 DEF SameStream, SameNumbers
<1>5. CASE ~ok
  BY <1>1, <1>2, <1>5 DEF SameStream, SameNumbers
<1>6. QED
  BY <1>4, <1>5

(***************************************************************************)
(* The kinds of steps.  Whatever handler runs, it does one of these things *)
(* to the session; the invariants below are proved kind by kind.           *)
(***************************************************************************)
Handshake == t.state = "LISTEN" => t.local_seq = 0 /\ t.socks5 # "CONNECTED"

Confirms == t'.confirmed \in {t.confirmed, Larger(t.confirmed, t'.remote_seq)}

SameWindow == t'.acked = t.acked /\ t'.send_window = t.send_window

\* The acknowledgement of the last data confirms the FIN of the app with it.
FinDue == pc = "ack" /\ fwd /\ t.forward = {} /\ t.state = "CLOSE_WAIT"

Rests ==
  /\ SameStream(t, t') /\ SameWindow
  /\ t'.remote_seq = t.remote_seq /\ t'.local_seq = t.local_seq
  /\ t'.state = t.state /\ t'.socket = t.socket
  /\ t'.socks5 = t.socks5 \/ (t.state = "LISTEN" /\ t'.socks5 # "CONNECTED")
  /\ Confirms /\ UNCHANGED app

GivesUp ==
  /\ t.state # NONE
  /\ SameStream(t, t') /\ t'.acked = t.acked
  /\ t'.local_seq = t.local_seq
  /\ \/ t'.remote_seq = t.remote_seq
     \/ t'.remote_seq = t.remote_seq + 1 /\ (t.state = "LISTEN" \/ FinDue)
  /\ t'.state \in {"CLOSING", "CLOSE"}
  /\ t.state = "CLOSE" => t'.state = "CLOSE"
  /\ t'.socket => t.socket
  /\ t'.confirmed = t.confirmed /\ UNCHANGED app

Registers ==
  /\ t.state = NONE
  /\ \E p \in SynPackets, win \in Windows :
       /\ t'.send_window = win
       /\ t'.forward \in
            {{}, {[seq |-> 0, len |-> p.len, sent |-> 0, data |-> 1]}}
       /\ app' = [NewConnection EXCEPT !.edge = 1 + win]
  /\ t'.stream = <<>> /\ t'.socket /\ t'.confirmed = 0
  /\ t'.local_seq = 0 /\ t'.acked = 0 /\ t'.socks5 = "NONE"
  /\ \/ t'.state = "LISTEN" /\ t'.remote_seq = 0
     \/ t'.state = "CLOSING" /\ t'.remote_seq = 1

Removes == t.state = "CLOSE" /\ t' = Blank(FALSE) /\ UNCHANGED app

\* The queue after packet p.
QueueAfter(p) ==
  IF p.len > 0 /\ p.seq >= t.remote_seq THEN Queued(t, p.seq, p.len) ELSE t.forward

\* The FIN of packet p is confirmed at once.
FinTaken(p) ==
  /\ "FIN" \in p.flags /\ QueueAfter(p) = {}
  /\ \/ t.state = "ESTABLISHED" /\ t'.state \in {"CLOSE_WAIT", "CLOSING"}
     \/ t.state = "FIN_WAIT1" /\ t'.state \in {"CLOSE", "CLOSING"}

Takes(p, win) ==
  /\ t.state \notin {NONE, "CLOSING", "CLOSE"}
  /\ p.len > 0 => t.socket /\ t.state # "CLOSE_WAIT"
  /\ AppSends(p, win)
  /\ t'.stream = t.stream /\ t'.forward = QueueAfter(p)
  /\ t'.local_seq = t.local_seq /\ t'.socks5 = t.socks5 /\ t'.socket = t.socket
  /\ t'.send_window = win
  /\ t'.acked = t.acked \/ (p \notin StrayPackets /\ t'.acked = p.ack)
  /\ \/ t'.remote_seq = t.remote_seq
     \/ t'.remote_seq = t.remote_seq + 1 /\ FinTaken(p)
  /\ t'.state \notin {"CLOSING", "CLOSE"} => "RST" \notin p.flags /\ p \notin StrayPackets
  /\ \/ t'.state = t.state
     \/ t'.state = "CLOSING"
     \/ t.state = "SYN_RECV" /\ t'.state = "ESTABLISHED"
     \/ t.state = "ESTABLISHED" /\ t'.state = "CLOSE_WAIT" /\ "FIN" \in p.flags
     \/ t.state = "FIN_WAIT1" /\ t'.state = "CLOSE"
  /\ Confirms

Connects ==
  /\ t.state = "LISTEN" /\ t'.state = "SYN_RECV"
  /\ SameStream(t, t') /\ SameWindow /\ t'.socket = t.socket
  /\ t'.remote_seq = t.remote_seq + 1 /\ t'.local_seq = t.local_seq + 1
  /\ Confirms /\ UNCHANGED app

\* What forwarding leaves alone.
OnlyForwards ==
  /\ SameNumbers(t, t') /\ t'.state = t.state /\ t'.socket = t.socket
  /\ t'.confirmed = t.confirmed /\ UNCHANGED app

Forwards ==
  /\ pc = "forward" /\ "OUT" \in pending
  /\ OnlyForwards
  /\ \E g \in t.forward :
       /\ HeadReady(t, g)
       /\ t'.stream = t.stream \o Bytes(g, g.len - g.sent)
       /\ t'.remote_seq = g.seq + g.len
       /\ t'.forward = t.forward \ {g}

ForwardsPart ==
  /\ pc = "forward" /\ "OUT" \in pending
  /\ OnlyForwards
  /\ t'.remote_seq = t.remote_seq
  /\ \E g \in t.forward :
       /\ HeadReady(t, g)
       /\ \E n \in 1..(g.len - g.sent - 1) :
            /\ t'.stream = t.stream \o Bytes(g, n)
            /\ t'.forward = (t.forward \ {g}) \cup {[g EXCEPT !.sent = @ + n]}

CountsFin ==
  /\ FinDue
  /\ SameStream(t, t') /\ SameNumbers(t, t')
  /\ t'.remote_seq = t.remote_seq + 1
  /\ t'.state = t.state /\ t'.socket = t.socket
  /\ Confirms /\ UNCHANGED app

ServerEnds ==
  /\ t.forward = {}
  /\ \/ t.state = "ESTABLISHED" /\ t'.state = "FIN_WAIT1"
     \/ t.state = "CLOSE_WAIT" /\ t'.state = "LAST_ACK"
  /\ SameStream(t, t') /\ SameWindow /\ t'.socks5 = t.socks5
  /\ t'.remote_seq = t.remote_seq /\ t'.local_seq = t.local_seq + 1
  /\ t.socket /\ ~t'.socket
  /\ Confirms /\ UNCHANGED app

ServerSends ==
  /\ t.state \in {"ESTABLISHED", "CLOSE_WAIT"} /\ t'.state = t.state
  /\ \E n \in 1..get_send_window(t) : t'.local_seq = t.local_seq + n
  /\ SameStream(t, t') /\ SameWindow /\ t'.socks5 = t.socks5
  /\ t'.remote_seq = t.remote_seq /\ t'.socket = t.socket
  /\ Confirms /\ UNCHANGED app

Kinds ==
  \/ Rests \/ GivesUp \/ Registers \/ Removes
  \/ \E p \in AppPackets, win \in Windows : Takes(p, win)
  \/ Connects \/ Forwards \/ ForwardsPart \/ CountsFin \/ ServerEnds \/ ServerSends

\* A session that is registered takes a SYN's data as its queue.
LEMMA RegisterKind ==
  ASSUME Inv, RegisterSession
  PROVE  Registers
<1> USE InvTypes
<1>1. PICK p \in SynPackets, win \in Windows, open \in BOOLEAN, allowed \in BOOLEAN :
        /\ t' = IF allowed THEN NewSession(p, win, open)
                           ELSE write_rst(NewSession(p, win, open))
        /\ app' = [NewConnection EXCEPT !.edge = 1 + win]
  BY DEF RegisterSession
<1>2. p \in PacketType
  BY AppPacketsType
<1> DEFINE s == NewSession(p, win, open)
           q == IF p.len = 0 THEN {}
                ELSE {[seq |-> 0, len |-> p.len, sent |-> 0, data |-> 1]}
<1>3. s \in Session /\ s.socket = TRUE /\ s.state = "LISTEN"
  BY <1>2, NewSessionType
<1>4. /\ s.send_window = win /\ s.forward = q /\ s.stream = <<>> /\ s.confirmed = 0
      /\ s.local_seq = 0 /\ s.acked = 0 /\ s.socks5 = "NONE" /\ s.remote_seq = 0
  <2> HIDE DEF q
  <2>1. s = [Blank(TRUE) EXCEPT !.state = "LISTEN", !.send_window = win,
                                !.recv_open = open, !.forward = q,
                                !.ev = {"OUT", "ERR"}]
    BY DEF NewSession, q
  <2>2. QED
    BY <2>1 DEF Blank
<1> HIDE DEF s
<1>5. /\ write_rst(s).send_window = win /\ write_rst(s).forward = q
      /\ write_rst(s).stream = <<>> /\ write_rst(s).confirmed = 0
      /\ write_rst(s).local_seq = 0 /\ write_rst(s).acked = 0
      /\ write_rst(s).socks5 = "NONE" /\ write_rst(s).remote_seq = 1
      /\ write_rst(s).socket /\ write_rst(s).state = "CLOSING"
  <2> HIDE DEF q
  <2> QED BY <1>3, <1>4, WriteRst, RstFields DEF SameStream, SameNumbers
<1>6. t' = s \/ t' = write_rst(s)
  BY <1>1 DEF s
<1>7. t.state = NONE
  BY DEF RegisterSession
<1>8. QED
  <2>1. q \in {{}, {[seq |-> 0, len |-> p.len, sent |-> 0, data |-> 1]}}
    OBVIOUS
  <2> HIDE DEF q
  <2> QED BY <1>1, <1>3, <1>4, <1>5, <1>6, <1>7, <2>1 DEF Registers

\* The packets the app may send, by their flags.
LEMMA PacketFacts ==
  ASSUME TypeOK, NEW p \in AppPackets
  PROVE  /\ p \in PacketType
         /\ \/ p \in SynPackets /\ p.flags = {"SYN"} /\ p.seq = 0 /\ p.ack = 0
               /\ app.acked = 0
            \/ p.flags = {"RST"} /\ p.len = 0 /\ (p \in StrayPackets \/ p.seq = 1)
            \/ p \in StrayPackets /\ p.flags = {"ACK"} /\ p.len = 0
               /\ p.ack = t.local_seq + 1 /\ t.local_seq # 0
            \/ /\ t.local_seq # 0
               /\ p.flags \in {{"ACK"}, {"ACK", "FIN"}}
               /\ p.ack \in Larger(app.acked, 1)..(t.local_seq)
               /\ SegmentOf(p) \in AppSegments
<1>1. p \in PacketType
  BY AppPacketsType
<1>2. CASE p \in SynPackets /\ app.acked = 0
  BY <1>1, <1>2 DEF SynPackets, Packet
<1>3. CASE p = Packet({"RST"}, 1, 0, 0)
  BY <1>1, <1>3 DEF Packet
<1>4. CASE p \in StrayPackets /\ t.local_seq # 0
  BY <1>1, <1>4 DEF Packet, StrayPackets
<1>5. CASE p \in DataPackets /\ t.local_seq # 0
  <2>1. PICK g \in AppSegments, a \in Larger(app.acked, 1)..(t.local_seq) :
          p = Packet(IF g[3] = 1 THEN {"ACK", "FIN"} ELSE {"ACK"}, g[1], g[2], a)
    BY <1>5 DEF DataPackets
  <2>2. g \in Nat \X Nat \X {0, 1}
    BY ConstantsAssumption
       DEF AppSegments, NewSegments, OldSegments, TypeOK, Connection
  <2>3. SegmentOf(p) = g
    <3>1. p.seq = g[1] /\ p.len = g[2] /\ ("FIN" \in p.flags <=> g[3] = 1)
      BY <2>1 DEF Packet
    <3>2. g = <<g[1], g[2], g[3]>> /\ g[3] \in {0, 1}
      BY <2>2
    <3>3. (IF "FIN" \in p.flags THEN 1 ELSE 0) = g[3]
      BY <3>1, <3>2
    <3>4. QED
      BY <3>1, <3>2, <3>3 DEF SegmentOf
  <2>4. QED
    BY <1>1, <1>5, <2>1, <2>3 DEF Packet
<1>6. QED
  BY <1>2, <1>3, <1>4, <1>5 DEF AppPackets

\* A stray packet is a reset or acknowledges what was never written.
LEMMA StrayFacts ==
  ASSUME TypeOK, NEW p \in StrayPackets
  PROVE  p.flags = {"RST"} \/ (p.flags = {"ACK"} /\ p.ack = t.local_seq + 1)
  BY DEF StrayPackets, Packet

\* A refused packet resets the session.
LEMMA RefuseKind ==
  ASSUME Inv, RefusePacket \/ RefuseData
  PROVE  GivesUp
<1> USE InvTypes
<1>1. ASSUME NEW s \in Session, s.state = t.state, s.socket = t.socket,
             s.stream = t.stream, s.forward = t.forward, s.acked = t.acked,
             s.local_seq = t.local_seq, s.remote_seq = t.remote_seq,
             s.confirmed = t.confirmed, t.state # NONE,
             t' = write_rst(s), UNCHANGED app
      PROVE  GivesUp
  BY <1>1, WriteRst, RstFields DEF GivesUp, SameStream, SameNumbers
<1>2. CASE RefusePacket
  BY <1>1, <1>2 DEF RefusePacket, Receives
<1>3. CASE RefuseData
  <2>1. PICK p \in AppPackets, win \in Windows :
          Receives(p) /\ t' = write_rst(Touched(p, win)) /\ UNCHANGED app
    BY <1>3 DEF RefuseData
  <2>2. LET u == Touched(p, win)
        IN  /\ u \in Session /\ u.state = t.state /\ u.socket = t.socket
            /\ u.stream = t.stream /\ u.forward = t.forward /\ u.acked = t.acked
            /\ u.local_seq = t.local_seq /\ u.remote_seq = t.remote_seq
            /\ u.confirmed = t.confirmed
    BY ConstantsAssumption DEF Touched, Session
  <2>3. QED
    BY <1>1, <2>1, <2>2 DEF Receives
<1>4. QED
  BY <1>2, <1>3

\* A packet that gets as far as its flags.
LEMMA TakesKind ==
  ASSUME Inv, Handshake, NothingStranded,
         ReceiveRst \/ ReceiveSyn \/ ReceiveFin
         \/ ReceiveAck \/ ReceiveOldAck \/ ReceiveFutureAck
  PROVE  \E p \in AppPackets, win \in Windows : Takes(p, win)
<1> USE InvTypes
<1>1. ASSUME NEW p \in AppPackets, NEW win \in Windows, Accepts(p, win)
      PROVE  /\ t.state \notin {NONE, "CLOSING", "CLOSE"}
             /\ p.len > 0 => t.socket /\ t.state # "CLOSE_WAIT"
             /\ AppSends(p, win) /\ p \in PacketType
             /\ LET s == Enqueued(p, win)
                IN  /\ s \in Session /\ s.state = t.state /\ s.socket = t.socket
                    /\ s.stream = t.stream /\ s.forward = QueueAfter(p)
                    /\ s.local_seq = t.local_seq /\ s.remote_seq = t.remote_seq
                    /\ s.socks5 = t.socks5 /\ s.send_window = win
                    /\ s.acked = t.acked /\ s.confirmed = t.confirmed
  <2>1. /\ t.state \notin {NONE, "CLOSING", "CLOSE"}
        /\ p.len > 0 => t.socket /\ t.state # "CLOSE_WAIT"
        /\ AppSends(p, win)
    BY <1>1 DEF Accepts, Receives, DataRefused
  <2>2. p \in PacketType
    BY PacketFacts
  <2>3. QED
    BY <2>1, <2>2, EnqueuedType, EnqueuedFields DEF QueueAfter
<1>2. CASE ReceiveRst
  <2>1. PICK p \in AppPackets, win \in Windows :
          Accepts(p, win) /\ t' = [Enqueued(p, win) EXCEPT !.state = "CLOSING"]
    BY <1>2 DEF ReceiveRst
  <2> DEFINE s == Enqueued(p, win)
  <2>2. s \in Session
    BY <1>1, <2>1
  <2> HIDE DEF s
  <2>3. /\ SameStream(s, t') /\ SameNumbers(s, t') /\ t'.socket = s.socket
        /\ t'.remote_seq = s.remote_seq /\ t'.confirmed = s.confirmed
        /\ t'.state = "CLOSING"
    BY <2>1, <2>2 DEF s, Session, SameStream, SameNumbers
  <2>4. Takes(p, win)
    BY <1>1, <2>1, <2>3 DEF s, SameStream, SameNumbers, Takes, Confirms
  <2>5. QED
    BY <2>4
<1>3. CASE ReceiveSyn
  <2>1. PICK p \in AppPackets, win \in Windows :
          /\ Accepts(p, win) /\ Current(p) /\ "SYN" \in p.flags
          /\ t' = Enqueued(p, win)
    BY <1>3 DEF ReceiveSyn
  <2>2. p.flags = {"SYN"} /\ p \notin StrayPackets
    BY <2>1, PacketFacts, StrayFacts
  <2>3. Takes(p, win)
    BY <1>1, <2>1, <2>2 DEF Takes, Confirms
  <2>4. QED
    BY <2>3
<1>4. CASE ReceiveFin
  <2>1. PICK p \in AppPackets, win \in Windows, ok \in BOOLEAN :
          LET s == Enqueued(p, win)
          IN  /\ Accepts(p, win) /\ "FIN" \in p.flags
              /\ \/ /\ s.state = "ESTABLISHED"
                    /\ \/ s.forward = {} /\ t' = FinConfirmed(s, ok, "CLOSE_WAIT")
                       \/ t' = [s EXCEPT !.state = "CLOSE_WAIT"]
                 \/ /\ s.state = "FIN_WAIT1"
                    /\ t' = FinConfirmed(s, ok, "CLOSE")
                 \/ /\ s.state \notin {"ESTABLISHED", "FIN_WAIT1"}
                    /\ t' = s
    BY <1>4 DEF ReceiveFin
  <2>2. p.flags = {"ACK", "FIN"} /\ p \notin StrayPackets
    BY <2>1, PacketFacts, StrayFacts
  <2> DEFINE s == Enqueued(p, win)
  <2>3. /\ s \in Session /\ s.state = t.state /\ s.socket = t.socket
        /\ s.stream = t.stream /\ s.forward = QueueAfter(p)
        /\ s.local_seq = t.local_seq /\ s.remote_seq = t.remote_seq
        /\ s.socks5 = t.socks5 /\ s.send_window = win
        /\ s.acked = t.acked /\ s.confirmed = t.confirmed
        /\ "CLOSE" \in States /\ "CLOSE_WAIT" \in States
    BY <1>1, <2>1 DEF States
  <2>4. CASE s.forward = {} /\ s.state = "ESTABLISHED" /\ t' = FinConfirmed(s, ok, "CLOSE_WAIT")
    <3> HIDE DEF s
    <3>1. LET f == FinConfirmed(s, ok, "CLOSE_WAIT")
          IN  /\ f \in Session /\ SameStream(s, f) /\ SameNumbers(s, f)
              /\ f.socket = s.socket
              /\ f.remote_seq = s.remote_seq + 1
              /\ f.state = IF ok THEN "CLOSE_WAIT" ELSE "CLOSING"
              /\ f.confirmed = IF ok THEN Larger(s.confirmed, s.remote_seq + 1)
                                     ELSE s.confirmed
      BY <2>3, FinFields
    <3>2. /\ t'.stream = t.stream /\ t'.forward = QueueAfter(p) /\ t'.acked = t.acked
          /\ t'.local_seq = t.local_seq /\ t'.socks5 = t.socks5
          /\ t'.socket = t.socket /\ t'.send_window = win
          /\ t'.remote_seq = t.remote_seq + 1 /\ Confirms
          /\ t'.state \in {"CLOSE_WAIT", "CLOSING"} /\ t.state = "ESTABLISHED"
      BY <2>3, <2>4, <3>1 DEF SameStream, SameNumbers, Confirms
    <3>3. FinTaken(p)
      BY <2>2, <2>3, <2>4, <3>2 DEF FinTaken
    <3>4. Takes(p, win)
      BY <1>1, <2>1, <2>2, <3>2, <3>3 DEF Takes
    <3>5. QED
      BY <3>4
  <2>5. CASE s.state = "ESTABLISHED" /\ t' = [s EXCEPT !.state = "CLOSE_WAIT"]
    <3> HIDE DEF s
    <3>1. /\ SameStream(s, t') /\ SameNumbers(s, t') /\ t'.socket = s.socket
          /\ t'.remote_seq = s.remote_seq /\ t'.confirmed = s.confirmed
          /\ t'.state = "CLOSE_WAIT"
      BY <2>3, <2>5 DEF Session, SameStream, SameNumbers
    <3>2. Takes(p, win)
      BY <1>1, <2>1, <2>2, <2>3, <2>5, <3>1 DEF SameStream, SameNumbers, Takes, Confirms
    <3>3. QED
      BY <3>2
  <2>6. CASE s.state = "FIN_WAIT1" /\ t' = FinConfirmed(s, ok, "CLOSE")
    <3> HIDE DEF s
    <3>1. LET f == FinConfirmed(s, ok, "CLOSE")
          IN  /\ f \in Session /\ SameStream(s, f) /\ SameNumbers(s, f)
              /\ f.socket = s.socket
              /\ f.remote_seq = s.remote_seq + 1
              /\ f.state = IF ok THEN "CLOSE" ELSE "CLOSING"
              /\ f.confirmed = IF ok THEN Larger(s.confirmed, s.remote_seq + 1)
                                     ELSE s.confirmed
      BY <2>3, FinFields
    <3>2. /\ t'.stream = t.stream /\ t'.forward = QueueAfter(p) /\ t'.acked = t.acked
          /\ t'.local_seq = t.local_seq /\ t'.socks5 = t.socks5
          /\ t'.socket = t.socket /\ t'.send_window = win
          /\ t'.remote_seq = t.remote_seq + 1 /\ Confirms
          /\ t'.state \in {"CLOSE", "CLOSING"} /\ t.state = "FIN_WAIT1"
      BY <2>3, <2>6, <3>1 DEF SameStream, SameNumbers, Confirms
    <3>3. QueueAfter(p) = {}
      <4>1. ~t.socket /\ t.forward = {}
        BY <3>2 DEF Inv, SocketReleased, Released, NothingStranded
      <4>2. ~(p.len > 0)
        BY <1>1, <2>1, <4>1
      <4>3. QED
        BY <4>1, <4>2 DEF QueueAfter
    <3>4. FinTaken(p)
      BY <2>2, <3>2, <3>3 DEF FinTaken
    <3>5. Takes(p, win)
      BY <1>1, <2>1, <2>2, <3>2, <3>4 DEF Takes
    <3>6. QED
      BY <3>5
  <2>7. CASE s.state \notin {"ESTABLISHED", "FIN_WAIT1"} /\ t' = s
    <3>1. Takes(p, win)
      BY <1>1, <2>1, <2>2, <2>7 DEF Takes, Confirms
    <3>2. QED
      BY <3>1
  <2>8. QED
    BY <2>1, <2>4, <2>5, <2>6, <2>7
<1>5. CASE ReceiveAck
  <2>1. PICK p \in AppPackets, win \in Windows :
          LET s == [Enqueued(p, win) EXCEPT !.acked = p.ack]
          IN  /\ Accepts(p, win) /\ Current(p) /\ p.flags = {"ACK"}
              /\ t' = [s EXCEPT !.state = CASE @ = "SYN_RECV" -> "ESTABLISHED"
                                            [] @ = "LAST_ACK" -> "CLOSING"
                                            [] OTHER -> @]
    BY <1>5 DEF ReceiveAck
  <2> DEFINE s == Enqueued(p, win)
             n == CASE s.state = "SYN_RECV" -> "ESTABLISHED"
                    [] s.state = "LAST_ACK" -> "CLOSING"
                    [] OTHER -> s.state
  <2>2. s \in Session /\ s.state = t.state
    BY <1>1, <2>1
  <2>3. p \notin StrayPackets
    <3>1. t.local_seq \in Nat /\ p.ack = t.local_seq
      BY <2>1 DEF Current, Session
    <3>2. QED
      BY <2>1, <3>1, StrayFacts
  <2> HIDE DEF s
  <2>4. /\ t'.stream = s.stream /\ t'.forward = s.forward
        /\ t'.local_seq = s.local_seq /\ t'.socks5 = s.socks5
        /\ t'.socket = s.socket /\ t'.send_window = s.send_window
        /\ t'.remote_seq = s.remote_seq /\ t'.confirmed = s.confirmed
        /\ t'.acked = p.ack /\ t'.state = n
    BY <2>1, <2>2 DEF s, Session
  <2>5. \/ n = t.state
        \/ n = "CLOSING"
        \/ t.state = "SYN_RECV" /\ n = "ESTABLISHED"
    BY <2>2
  <2> HIDE DEF n
  <2>6. Takes(p, win)
    BY <1>1, <2>1, <2>3, <2>4, <2>5 DEF s, Takes, Confirms
  <2>7. QED
    BY <2>6
<1>6. CASE ReceiveOldAck
  <2>1. PICK p \in AppPackets, win \in Windows :
          /\ Accepts(p, win) /\ "ACK" \in p.flags /\ p.ack < t.local_seq
          /\ \/ t' = Enqueued(p, win)
             \/ t' = [Enqueued(p, win) EXCEPT !.acked = Larger(@, p.ack)]
    BY <1>6 DEF ReceiveOldAck
  <2> DEFINE s == Enqueued(p, win)
  <2>2. s \in Session
    BY <1>1, <2>1
  <2>3. p \notin StrayPackets /\ "RST" \notin p.flags
    <3>1. t.local_seq \in Nat
      BY DEF Session
    <3>2. QED
      BY <2>1, <3>1, StrayFacts, PacketFacts
  <2> HIDE DEF s
  <2>4. Larger(s.acked, p.ack) \in {s.acked, p.ack}
    BY DEF Larger
  <2> DEFINE m == Larger(s.acked, p.ack)
  <2>5. t' = s \/ t' = [s EXCEPT !.acked = m]
    BY <2>1 DEF s
  <2> HIDE DEF m
  <2>6. /\ t'.stream = s.stream /\ t'.forward = s.forward
        /\ t'.local_seq = s.local_seq /\ t'.socks5 = s.socks5
        /\ t'.socket = s.socket /\ t'.send_window = s.send_window
        /\ t'.remote_seq = s.remote_seq /\ t'.confirmed = s.confirmed
        /\ t'.acked \in {s.acked, m} /\ t'.state = s.state
    BY <2>2, <2>5 DEF Session
  <2>7. t'.acked = t.acked \/ t'.acked = p.ack
    BY <1>1, <2>1, <2>4, <2>6 DEF s, m
  <2>8. Takes(p, win)
    BY <1>1, <2>1, <2>3, <2>6, <2>7 DEF s, Takes, Confirms
  <2>9. QED
    BY <2>8
<1>7. CASE ReceiveFutureAck
  <2>1. PICK p \in AppPackets, win \in Windows :
          /\ Accepts(p, win) /\ "ACK" \in p.flags
          /\ t' = write_rst(Enqueued(p, win))
    BY <1>7 DEF ReceiveFutureAck
  <2>2. t.state # "LISTEN"
    BY <2>1, PacketFacts DEF Handshake
  <2> DEFINE s == Enqueued(p, win)
  <2>3. s \in Session /\ s.state = t.state /\ s.state # "CLOSE"
    BY <1>1, <2>1
  <2> HIDE DEF s
  <2>4. /\ SameStream(s, t') /\ SameNumbers(s, t') /\ t'.socket = s.socket
        /\ t'.remote_seq = s.remote_seq /\ t'.confirmed = s.confirmed
        /\ t'.state = "CLOSING"
    BY <2>1, <2>2, <2>3, WriteRst, RstFields DEF s
  <2>5. Takes(p, win)
    BY <1>1, <2>1, <2>4 DEF s, SameStream, SameNumbers, Takes, Confirms
  <2>6. QED
    BY <2>5
<1>8. QED
  BY <1>2, <1>3, <1>4, <1>5, <1>6, <1>7

\* monitor_tcp_session changes the interest, or gives the session up.
LEMMA MonitorKind ==
  ASSUME Inv, MonitorSession \/ MonitorNothing
  PROVE  Rests \/ GivesUp
<1> USE InvTypes
<1>1. CASE MonitorSession
  <2>1. PICK fits \in BOOLEAN :
          \/ t' = [t EXCEPT !.ev = Interest(t, fits)]
          \/ t' = [t EXCEPT !.ev = Interest(t, fits), !.state = "CLOSING"]
          \/ t' = [t EXCEPT !.state = "CLOSING"]
    BY <1>1 DEF MonitorSession
  <2>2. t.state # NONE /\ t.socket /\ UNCHANGED app
    BY <1>1 DEF MonitorSession
  <2>3. t.state # "CLOSE"
    BY <2>2 DEF Inv, SocketReleased, Released
  <2>4. /\ SameStream(t, t') /\ SameNumbers(t, t') /\ t'.socket = t.socket
        /\ t'.remote_seq = t.remote_seq /\ t'.confirmed = t.confirmed
        /\ t'.state = t.state \/ t'.state = "CLOSING"
    BY <2>1 DEF Session, SameStream, SameNumbers
  <2>5. QED
    BY <2>2, <2>3, <2>4 DEF Rests, GivesUp, SameWindow, SameNumbers, Confirms
<1>2. CASE MonitorNothing
  BY <1>2 DEF MonitorNothing, Rests, SameStream, SameWindow, Confirms
<1>3. QED
  BY <1>1, <1>2

\* check_tcp_session leaves the session, closes it, or removes a closed one.
LEMMA CheckKind ==
  ASSUME Inv, CheckSession \/ SkipCheck
  PROVE  (t' = t /\ Rests) \/ GivesUp \/ Removes
<1> USE InvTypes
<1>1. UNCHANGED app
  BY DEF CheckSession, SkipCheck
<1>2. CASE t' = t
  BY <1>1, <1>2 DEF Rests, SameStream, SameWindow, Confirms
<1>3. CASE t' # t
  <2>1. t.state # NONE /\ t' = Deleted(Closed(TimedOut(t)))
    BY <1>3 DEF CheckSession, SkipCheck, check_tcp_session
  <2> DEFINE a == TimedOut(t)
  <2>2. /\ a \in Session /\ SameStream(t, a) /\ SameNumbers(t, a)
        /\ a.socket = t.socket /\ a.remote_seq = t.remote_seq
        /\ a.confirmed = t.confirmed
        /\ a.state = "CLOSING" \/ a = t
    <3>1. CASE t.state \in {"CLOSING", "CLOSE"} \/ ~t.idle
      BY <3>1 DEF TimedOut, SameStream, SameNumbers
    <3>2. CASE ~(t.state \in {"CLOSING", "CLOSE"} \/ ~t.idle) /\ t.state = "LISTEN"
      <4>1. a = [t EXCEPT !.state = "CLOSING"] /\ "CLOSING" \in States
        BY <3>2 DEF TimedOut, States
      <4>2. QED
        BY <4>1 DEF Session, SameStream, SameNumbers
    <3>3. CASE ~(t.state \in {"CLOSING", "CLOSE"} \/ ~t.idle) /\ t.state # "LISTEN"
      <4>1. a = write_rst(t)
        BY <3>3 DEF TimedOut
      <4>2. QED
        BY <3>3, <4>1, WriteRst, RstFields
    <3>4. QED
      BY <3>1, <3>2, <3>3
  <2> HIDE DEF a
  <2>3. CASE a.state = "CLOSING"
    <3> DEFINE b == [a EXCEPT !.socket = FALSE, !.idle = FALSE, !.state = "CLOSE"]
    <3>1. /\ SameStream(a, b) /\ SameNumbers(a, b) /\ b.socket = FALSE
          /\ b.remote_seq = a.remote_seq /\ b.confirmed = a.confirmed
          /\ b.state = "CLOSE" /\ b.idle = FALSE
      BY <2>2 DEF Session, SameStream, SameNumbers
    <3>2. Closed(a) = b
      BY <2>3 DEF Closed
    <3> HIDE DEF b
    <3>3. t' = b
      BY <2>1, <3>1, <3>2 DEF a, Deleted
    <3>4. QED
      BY <1>1, <2>1, <2>2, <3>1, <3>3 DEF GivesUp, SameStream, SameNumbers
  <2>4. CASE a.state # "CLOSING"
    <3>1. a = t /\ t' = Deleted(t)
      BY <2>1, <2>2, <2>4 DEF a, Closed
    <3>2. t.state = "CLOSE" /\ t' = Blank(t.socket)
      BY <1>3, <3>1 DEF Deleted
    <3>3. t.socket = FALSE
      BY <3>2 DEF Inv, SocketReleased, Released, Session
    <3>4. QED
      BY <1>1, <3>2, <3>3 DEF Removes
  <2>5. QED
    BY <2>3, <2>4
<1>4. QED
  BY <1>2, <1>3

\* The handshake with the server or the proxy.
LEMMA ConnectKind ==
  ASSUME Inv, Handshake, SocketConnect
  PROVE  Rests \/ GivesUp \/ Connects
<1> USE InvTypes
<1>1. t.state = "LISTEN" /\ t.socks5 # "CONNECTED" /\ UNCHANGED app
  BY DEF SocketConnect, Handshake
<1>2. PICK s \in Connecting(t), ok \in BOOLEAN : t' = Answered(s, ok)
  BY DEF SocketConnect
<1>3. t.state \in Unreleased
  BY <1>1 DEF Unreleased, Released, States, NONE
<1>4. s \in Session /\ s.socket = t.socket
  BY <1>3, ConnectingType
<1>5. ASSUME NEW k \in Socks5
      PROVE  LET r == [t EXCEPT !.socks5 = k]
             IN  /\ r \in Session /\ r.state = t.state /\ r.socks5 = k
                 /\ SameStream(t, r) /\ r.local_seq = t.local_seq
                 /\ r.acked = t.acked /\ r.send_window = t.send_window
                 /\ r.remote_seq = t.remote_seq /\ r.confirmed = t.confirmed
  BY DEF Session, SameStream
<1>6. /\ SameStream(t, s) /\ s.local_seq = t.local_seq /\ s.acked = t.acked
      /\ s.send_window = t.send_window /\ s.confirmed = t.confirmed
      /\ \/ s.state = "LISTEN" /\ s.remote_seq = t.remote_seq
         \/ /\ s.state = "CLOSING" /\ s.remote_seq = t.remote_seq + 1
            /\ s.socks5 # "CONNECTED"
  <2>1. /\ "ZERO" \in Socks5 /\ "CONNECT" \in Socks5 /\ "AUTH" \in Socks5
        /\ "CONNECTED" \in Socks5 /\ "HELLO" \in Socks5
    BY DEF Socks5
  <2>2. \/ \E k \in Socks5 : s = [t EXCEPT !.socks5 = k]
        \/ s = t
        \/ s = write_rst(t)
        \/ s = write_rst([t EXCEPT !.socks5 = "ZERO"])
    BY <2>1 DEF Connecting, ProxyReply
  <2>3. CASE \E k \in Socks5 : s = [t EXCEPT !.socks5 = k]
    BY <1>1, <1>5, <2>3
  <2>4. CASE s = t
    BY <1>1, <2>4 DEF SameStream
  <2>5. CASE s = write_rst(t)
    BY <1>1, <2>5, WriteRst, RstFields DEF SameStream, SameNumbers
  <2>6. CASE s = write_rst([t EXCEPT !.socks5 = "ZERO"])
    <3> DEFINE r == [t EXCEPT !.socks5 = "ZERO"]
    <3>1. /\ r \in Session /\ r.state = t.state /\ r.socks5 = "ZERO"
          /\ SameStream(t, r) /\ r.local_seq = t.local_seq
          /\ r.acked = t.acked /\ r.send_window = t.send_window
          /\ r.remote_seq = t.remote_seq /\ r.confirmed = t.confirmed
      BY <1>5, <2>1
    <3> HIDE DEF r
    <3>2. s = write_rst(r)
      BY <2>6 DEF r
    <3>3. QED
      BY <1>1, <3>1, <3>2, WriteRst, RstFields DEF SameStream, SameNumbers
  <2>7. QED
    BY <2>2, <2>3, <2>4, <2>5, <2>6
<1>7. CASE s.socks5 = "CONNECTED"
  <2>1. t' = SynAckWritten(s, ok) /\ s.state = "LISTEN" /\ s.remote_seq = t.remote_seq
    BY <1>2, <1>6, <1>7 DEF Answered
  <2>2. t'.socket = t.socket
    BY <1>4, <2>1, SynAckType
  <2>3. /\ SameStream(t, t') /\ t'.acked = t.acked /\ t'.send_window = t.send_window
        /\ t'.remote_seq = t.remote_seq + 1
        /\ t'.local_seq = IF ok THEN t.local_seq + 1 ELSE t.local_seq
        /\ t'.state = IF ok THEN "SYN_RECV" ELSE "CLOSING"
        /\ t'.confirmed = IF ok THEN Larger(t.confirmed, t.remote_seq + 1)
                                ELSE t.confirmed
    BY <1>4, <1>6, <2>1, SynAckFields DEF SameStream
  <2>4. CASE ok
    BY <1>1, <2>2, <2>3, <2>4 DEF Connects, SameWindow, Confirms
  <2>5. CASE ~ok
    BY <1>1, <2>2, <2>3, <2>5 DEF GivesUp, NONE
  <2>6. QED
    BY <2>4, <2>5
<1>8. CASE s.socks5 # "CONNECTED"
  <2>1. t' = s \/ t' = write_rst(s)
    BY <1>2, <1>8 DEF Answered
  <2>2. CASE t' = s /\ s.state = "LISTEN"
    BY <1>1, <1>4, <1>6, <1>8, <2>2 DEF Rests, SameWindow, Confirms
  <2>3. CASE t' = s /\ s.state # "LISTEN"
    BY <1>1, <1>4, <1>6, <2>3 DEF GivesUp, NONE
  <2>4. CASE t' = write_rst(s)
    <3>1. /\ SameStream(s, t') /\ SameNumbers(s, t') /\ t'.socket = s.socket
          /\ t'.confirmed = s.confirmed /\ t'.state = "CLOSING"
          /\ t'.remote_seq = IF s.state = "LISTEN" THEN s.remote_seq + 1
                                                   ELSE s.remote_seq
      BY <1>4, <1>6, <2>4, WriteRst, RstFields
    <3>2. QED
      BY <1>1, <1>4, <1>6, <3>1 DEF GivesUp, NONE, SameStream, SameNumbers
  <2>5. QED
    BY <2>1, <2>2, <2>3, <2>4
<1>9. QED
  BY <1>7, <1>8

\* Errors of the socket, and the start of its event.
LEMMA ErrorKind ==
  ASSUME Inv, SocketError \/ SocketEvent
  PROVE  Rests \/ GivesUp
<1> USE InvTypes
<1>1. t.socket /\ t.state \notin Released
  BY DEF SocketError, SocketEvent, Inv, SocketReleased
<1>2. CASE SocketError
  <2> DEFINE s == [t EXCEPT !.idle = FALSE]
  <2>1. /\ s \in Session /\ SameStream(t, s) /\ SameNumbers(t, s)
        /\ s.socket = t.socket /\ s.state = t.state
        /\ s.remote_seq = t.remote_seq /\ s.confirmed = t.confirmed
    BY DEF Session, SameStream, SameNumbers
  <2>2. t' = write_rst(s) /\ UNCHANGED app
    BY <1>2 DEF SocketError
  <2> HIDE DEF s
  <2>3. GivesUp
    BY <1>1, <2>1, <2>2, WriteRst, RstFields
       DEF GivesUp, SameStream, SameNumbers, Released
  <2>4. QED
    BY <2>3
<1>3. CASE SocketEvent
  BY <1>3 DEF SocketEvent, Rests, SameStream, SameWindow, Confirms
<1>4. QED
  BY <1>2, <1>3

\* The send loop.
LEMMA ForwardKind ==
  ASSUME Inv, ForwardSegment \/ ForwardPart \/ ForwardError \/ ForwardEnd
  PROVE  Forwards \/ ForwardsPart \/ GivesUp \/ Rests
<1> USE InvTypes
<1>1. CASE ForwardSegment
  <2>1. PICK g \in t.forward :
          /\ HeadReady(t, g)
          /\ t' = [t EXCEPT !.stream = @ \o Bytes(g, g.len - g.sent),
                            !.remote_seq = g.seq + g.len,
                            !.forward = @ \ {g}]
    BY <1>1 DEF ForwardSegment
  <2> DEFINE b == t.stream \o Bytes(g, g.len - g.sent)
             r == g.seq + g.len
             q == t.forward \ {g}
  <2>2. t' = [t EXCEPT !.stream = b, !.remote_seq = r, !.forward = q]
    BY <2>1 DEF Session
  <2> HIDE DEF b, r, q
  <2>3. /\ t'.stream = b /\ t'.remote_seq = r /\ t'.forward = q
        /\ SameNumbers(t, t') /\ t'.state = t.state /\ t'.socket = t.socket
        /\ t'.confirmed = t.confirmed
    BY <2>2 DEF Session, SameNumbers
  <2>4. pc = "forward" /\ "OUT" \in pending /\ UNCHANGED app
    BY <1>1 DEF ForwardSegment
  <2>5. Forwards
    BY <2>1, <2>3, <2>4 DEF Forwards, OnlyForwards, b, r, q
  <2>6. QED
    BY <2>5
<1>2. CASE ForwardPart
  <2>1. PICK g \in t.forward :
          /\ HeadReady(t, g)
          /\ \E n \in 1..(g.len - g.sent - 1) :
               t' = [t EXCEPT !.stream = @ \o Bytes(g, n),
                              !.forward = (@ \ {g}) \cup {[g EXCEPT !.sent = @ + n]}]
    BY <1>2 DEF ForwardPart
  <2>2. PICK n \in 1..(g.len - g.sent - 1) :
          t' = [t EXCEPT !.stream = @ \o Bytes(g, n),
                         !.forward = (@ \ {g}) \cup {[g EXCEPT !.sent = @ + n]}]
    BY <2>1
  <2> DEFINE b == t.stream \o Bytes(g, n)
             q == (t.forward \ {g}) \cup {[g EXCEPT !.sent = @ + n]}
  <2>3. t' = [t EXCEPT !.stream = b, !.forward = q]
    BY <2>2 DEF Session
  <2> HIDE DEF b, q
  <2>4. /\ t'.stream = b /\ t'.remote_seq = t.remote_seq /\ t'.forward = q
        /\ SameNumbers(t, t') /\ t'.state = t.state /\ t'.socket = t.socket
        /\ t'.confirmed = t.confirmed
    BY <2>3 DEF Session, SameNumbers
  <2>5. pc = "forward" /\ "OUT" \in pending /\ UNCHANGED app
    BY <1>2 DEF ForwardPart
  <2>6. ForwardsPart
    BY <2>1, <2>4, <2>5 DEF ForwardsPart, OnlyForwards, b, q
  <2>7. QED
    BY <2>6
<1>3. CASE ForwardError
  <2>1. t' = write_rst(t) /\ UNCHANGED app /\ t.socket
    BY <1>3 DEF ForwardError, Inv, SocketReleased, InSocketEvent
  <2>2. t.state # NONE
    BY <2>1 DEF Inv, SocketReleased, Released
  <2>3. GivesUp
    BY <2>1, <2>2, WriteRst, RstFields DEF GivesUp, SameStream, SameNumbers
  <2>4. QED
    BY <2>3
<1>4. CASE ForwardEnd
  BY <1>4 DEF ForwardEnd, Rests, SameStream, SameWindow, Confirms
<1>5. QED
  BY <1>1, <1>2, <1>3, <1>4

\* The acknowledgement of forwarded data, with the app's FIN or without.
LEMMA AcknowledgeKind ==
  ASSUME Inv, Acknowledge
  PROVE  Rests \/ GivesUp \/ CountsFin
<1> USE InvTypes
<1>1. /\ pc = "ack" /\ t.socket /\ UNCHANGED app
  BY DEF Acknowledge, Inv, SocketReleased, InSocketEvent
<1>2. t.state # NONE /\ t.state # "CLOSE"
  BY <1>1 DEF Inv, SocketReleased, Released
<1>3. PICK open \in BOOLEAN, ok \in BOOLEAN :
        LET s == [t EXCEPT !.recv_open = open]
            f == IF fwd /\ s.forward = {} /\ s.state = "CLOSE_WAIT"
                 THEN [s EXCEPT !.remote_seq = @ + 1] ELSE s
            w == Written(f, ok)
        IN  t' = IF fwd \/ (~t.recv_open /\ open)
                 THEN IF ok THEN [w EXCEPT !.idle = FALSE] ELSE w
                 ELSE s
  BY DEF Acknowledge
<1> DEFINE s == [t EXCEPT !.recv_open = open]
           f == IF fwd /\ s.forward = {} /\ s.state = "CLOSE_WAIT"
                THEN [s EXCEPT !.remote_seq = @ + 1] ELSE s
           w == Written(f, ok)
<1>4. /\ s \in Session /\ SameStream(t, s) /\ SameNumbers(t, s)
      /\ s.socket = t.socket /\ s.state = t.state
      /\ s.remote_seq = t.remote_seq /\ s.confirmed = t.confirmed
  BY DEF Session, SameStream, SameNumbers
<1>5. t' = s \/ (t' = IF ok THEN [w EXCEPT !.idle = FALSE] ELSE w)
  BY <1>3
<1> HIDE DEF s
<1>6. /\ f \in Session /\ SameStream(t, f) /\ SameNumbers(t, f)
      /\ f.socket = t.socket /\ f.state = t.state /\ f.confirmed = t.confirmed
      /\ f.remote_seq = IF FinDue THEN t.remote_seq + 1 ELSE t.remote_seq
  <2>1. FinDue <=> fwd /\ s.forward = {} /\ s.state = "CLOSE_WAIT"
    BY <1>1, <1>4 DEF FinDue, SameStream
  <2>2. CASE FinDue
    BY <1>4, <2>1, <2>2, Advance, AdvanceFields DEF SameStream, SameNumbers
  <2>3. CASE ~FinDue
    BY <1>4, <2>1, <2>3 DEF SameStream, SameNumbers
  <2>4. QED
    BY <2>2, <2>3
<1> HIDE DEF f
<1>7. /\ w \in Session /\ SameStream(t, w) /\ SameNumbers(t, w)
      /\ w.socket = t.socket /\ w.remote_seq = f.remote_seq
      /\ w.state = IF ok THEN t.state ELSE "CLOSING"
      /\ w.confirmed = IF ok THEN Larger(t.confirmed, f.remote_seq) ELSE t.confirmed
  BY <1>6, WrittenType, WrittenFields DEF SameStream, SameNumbers
<1> HIDE DEF w
<1>8. LET x == [w EXCEPT !.idle = FALSE]
      IN  /\ SameStream(w, x) /\ SameNumbers(w, x)
          /\ x.socket = w.socket /\ x.remote_seq = w.remote_seq
          /\ x.state = w.state /\ x.confirmed = w.confirmed
  BY <1>7 DEF Session, SameStream, SameNumbers
<1>9. CASE t' = s
  BY <1>1, <1>4, <1>9 DEF Rests, SameWindow, SameNumbers, Confirms
<1>10. CASE ok /\ t' = [w EXCEPT !.idle = FALSE]
  <2>1. /\ SameStream(t, t') /\ SameNumbers(t, t')
        /\ t'.socket = t.socket /\ t'.remote_seq = f.remote_seq
        /\ t'.state = t.state /\ t'.confirmed = Larger(t.confirmed, t'.remote_seq)
    BY <1>7, <1>8, <1>10 DEF SameStream, SameNumbers
  <2>2. CASE FinDue
    BY <1>1, <1>6, <2>1, <2>2 DEF CountsFin, Confirms
  <2>3. CASE ~FinDue
    BY <1>1, <1>6, <2>1, <2>3 DEF Rests, SameWindow, SameNumbers, Confirms
  <2>4. QED
    BY <2>2, <2>3
<1>11. CASE ~ok /\ t' = w
  BY <1>1, <1>2, <1>6, <1>7, <1>11 DEF GivesUp, SameNumbers
<1>12. QED
  BY <1>5, <1>9, <1>10, <1>11

\* Reading from the socket.
LEMMA ReceiveKind ==
  ASSUME Inv, Receive
  PROVE  Rests \/ GivesUp \/ ServerEnds \/ ServerSends
<1> USE InvTypes
<1>1. t.socket /\ t.state \notin Released /\ UNCHANGED app
  BY DEF Receive, Inv, SocketReleased, InSocketEvent
<1> DEFINE s == [t EXCEPT !.idle = FALSE]
<1>2. /\ s \in Session /\ SameStream(t, s) /\ SameNumbers(t, s)
      /\ s.socket = t.socket /\ s.state = t.state /\ s.unconfirmed = t.unconfirmed
      /\ s.remote_seq = t.remote_seq /\ s.confirmed = t.confirmed
  BY DEF Session, SameStream, SameNumbers
<1>3. \/ t' = t
      \/ /\ t.state \in {"ESTABLISHED", "CLOSE_WAIT"}
         /\ \/ t' = s
            \/ t' = write_rst(s)
            \/ \E ok \in BOOLEAN : t' = EndOfFile(s, ok)
            \/ \E n \in 1..get_send_window(s), ok \in BOOLEAN :
                 t' = DataWritten(s, n, ok)
  BY DEF Receive, Readable
<1> HIDE DEF s
<1>4. get_send_window(s) = get_send_window(t) /\ get_send_window(s) \in Int
  <2>1. get_send_window(s) = get_send_window(t)
    BY <1>2 DEF get_send_window, SameNumbers
  <2> DEFINE h == (s.unconfirmed + 1) * Header
  <2>2. /\ s.local_seq \in Int /\ s.acked \in Int /\ s.send_window \in Int
        /\ s.unconfirmed + 1 \in Int /\ Header \in Int
    BY <1>2, ConstantsAssumption DEF Session
  <2>3. h \in Int
    <3> DEFINE u == s.unconfirmed + 1
    <3>1. u \in Int
      BY <2>2
    <3> HIDE DEF u
    <3>2. u * Header \in Int
      BY <2>2, <3>1
    <3>3. QED
      BY <3>2 DEF u
  <2>4. get_send_window(s) = IF (s.local_seq - s.acked) + h < s.send_window
                             THEN s.send_window - ((s.local_seq - s.acked) + h)
                             ELSE 0
    BY DEF get_send_window
  <2> HIDE DEF h
  <2>5. QED
    BY <2>1, <2>2, <2>3, <2>4
<1>5. CASE t' = t
  BY <1>1, <1>5 DEF Rests, SameStream, SameWindow, Confirms
<1>6. CASE t' = s
  BY <1>1, <1>2, <1>6 DEF Rests, SameNumbers, SameWindow, Confirms
<1>7. CASE t' = write_rst(s)
  <2>1. GivesUp
    BY <1>1, <1>2, <1>7, WriteRst, RstFields
       DEF GivesUp, SameStream, SameNumbers, Released
  <2>2. QED
    BY <2>1
<1>8. CASE /\ t.state \in {"ESTABLISHED", "CLOSE_WAIT"}
           /\ \E ok \in BOOLEAN : t' = EndOfFile(s, ok)
  <2>1. PICK ok \in BOOLEAN : t' = EndOfFile(s, ok)
    BY <1>8
  <2> DEFINE fin == ok /\ s.forward = {}
  <2>2. /\ SameStream(t, t') /\ t'.socks5 = t.socks5 /\ t'.acked = t.acked
        /\ t'.send_window = t.send_window /\ t'.remote_seq = t.remote_seq
        /\ t'.local_seq = IF fin THEN t.local_seq + 1 ELSE t.local_seq
        /\ t'.state = IF fin
                      THEN IF t.state = "ESTABLISHED" THEN "FIN_WAIT1"
                                                      ELSE "LAST_ACK"
                      ELSE "CLOSING"
        /\ t'.confirmed = IF fin THEN Larger(t.confirmed, t.remote_seq)
                                 ELSE t.confirmed
    BY <1>2, <1>8, <2>1, EndOfFileFields DEF SameStream, SameNumbers
  <2>3. t'.socket = FALSE
    BY <1>2, <2>1, EndOfFileType
  <2>4. CASE fin
    <3>1. t.forward = {}
      BY <1>2, <2>4 DEF SameStream
    <3>2. QED
      BY <1>1, <1>8, <2>2, <2>3, <2>4, <3>1 DEF ServerEnds, SameWindow, Confirms
  <2>5. CASE ~fin
    BY <1>1, <1>8, <2>2, <2>3, <2>5 DEF GivesUp, NONE
  <2>6. QED
    BY <2>4, <2>5
<1>9. CASE /\ t.state \in {"ESTABLISHED", "CLOSE_WAIT"}
           /\ \E n \in 1..get_send_window(s), ok \in BOOLEAN : t' = DataWritten(s, n, ok)
  <2>1. PICK n \in 1..get_send_window(s), ok \in BOOLEAN : t' = DataWritten(s, n, ok)
    BY <1>9
  <2>2. n \in Nat /\ n \in 1..get_send_window(t)
    BY <1>4
  <2>3. /\ SameStream(t, t') /\ t'.socks5 = t.socks5 /\ t'.acked = t.acked
        /\ t'.send_window = t.send_window /\ t'.remote_seq = t.remote_seq
        /\ t'.local_seq = IF ok THEN t.local_seq + n ELSE t.local_seq
        /\ t'.state = IF ok THEN t.state ELSE "CLOSING"
        /\ t'.confirmed = IF ok THEN Larger(t.confirmed, t.remote_seq)
                                ELSE t.confirmed
    BY <1>2, <2>1, <2>2, DataFields DEF SameStream, SameNumbers
  <2>4. t'.socket = t.socket
    BY <1>2, <2>1, <2>2, DataWrittenType
  <2>5. CASE ok
    BY <1>1, <1>9, <2>2, <2>3, <2>4, <2>5 DEF ServerSends, SameWindow, Confirms
  <2>6. CASE ~ok
    BY <1>1, <1>9, <2>3, <2>4, <2>6 DEF GivesUp, NONE
  <2>7. QED
    BY <2>5, <2>6
<1>10. QED
  BY <1>3, <1>5, <1>6, <1>7, <1>8, <1>9

\* Every step is of one of the kinds.
LEMMA StepKinds ==
  ASSUME Inv, Handshake, NothingStranded, [Next]_vars
  PROVE  Kinds
<1> USE InvTypes
<1>1. CASE UNCHANGED vars \/ EndBatch
  <2>1. UNCHANGED <<t, app>>
    BY <1>1 DEF vars, EndBatch
  <2>2. Rests
    BY <2>1 DEF Rests, SameStream, SameWindow, Confirms
  <2>3. QED
    BY <2>2 DEF Kinds
<1>2. CASE Tick
  <2>1. t' = [t EXCEPT !.idle = TRUE] /\ UNCHANGED app
    BY <1>2 DEF Tick
  <2>2. /\ SameStream(t, t') /\ SameNumbers(t, t')
        /\ t'.socket = t.socket /\ t'.state = t.state
        /\ t'.remote_seq = t.remote_seq /\ t'.confirmed = t.confirmed
    BY <2>1 DEF Session, SameStream, SameNumbers
  <2>3. Rests
    BY <2>1, <2>2 DEF Rests, SameNumbers, SameWindow, Confirms
  <2>4. QED
    BY <2>3 DEF Kinds
<1>3. CASE MonitorSession \/ MonitorNothing
  BY <1>3, MonitorKind DEF Kinds
<1>4. CASE CheckSession \/ SkipCheck
  BY <1>4, CheckKind DEF Kinds
<1>5. CASE HandleTcp
  BY <1>5, RegisterKind, RefuseKind, TakesKind DEF HandleTcp, Kinds
<1>6. CASE CheckTcpSocket
  BY <1>6, ErrorKind, ConnectKind, ForwardKind, AcknowledgeKind, ReceiveKind
     DEF CheckTcpSocket, Kinds
<1>7. QED
  BY <1>1, <1>2, <1>3, <1>4, <1>5, <1>6 DEF Next

(***************************************************************************)
(* The app's stream: what the queue holds and where the stream stands.     *)
(***************************************************************************)
Connected == {"SYN_RECV", "ESTABLISHED", "CLOSE_WAIT", "FIN_WAIT1", "LAST_ACK"}

\* Numbers start at the SYN, and only its data is queued before it is counted.
Numbered ==
  /\ t.state = "LISTEN" => t.remote_seq = 0 /\ t.stream = <<>>
  /\ t.state \in Connected => t.remote_seq >= 1
  /\ t.remote_seq = 0 => \A g \in t.forward : g.seq = 0

\* One segment for a number, with the bytes of that number; only the next one
\* may be sent in part.
QueueSound ==
  \A g \in t.forward :
    /\ g.data = Place(g.seq)
    /\ g.sent > 0 => g.seq = t.remote_seq
    /\ \A h \in t.forward : h.seq = g.seq => h = g

\* remote_seq is the place in the stream: of the next segment's first byte, or
\* behind the last byte forwarded.
StreamPosition ==
  /\ \A g \in t.forward : g.seq = t.remote_seq => Len(t.stream) + 1 = g.data + g.sent
  /\ /\ t.state \in {"SYN_RECV", "ESTABLISHED", "FIN_WAIT1"}
     /\ \A g \in t.forward : g.seq # t.remote_seq
     => Len(t.stream) + 1 = t.remote_seq

StreamFacts ==
  /\ Handshake /\ Numbered /\ QueueSound /\ StreamPosition
  /\ StreamInOrder /\ NothingStranded

StreamInv == Inv /\ StreamFacts

\* Sending n bytes makes the stream n bytes longer.
LEMMA AppendedLen ==
  ASSUME NEW s \in Seq(Nat), NEW g, g.data \in Nat, g.sent \in Nat, NEW n \in Nat
  PROVE  /\ Bytes(g, n) \in Seq(Nat) /\ Len(Bytes(g, n)) = n
         /\ Len(s \o Bytes(g, n)) = Len(s) + n
<1> DEFINE b == Bytes(g, n)
<1>1. b \in Seq(Nat) /\ Len(b) = n
  <2>1. b \in [1..n -> Nat]
    BY DEF Bytes
  <2>2. QED
    BY <2>1
<1> HIDE DEF b
<1>2. Len(s \o b) = Len(s) + n
  BY <1>1
<1>3. QED
  BY <1>1, <1>2 DEF b

Ordered(s) == \A i \in 1..Len(s) : s[i] = i

\* Bytes sent from where the stream stands continue it in order.
LEMMA AppendedOrder ==
  ASSUME NEW s \in Seq(Nat), NEW g, g.data \in Nat, g.sent \in Nat, NEW n \in Nat,
         Ordered(s), Len(s) + 1 = g.data + g.sent
  PROVE  Ordered(s \o Bytes(g, n))
<1> DEFINE b == Bytes(g, n)
           m == Len(s)
<1>1. m \in Nat /\ m + 1 = g.data + g.sent
  OBVIOUS
<1>2. b \in Seq(Nat) /\ Len(b) = n /\ Len(s \o b) = m + n
  BY AppendedLen
<1>3. \A i \in 1..n : b[i] = g.data + g.sent + (i - 1)
  BY DEF Bytes
<1> HIDE DEF b
<1>4. \A i \in 1..(m + n) : (s \o b)[i] = IF i <= m THEN s[i] ELSE b[i - m]
  BY <1>2, ConcatProperties
<1>5. \A i \in 1..m : s[i] = i
  BY DEF Ordered
<1> HIDE DEF m
<1>6. ASSUME NEW i \in 1..(m + n)
      PROVE  (s \o b)[i] = i
  <2>1. CASE i <= m
    BY <1>1, <1>4, <1>5, <2>1
  <2>2. CASE ~(i <= m)
    <3>1. i - m \in 1..n
      BY <1>1, <2>2
    <3>2. (s \o b)[i] = b[i - m]
      BY <1>4, <2>2
    <3>3. QED
      BY <1>1, <1>3, <3>1, <3>2
  <2>3. QED
    BY <2>1, <2>2
<1>7. QED
  BY <1>2, <1>6 DEF b, Ordered

\* Steps that leave stream, queue and remote_seq alone.
LEMMA StreamKept ==
  ASSUME StreamInv, Inv', SameStream(t, t'), t'.remote_seq = t.remote_seq,
         \/ t'.state = t.state
         \/ t'.state \in {"CLOSING", "CLOSE"}
         \/ t.state = "SYN_RECV" /\ t'.state = "ESTABLISHED"
         \/ t.state = "ESTABLISHED" /\ t'.state = "CLOSE_WAIT"
         \/ t.forward = {} /\ t.state = "ESTABLISHED" /\ t'.state = "FIN_WAIT1"
         \/ t.forward = {} /\ t.state = "CLOSE_WAIT" /\ t'.state = "LAST_ACK",
         t'.state = "LISTEN" => t'.local_seq = 0 /\ t'.socks5 # "CONNECTED"
  PROVE  StreamFacts'
<1> USE DEF StreamInv, StreamFacts, SameStream
<1>1. Handshake'
  BY DEF Handshake
<1>2. Numbered'
  BY DEF Numbered, Connected
<1>3. QueueSound'
  BY DEF QueueSound
<1>4. StreamPosition'
  BY DEF StreamPosition
<1>5. StreamInOrder'
  BY DEF StreamInOrder
<1>6. NothingStranded'
  BY DEF NothingStranded
<1>7. QED
  BY <1>1, <1>2, <1>3, <1>4, <1>5, <1>6

\* Steps that count the SYN or the FIN of the app.
LEMMA StreamCounted ==
  ASSUME StreamInv, Inv', t'.stream = t.stream, t'.remote_seq = t.remote_seq + 1,
         \/ /\ t.state = "LISTEN" /\ t'.forward = t.forward
            /\ t'.state \in {"SYN_RECV", "CLOSING", "CLOSE"}
         \/ /\ t.state \in Connected /\ t'.forward = {}
            /\ t'.state \in {"CLOSE_WAIT", "CLOSING", "CLOSE"}
  PROVE  StreamFacts'
<1> USE DEF StreamInv, StreamFacts
<1>0. t.remote_seq \in Nat /\ t.forward \subseteq Segment /\ t.stream \in Seq(Nat)
  BY DEF Inv, TypeOK, Session
<1>1. Handshake' /\ StreamInOrder' /\ NothingStranded'
  BY DEF Handshake, StreamInOrder, NothingStranded
<1>2. CASE t'.forward = {}
  <2>1. t'.remote_seq >= 1 /\ t'.remote_seq # 0 /\ t'.state # "LISTEN"
    BY <1>0
  <2>2. Numbered' /\ QueueSound'
    BY <1>2, <2>1 DEF Numbered, QueueSound
  <2>3. StreamPosition'
    <3>1. CASE t'.state = "SYN_RECV"
      <4>1. t.remote_seq = 0 /\ t.stream = <<>>
        BY <3>1 DEF Numbered
      <4>2. QED
        BY <1>2, <4>1 DEF StreamPosition
    <3>2. CASE t'.state # "SYN_RECV"
      BY <1>2, <3>2 DEF StreamPosition
    <3>3. QED
      BY <3>1, <3>2
  <2>4. QED
    BY <1>1, <2>2, <2>3
<1>3. CASE t.state = "LISTEN" /\ t'.forward = t.forward
  <2>1. /\ t.remote_seq = 0 /\ t.stream = <<>> /\ t'.remote_seq = 1
        /\ \A g \in t.forward : g.seq = 0
    BY <1>3 DEF Numbered
  <2>2. \A g \in t.forward : g.sent = 0
    <3> SUFFICES ASSUME NEW g \in t.forward PROVE g.sent = 0
      OBVIOUS
    <3>1. g.seq = 0 /\ g.data = 1 /\ g.sent \in Nat
      BY <1>0, <2>1 DEF QueueSound, Place, Segment
    <3>2. Len(t.stream) + 1 = g.data + g.sent
      BY <2>1, <3>1 DEF StreamPosition
    <3>3. QED
      BY <2>1, <3>1, <3>2
  <2>3. Numbered'
    BY <1>3, <2>1 DEF Numbered
  <2>4. QueueSound'
    BY <1>3, <2>2 DEF QueueSound
  <2>5. StreamPosition'
    BY <1>3, <2>1 DEF StreamPosition
  <2>6. QED
    BY <1>1, <2>3, <2>4, <2>5
<1>4. QED
  BY <1>2, <1>3

\* A segment put into the queue of an open connection.
LEMMA StreamQueued ==
  ASSUME StreamInv, Inv', NEW seq \in Nat, NEW len \in Nat,
         t'.stream = t.stream, t'.remote_seq = t.remote_seq,
         t'.forward = Queued(t, seq, len), seq >= t.remote_seq,
         \/ t.state \in {"SYN_RECV", "ESTABLISHED"}
         \/ t.state = "LISTEN" /\ seq = 0,
         \/ t'.state = t.state
         \/ t'.state \in {"CLOSING", "CLOSE"}
         \/ t.state = "SYN_RECV" /\ t'.state = "ESTABLISHED"
         \/ t.state = "ESTABLISHED" /\ t'.state = "CLOSE_WAIT",
         t'.state = "LISTEN" => t'.local_seq = 0 /\ t'.socks5 # "CONNECTED"
  PROVE  StreamFacts'
<1> USE DEF StreamInv, StreamFacts
<1>0. t.remote_seq \in Nat /\ t.forward \subseteq Segment /\ t.stream \in Seq(Nat)
  BY DEF Inv, TypeOK, Session
<1>1. Handshake' /\ StreamInOrder' /\ NothingStranded'
  BY DEF Handshake, StreamInOrder, NothingStranded
<1> DEFINE n == [seq |-> seq, len |-> len, sent |-> SentOf(t, seq), data |-> Place(seq)]
<1>2. /\ n.seq = seq /\ n.data = Place(seq) /\ n.sent = SentOf(t, seq)
      /\ t'.forward = {g \in t.forward : g.seq # seq} \cup {n}
  BY DEF Queued
<1>3. \/ n.sent = 0 /\ \A g \in t.forward : g.seq # seq
      \/ \E g \in t.forward : g.seq = seq /\ g.sent = n.sent
  BY <1>2 DEF SentOf
<1> HIDE DEF n
<1>4. Numbered'
  <2>1. t.remote_seq = 0 => seq = 0
    BY <1>0 DEF Numbered, Connected
  <2>2. t.remote_seq = 0 => \A g \in t'.forward : g.seq = 0
    BY <1>2, <2>1 DEF Numbered
  <2>3. QED
    BY <2>2 DEF Numbered, Connected
<1>5. QueueSound'
  <2>1. n.sent > 0 => n.seq = t.remote_seq
    BY <1>2, <1>3 DEF QueueSound
  <2>2. QED
    BY <1>2, <2>1 DEF QueueSound
<1>6. StreamPosition'
  <2>1. seq = t.remote_seq => Len(t.stream) + 1 = n.data + n.sent
    <3> SUFFICES ASSUME seq = t.remote_seq PROVE Len(t.stream) + 1 = n.data + n.sent
      OBVIOUS
    <3>1. CASE \E g \in t.forward : g.seq = seq /\ g.sent = n.sent
      BY <1>2, <3>1 DEF QueueSound, StreamPosition
    <3>2. CASE n.sent = 0 /\ \A g \in t.forward : g.seq # seq
      <4>1. CASE t.state = "LISTEN"
        BY <1>2, <3>2, <4>1 DEF Numbered, Place
      <4>2. CASE t.state # "LISTEN"
        <5>1. Len(t.stream) + 1 = t.remote_seq /\ t.remote_seq >= 1
          BY <3>2, <4>2 DEF StreamPosition, Numbered, Connected
        <5>2. QED
          BY <1>0, <1>2, <3>2, <5>1 DEF Place
      <4>3. QED
        BY <4>1, <4>2
    <3>3. QED
      BY <1>3, <3>1, <3>2
  <2>2. \A g \in t'.forward : g.seq = t.remote_seq => Len(t.stream) + 1 = g.data + g.sent
    BY <1>2, <2>1 DEF StreamPosition
  <2>3. ASSUME \A g \in t'.forward : g.seq # t.remote_seq,
               t'.state \in {"SYN_RECV", "ESTABLISHED", "FIN_WAIT1"}
        PROVE  Len(t.stream) + 1 = t.remote_seq
    <3>1. \A g \in t.forward : g.seq # t.remote_seq
      BY <1>2, <2>3
    <3>2. t.state \in {"SYN_RECV", "ESTABLISHED"}
      BY <2>3
    <3>3. QED
      BY <3>1, <3>2 DEF StreamPosition
  <2>4. QED
    BY <2>2, <2>3 DEF StreamPosition
<1>7. QED
  BY <1>1, <1>4, <1>5, <1>6

\* The send loop hands over what comes next.
LEMMA StreamForwards ==
  ASSUME StreamInv, Inv', Forwards \/ ForwardsPart, t.state # "LISTEN"
  PROVE  StreamFacts'
<1> USE DEF StreamInv, StreamFacts
<1>0. /\ t.remote_seq \in Nat /\ t.forward \subseteq Segment /\ t.stream \in Seq(Nat)
      /\ t.local_seq \in Nat /\ t'.stream \in Seq(Nat)
  BY DEF Inv, TypeOK, Session
<1>1. /\ t'.state = t.state /\ t'.local_seq = t.local_seq /\ t'.socks5 = t.socks5
      /\ t.socket /\ t.state \notin Released
  BY DEF Forwards, ForwardsPart, OnlyForwards, SameNumbers, Inv, SocketReleased,
         InSocketEvent
<1>2. Handshake' /\ NothingStranded'
  BY <1>1 DEF Handshake, NothingStranded, Released
<1>3. Len(t.stream) \in Nat
  BY <1>0
<1>4. CASE Forwards
  <2>1. PICK g \in t.forward :
          /\ HeadReady(t, g)
          /\ t'.stream = t.stream \o Bytes(g, g.len - g.sent)
          /\ t'.remote_seq = g.seq + g.len
          /\ t'.forward = t.forward \ {g}
    BY <1>4 DEF Forwards
  <2>2. /\ g.seq \in Nat /\ g.len \in Nat /\ g.sent \in Nat /\ g.data \in Nat
        /\ g.seq = t.remote_seq /\ g.len - g.sent \in Nat
        /\ g.data = Place(g.seq) /\ Len(t.stream) + 1 = g.data + g.sent
    BY <1>0, <2>1 DEF HeadReady, Segment, QueueSound, StreamPosition
  <2> DEFINE n == g.len - g.sent
  <2>3. n \in Nat /\ t'.stream = t.stream \o Bytes(g, n)
    BY <2>1, <2>2
  <2> HIDE DEF n
  <2>4. Len(t'.stream) + 1 = g.data + g.len /\ t'.remote_seq \in Nat
    <3> DEFINE m == Len(t.stream)
               k == Len(t'.stream)
    <3>0. Len(t.stream \o Bytes(g, n)) = Len(t.stream) + n
      <4>1. g.data \in Nat /\ g.sent \in Nat /\ n \in Nat
        BY <2>2, <2>3
      <4>2. QED
        BY <1>0, <4>1, AppendedLen
    <3>1. k = m + n /\ m \in Nat /\ m + 1 = g.data + g.sent
      BY <1>3, <2>2, <2>3, <3>0
    <3> HIDE DEF m, k
    <3>2. k + 1 = g.data + g.len
      BY <2>2, <3>1 DEF n
    <3>3. t'.remote_seq \in Nat
      BY <2>1, <2>2
    <3>4. QED
      BY <3>2, <3>3 DEF k
  <2>11. StreamInOrder'
    BY <1>0, <2>2, <2>3, AppendedOrder DEF StreamInOrder, Ordered
  <2>5. \A h \in t'.forward : h \in t.forward /\ h.sent = 0 /\ h.seq # g.seq
    <3> SUFFICES ASSUME NEW h \in t'.forward
                 PROVE  h \in t.forward /\ h.sent = 0 /\ h.seq # g.seq
      OBVIOUS
    <3>1. h \in t.forward /\ h.seq # g.seq /\ h.sent \in Nat
      BY <1>0, <2>1 DEF QueueSound, Segment
    <3>2. QED
      BY <2>2, <3>1 DEF QueueSound
  <2>6. g.seq = 0 => t'.forward = {}
    BY <2>2, <2>5 DEF Numbered
  <2>7. Numbered'
    <3>1. t.state \in Connected => t'.remote_seq >= 1
      BY <1>0, <2>1, <2>2 DEF Numbered
    <3>2. t'.remote_seq = 0 => g.seq = 0
      BY <2>1, <2>2
    <3>3. QED
      BY <1>1, <1>3, <2>6, <3>1, <3>2 DEF Numbered
  <2>8. QueueSound'
    BY <2>5 DEF QueueSound
  <2>9. StreamPosition'
    <3>1. ASSUME NEW h \in t'.forward, h.seq = t'.remote_seq
          PROVE  Len(t'.stream) + 1 = h.data + h.sent
      <4>1. /\ h.sent = 0 /\ h.data = Place(h.seq) /\ g.seq # 0 /\ h.seq \in Nat
        BY <1>0, <2>5, <2>6, <3>1 DEF QueueSound, Segment
      <4>2. Place(h.seq) = g.seq + g.len /\ g.data = g.seq
        BY ONLY <2>1, <2>2, <3>1, <4>1 DEF Place
      <4>3. QED
        BY ONLY <2>2, <2>4, <4>1, <4>2
    <3>2. ASSUME t'.state \in {"SYN_RECV", "ESTABLISHED", "FIN_WAIT1"}
          PROVE  Len(t'.stream) + 1 = t'.remote_seq
      <4>1. g.seq >= 1
        BY <1>1, <2>2, <3>2 DEF Numbered, Connected
      <4>2. g.data = g.seq
        BY ONLY <2>2, <4>1 DEF Place
      <4>3. QED
        BY ONLY <2>1, <2>2, <2>4, <4>2
    <3>3. QED
      BY <3>1, <3>2 DEF StreamPosition
  <2>10. QED
    BY <1>2, <2>11, <2>7, <2>8, <2>9
<1>5. CASE ForwardsPart
  <2>1. t'.remote_seq = t.remote_seq
    BY <1>5 DEF ForwardsPart
  <2>2. PICK g \in t.forward :
          /\ HeadReady(t, g)
          /\ \E n \in 1..(g.len - g.sent - 1) :
               /\ t'.stream = t.stream \o Bytes(g, n)
               /\ t'.forward = (t.forward \ {g}) \cup {[g EXCEPT !.sent = @ + n]}
    BY <1>5 DEF ForwardsPart
  <2>3. PICK n \in 1..(g.len - g.sent - 1) :
          /\ t'.stream = t.stream \o Bytes(g, n)
          /\ t'.forward = (t.forward \ {g}) \cup {[g EXCEPT !.sent = @ + n]}
    BY <2>2
  <2>4. /\ g \in Segment /\ g.seq = t.remote_seq
        /\ g.data = Place(g.seq) /\ Len(t.stream) + 1 = g.data + g.sent
    BY <1>0, <2>2 DEF HeadReady, QueueSound, StreamPosition
  <2>5. /\ g.seq \in Nat /\ g.len \in Nat /\ g.sent \in Nat /\ g.data \in Nat
        /\ n \in Nat /\ n > 0
    BY <2>4 DEF Segment
  <2> DEFINE h == [g EXCEPT !.sent = @ + n]
  <2>6. h.seq = g.seq /\ h.data = g.data /\ h.sent = g.sent + n
    BY <2>4 DEF Segment
  <2>7. t'.forward = (t.forward \ {g}) \cup {h}
    BY <2>3
  <2> HIDE DEF h
  <2>8. Len(t'.stream) = Len(t.stream) + n
    <3>1. Len(t.stream \o Bytes(g, n)) = Len(t.stream) + n
      BY <1>0, <2>5, AppendedLen
    <3>2. QED
      BY <2>3, <3>1
  <2>13. StreamInOrder'
    BY <1>0, <2>3, <2>4, <2>5, AppendedOrder DEF StreamInOrder, Ordered
  <2>9. Numbered'
    BY <1>1, <1>3, <2>1, <2>6, <2>7 DEF Numbered
  <2>10. QueueSound'
    <3>1. \A k \in t.forward \ {g} : k.seq # g.seq
      BY DEF QueueSound
    <3>2. QED
      BY <2>1, <2>4, <2>6, <2>7, <3>1 DEF QueueSound
  <2>11. StreamPosition'
    <3>1. Len(t'.stream) + 1 = h.data + h.sent
      <4> DEFINE m == Len(t.stream)
                 k == Len(t'.stream)
      <4>1. k = m + n /\ m \in Nat /\ m + 1 = g.data + g.sent
        BY <1>3, <2>4, <2>8
      <4> HIDE DEF m, k
      <4>2. k + 1 = h.data + h.sent
        BY <2>5, <2>6, <4>1
      <4>3. QED
        BY <4>2 DEF k
    <3>2. \A k \in t'.forward : k.seq = t'.remote_seq => k = h
      BY <2>1, <2>4, <2>7 DEF QueueSound
    <3>3. h \in t'.forward /\ h.seq = t'.remote_seq
      BY <2>1, <2>4, <2>6, <2>7
    <3>4. QED
      BY <3>1, <3>2, <3>3 DEF StreamPosition
  <2>12. QED
    BY <1>2, <2>9, <2>10, <2>11, <2>13
<1>6. QED
  BY <1>4, <1>5

\* A packet of the app.
LEMMA StreamTakes ==
  ASSUME StreamInv, Inv', NEW p \in AppPackets, NEW win \in Windows, Takes(p, win)
  PROVE  StreamFacts'
<1> USE DEF StreamInv, StreamFacts
<1>1. /\ t.state \notin {NONE, "CLOSING", "CLOSE"}
      /\ p.len > 0 => t.socket /\ t.state # "CLOSE_WAIT"
      /\ t'.stream = t.stream /\ t'.forward = QueueAfter(p)
      /\ t'.local_seq = t.local_seq /\ t'.socks5 = t.socks5
      /\ \/ t'.remote_seq = t.remote_seq
         \/ t'.remote_seq = t.remote_seq + 1 /\ FinTaken(p)
      /\ \/ t'.state = t.state
         \/ t'.state \in {"CLOSING", "CLOSE"}
         \/ t.state = "SYN_RECV" /\ t'.state = "ESTABLISHED"
         \/ t.state = "ESTABLISHED" /\ t'.state = "CLOSE_WAIT"
  BY DEF Takes
<1>2. t'.state = "LISTEN" => t'.local_seq = 0 /\ t'.socks5 # "CONNECTED"
  BY <1>1 DEF Handshake
<1>3. TypeOK /\ p \in PacketType /\ p.seq \in Nat /\ p.len \in Nat
  BY PacketFacts DEF Inv, PacketType
<1>4. CASE t'.remote_seq = t.remote_seq /\ p.len > 0 /\ p.seq >= t.remote_seq
  <2>1. t'.forward = Queued(t, p.seq, p.len)
    BY <1>1, <1>4 DEF QueueAfter
  <2>2. t.state \in {"LISTEN", "SYN_RECV", "ESTABLISHED"}
    BY <1>1, <1>4 DEF Inv, TypeOK, Session, States, SocketReleased, Released
  <2>3. t.state = "LISTEN" => p.seq = 0
    BY <1>3, <1>4, PacketFacts DEF Handshake
  <2>4. QED
    BY <1>1, <1>2, <1>3, <1>4, <2>1, <2>2, <2>3, StreamQueued
<1>5. CASE t'.remote_seq = t.remote_seq /\ ~(p.len > 0 /\ p.seq >= t.remote_seq)
  <2>1. SameStream(t, t')
    BY <1>1, <1>5 DEF QueueAfter, SameStream
  <2>2. QED
    BY <1>1, <1>2, <1>5, <2>1, StreamKept
<1>6. CASE t'.remote_seq = t.remote_seq + 1 /\ FinTaken(p)
  BY <1>1, <1>6, StreamCounted DEF FinTaken, Connected
<1>7. QED
  BY <1>1, <1>4, <1>5, <1>6

\* The first queue of a session, and the end of one.
LEMMA StreamFresh ==
  ASSUME Inv', Registers \/ Removes
  PROVE  StreamFacts'
<1> USE DEF StreamFacts
<1>1. CASE Removes
  <2>1. /\ t'.state = NONE /\ t'.stream = <<>> /\ t'.forward = {}
    BY <1>1 DEF Removes, Blank
  <2>2. QED
    BY <2>1 DEF Handshake, Numbered, Connected, QueueSound, StreamPosition,
                StreamInOrder, NothingStranded, NONE
<1>2. CASE Registers
  <2>1. PICK p \in SynPackets :
          t'.forward \in {{}, {[seq |-> 0, len |-> p.len, sent |-> 0, data |-> 1]}}
    BY <1>2 DEF Registers
  <2>2. /\ t'.stream = <<>> /\ t'.local_seq = 0 /\ t'.socks5 = "NONE"
        /\ \/ t'.state = "LISTEN" /\ t'.remote_seq = 0
           \/ t'.state = "CLOSING" /\ t'.remote_seq = 1
    BY <1>2 DEF Registers
  <2> DEFINE g == [seq |-> 0, len |-> p.len, sent |-> 0, data |-> 1]
  <2>3. g.seq = 0 /\ g.sent = 0 /\ g.data = 1
    OBVIOUS
  <2>4. \A h \in t'.forward : h = g
    BY <2>1
  <2> HIDE DEF g
  <2>5. Handshake' /\ Numbered' /\ StreamInOrder' /\ NothingStranded'
    BY <2>2, <2>3, <2>4
       DEF Handshake, Numbered, Connected, StreamInOrder, NothingStranded
  <2>6. QueueSound'
    BY <2>3, <2>4 DEF QueueSound, Place
  <2>7. StreamPosition'
    BY <2>2, <2>3, <2>4 DEF StreamPosition
  <2>8. QED
    BY <2>5, <2>6, <2>7
<1>3. QED
  BY <1>1, <1>2

\* While an event of the socket is handled the session is past the handshake.
Serving == pc \in InSocketEvent => t.state # "LISTEN"

\* No step of check_tcp_socket returns to the handshake.
LEMMA ServingNext ==
  ASSUME StreamInv, Serving, [Next]_vars
  PROVE  Serving'
<1> USE InvTypes DEF StreamInv, StreamFacts
<1>1. CASE pc' \notin InSocketEvent
  BY <1>1 DEF Serving
<1>2. CASE UNCHANGED vars
  BY <1>2 DEF Serving, vars
<1>3. CASE SocketEvent
  BY <1>3 DEF Serving, SocketEvent
<1>4. CASE ForwardSegment \/ ForwardPart \/ ForwardError \/ ForwardEnd \/ Acknowledge
  <2>1. t.state # "LISTEN"
    BY <1>4 DEF Serving, InSocketEvent, ForwardSegment, ForwardPart, ForwardError,
                ForwardEnd, Acknowledge
  <2>2. Forwards \/ ForwardsPart \/ GivesUp \/ Rests \/ CountsFin
    BY <1>4, ForwardKind, AcknowledgeKind
  <2>3. t'.state # "LISTEN"
    BY <2>1, <2>2 DEF Forwards, ForwardsPart, OnlyForwards, GivesUp, Rests, CountsFin
  <2>4. QED
    BY <2>3 DEF Serving
<1>5. CASE /\ pc' \in InSocketEvent /\ ~UNCHANGED vars
           /\ ~(ForwardSegment \/ ForwardPart \/ ForwardError \/ ForwardEnd
                \/ Acknowledge \/ SocketEvent)
  <2>1. pc' \in {"monitor", "check", "batch"}
    <3>1. ASSUME HandleTcp PROVE pc = "batch" /\ pc' = pc
      BY <3>1 DEF HandleTcp, RegisterSession, RefusePacket, RefuseData, ReceiveRst,
           ReceiveSyn, ReceiveFin, ReceiveAck, ReceiveOldAck, ReceiveFutureAck,
           Accepts, Receives
    <3>2. QED
      BY <1>5, <3>1 DEF Next, CheckTcpSocket, MonitorSession, MonitorNothing,
         CheckSession, SkipCheck, SocketError, SocketConnect, Receive, EndBatch, Tick
  <2>2. QED
    BY <1>5, <2>1 DEF InSocketEvent
<1>6. QED
  BY <1>1, <1>2, <1>3, <1>4, <1>5

\* The stream's invariant holds at first and is kept by every step.
LEMMA StreamInductive ==
  /\ Init => StreamInv /\ Serving
  /\ StreamInv /\ Serving /\ [Next]_vars => StreamInv' /\ Serving'
<1>1. ASSUME Init PROVE StreamInv /\ Serving
  <2>1. t.state = NONE /\ t.stream = <<>> /\ t.forward = {} /\ pc = "monitor"
    BY <1>1 DEF Init, Blank
  <2>2. QED
    BY <1>1, <2>1, InitInv
       DEF StreamInv, StreamFacts, Handshake, Numbered, Connected, QueueSound,
           StreamPosition, StreamInOrder, NothingStranded, Serving, InSocketEvent, NONE
<1>2. ASSUME StreamInv, Serving, [Next]_vars PROVE StreamInv' /\ Serving'
  <2>1. Inv' /\ Serving'
    BY <1>2, NextInv, ServingNext DEF StreamInv
  <2>2. Kinds
    BY <1>2, StepKinds DEF StreamInv, StreamFacts
  <2> SUFFICES StreamFacts'
    BY <2>1 DEF StreamInv
  <2>3. CASE Rests
    BY <1>2, <2>1, <2>3, StreamKept
       DEF Rests, StreamInv, StreamFacts, Handshake
  <2>4. CASE GivesUp
    <3>1. CASE t'.remote_seq = t.remote_seq
      BY <1>2, <2>1, <2>4, <3>1, StreamKept DEF GivesUp
    <3>2. CASE t'.remote_seq = t.remote_seq + 1 /\ (t.state = "LISTEN" \/ FinDue)
      BY <1>2, <2>1, <2>4, <3>2, StreamCounted
         DEF GivesUp, FinDue, SameStream, Connected
    <3>3. QED
      BY <2>4, <3>1, <3>2 DEF GivesUp
  <2>5. CASE Registers \/ Removes
    BY <2>1, <2>5, StreamFresh
  <2>6. CASE \E p \in AppPackets, win \in Windows : Takes(p, win)
    BY <1>2, <2>1, <2>6, StreamTakes
  <2>7. CASE Connects
    BY <1>2, <2>1, <2>7, StreamCounted DEF Connects, SameStream
  <2>8. CASE Forwards \/ ForwardsPart
    <3>1. t.state # "LISTEN"
      BY <1>2, <2>8 DEF Serving, InSocketEvent, Forwards, ForwardsPart
    <3>2. QED
      BY <1>2, <2>1, <2>8, <3>1, StreamForwards
  <2>9. CASE CountsFin
    BY <1>2, <2>1, <2>9, StreamCounted DEF CountsFin, FinDue, SameStream, Connected
  <2>10. CASE ServerEnds
    BY <1>2, <2>1, <2>10, StreamKept DEF ServerEnds
  <2>11. CASE ServerSends
    BY <1>2, <2>1, <2>11, StreamKept DEF ServerSends
  <2>12. QED
    BY <2>2, <2>3, <2>4, <2>5, <2>6, <2>7, <2>8, <2>9, <2>10, <2>11 DEF Kinds
<1>3. QED
  BY <1>1, <1>2

\* The bytes handed to send() are the app's stream from its first byte, each
\* once: for every cut of the segments, every repetition and every partial send.
THEOREM StreamOrder == Spec => []StreamInOrder
<1>1. StreamInv => StreamInOrder
  BY DEF StreamInv, StreamFacts
<1>2. QED
  BY <1>1, StreamInductive, PTL DEF Spec

\* The server's end is passed on to the app only when all the app's data that
\* was queued is forwarded.
THEOREM QueueEmptyAtEnd == Spec => []NothingStranded
<1>1. StreamInv => NothingStranded
  BY DEF StreamInv, StreamFacts
<1>2. QED
  BY <1>1, StreamInductive, PTL DEF Spec

\* The handshake with the app starts once, with or without a proxy.
THEOREM OneSynAck == Spec => []SynAckOnce
<1>1. StreamInv => SynAckOnce
  BY DEF StreamInv, StreamFacts, Handshake, SynAckOnce
<1>2. QED
  BY <1>1, StreamInductive, PTL DEF Spec

(***************************************************************************)
(* The app's window.                                                       *)
(***************************************************************************)
Open == {"LISTEN", "SYN_RECV", "ESTABLISHED", "CLOSE_WAIT"}

\* What the session knows of the app's window is no more than was advertised.
WindowKnown ==
  /\ t.acked <= app.acked
  /\ t.state \in Open => /\ t.acked + t.send_window <= app.edge
                         /\ t.local_seq <= app.edge
                         /\ 1 <= app.edge

WindowInv == WindowKnown /\ WindowRespected

\* The send window leaves no more than the app's window behind local_seq.
LEMMA SendWindow ==
  ASSUME NEW s \in Session, NEW n \in 1..get_send_window(s)
  PROVE  s.local_seq + n <= s.acked + s.send_window
<1> DEFINE h == (s.unconfirmed + 1) * Header
<1>1. /\ s.local_seq \in Nat /\ s.acked \in Nat /\ s.send_window \in Nat
      /\ s.unconfirmed + 1 \in Nat /\ Header \in Nat
  BY ConstantsAssumption DEF Session
<1>2. h \in Nat
  <2> DEFINE u == s.unconfirmed + 1
  <2>1. u \in Nat
    BY <1>1
  <2> HIDE DEF u
  <2>2. u * Header \in Nat
    BY <1>1, <2>1
  <2>3. QED
    BY <2>2 DEF u
<1>3. get_send_window(s) = IF (s.local_seq - s.acked) + h < s.send_window
                           THEN s.send_window - ((s.local_seq - s.acked) + h)
                           ELSE 0
  BY DEF get_send_window
<1> HIDE DEF h
<1>4. QED
  BY <1>1, <1>2, <1>3

\* A packet that the session takes advertises the window it sets.
LEMMA WindowTakes ==
  ASSUME StreamInv, WindowInv, Inv', NEW p \in AppPackets, NEW win \in Windows,
         Takes(p, win)
  PROVE  WindowInv'
<1>1. /\ t \in Session /\ app \in Connection /\ TypeOK /\ app' \in Connection
  BY DEF StreamInv, Inv, TypeOK
<1>2. /\ t.acked \in Nat /\ t.local_seq \in Nat /\ app.acked \in Nat
      /\ app.edge \in Nat /\ win \in Nat /\ p.ack \in Nat
  BY <1>1, ConstantsAssumption, PacketFacts DEF Session, Connection, PacketType
<1>3. /\ t'.local_seq = t.local_seq /\ t'.send_window = win
      /\ t'.acked = t.acked \/ (p \notin StrayPackets /\ t'.acked = p.ack)
      /\ t'.state \in Open => /\ t.state \in Open /\ p \notin StrayPackets
                              /\ "RST" \notin p.flags
  BY DEF Takes, Open
<1>4. CASE p \in StrayPackets
  <2>1. app' = [app EXCEPT !.edge = Larger(@, Larger(1, app.acked) + win)]
    BY <1>4 DEF Takes, AppSends
  <2>2. app'.acked = app.acked /\ app'.edge >= app.edge /\ app'.edge \in Nat
    BY <1>1, <1>2, <2>1 DEF Connection, Larger
  <2>3. t'.acked = t.acked /\ t'.state \notin Open
    BY <1>3, <1>4
  <2>4. t'.acked <= app'.acked /\ t'.local_seq <= app'.edge + 1
    BY <1>2, <1>3, <2>2, <2>3 DEF WindowInv, WindowKnown, WindowRespected
  <2>5. QED
    BY <2>3, <2>4 DEF WindowInv, WindowKnown, WindowRespected
<1>5. CASE p \notin StrayPackets
  <2>1. /\ app'.acked = Larger(app.acked, p.ack)
        /\ app'.edge = Larger(app.edge, Larger(1, p.ack) + win)
    BY <1>5 DEF Takes, AppSends
  <2>2. /\ app'.acked >= app.acked /\ app'.acked >= p.ack
        /\ app'.edge >= app.edge /\ app'.edge >= p.ack + win
        /\ app'.edge >= 1 + win /\ app'.acked \in Nat /\ app'.edge \in Nat
    BY <1>2, <2>1 DEF Larger
  <2>3. t.acked <= app.acked
    BY DEF WindowInv, WindowKnown
  <2>4. t'.acked <= app'.acked
    BY <1>2, <1>3, <2>2, <2>3
  <2>5. t'.local_seq <= app'.edge + 1
    BY <1>2, <1>3, <2>2 DEF WindowInv, WindowRespected
  <2>6. ASSUME t'.state \in Open
        PROVE  /\ t'.acked + t'.send_window <= app'.edge
               /\ t'.local_seq <= app'.edge /\ 1 <= app'.edge
    <3>1. t.local_seq <= app.edge /\ t.state \in Open /\ "RST" \notin p.flags
      BY <1>3, <2>6 DEF WindowInv, WindowKnown
    <3>2. app.acked <= p.ack \/ app.acked = 0
      BY <1>1, <1>2, <1>5, <3>1, PacketFacts DEF Larger
    <3>3. t'.acked <= p.ack \/ t'.acked = 0
      BY <1>2, <1>3, <2>3, <3>2
    <3>4. t'.acked + win <= app'.edge
      BY <1>2, <1>3, <2>2, <3>3
    <3>5. QED
      BY <1>2, <1>3, <2>2, <3>1, <3>4
  <2>7. QED
    BY <2>4, <2>5, <2>6 DEF WindowInv, WindowKnown, WindowRespected
<1>6. QED
  BY <1>4, <1>5

\* The window's invariant holds at first and is kept by every step.
LEMMA WindowInductive ==
  /\ Init => WindowInv
  /\ StreamInv /\ WindowInv /\ StreamInv' /\ [Next]_vars => WindowInv'
<1>1. ASSUME Init PROVE WindowInv
  BY <1>1 DEF Init, Blank, NewConnection, WindowInv, WindowKnown, WindowRespected,
              Open, NONE
<1>2. ASSUME StreamInv, WindowInv, StreamInv', [Next]_vars PROVE WindowInv'
  <2>1. /\ t \in Session /\ app \in Connection /\ t' \in Session /\ app' \in Connection
        /\ Inv'
    BY <1>2 DEF StreamInv, Inv, TypeOK
  <2>2. /\ t.acked \in Nat /\ t.local_seq \in Nat /\ t.send_window \in Nat
        /\ app.acked \in Nat /\ app.edge \in Nat
    BY <2>1 DEF Session, Connection
  <2>3. Kinds
    BY <1>2, StepKinds DEF StreamInv, StreamFacts
  <2>4. /\ t.acked <= app.acked /\ t.local_seq <= app.edge + 1
        /\ t.state \in Open => /\ t.acked + t.send_window <= app.edge
                               /\ t.local_seq <= app.edge /\ 1 <= app.edge
    BY <1>2 DEF WindowInv, WindowKnown, WindowRespected
  <2> SUFFICES /\ t'.acked <= app'.acked /\ t'.local_seq <= app'.edge + 1
               /\ t'.state \in Open => /\ t'.acked + t'.send_window <= app'.edge
                                       /\ t'.local_seq <= app'.edge /\ 1 <= app'.edge
    BY DEF WindowInv, WindowKnown, WindowRespected
  <2>5. CASE Rests
    BY <2>2, <2>4, <2>5 DEF Rests, SameWindow
  <2>6. CASE GivesUp
    BY <2>2, <2>4, <2>6 DEF GivesUp, Open
  <2>7. CASE Registers
    <3>1. PICK win \in Windows : t'.send_window = win
                                 /\ app' = [NewConnection EXCEPT !.edge = 1 + win]
      BY <2>7 DEF Registers
    <3>2. win \in Nat /\ app'.acked = 0 /\ app'.edge = 1 + win
      BY <3>1, ConstantsAssumption DEF NewConnection
    <3>3. t'.acked = 0 /\ t'.local_seq = 0
      BY <2>7 DEF Registers
    <3>4. QED
      BY <3>1, <3>2, <3>3
  <2>8. CASE Removes
    BY <2>2, <2>8 DEF Removes, Blank, Open, NONE
  <2>9. CASE \E p \in AppPackets, win \in Windows : Takes(p, win)
    BY <1>2, <2>1, <2>9, WindowTakes DEF WindowInv, WindowKnown, WindowRespected
  <2>10. CASE Connects
    <3>1. t.state = "LISTEN" /\ t.local_seq = 0
      BY <1>2, <2>10 DEF Connects, StreamInv, StreamFacts, Handshake
    <3>2. QED
      BY <2>2, <2>4, <2>10, <3>1 DEF Connects, SameWindow, Open
  <2>11. CASE Forwards \/ ForwardsPart \/ CountsFin
    BY <2>2, <2>4, <2>11 DEF Forwards, ForwardsPart, OnlyForwards, CountsFin, SameNumbers
  <2>12. CASE ServerEnds
    BY <2>2, <2>4, <2>12 DEF ServerEnds, SameWindow, Open
  <2>13. CASE ServerSends
    <3>1. PICK n \in 1..get_send_window(t) : t'.local_seq = t.local_seq + n
      BY <2>13 DEF ServerSends
    <3>2. t.local_seq + n <= t.acked + t.send_window
      BY <2>1, SendWindow
    <3>3. /\ t.state \in Open /\ t'.acked = t.acked /\ t'.send_window = t.send_window
          /\ UNCHANGED app
      BY <2>13 DEF ServerSends, SameWindow, Open
    <3>4. t'.local_seq \in Nat
      BY <2>1 DEF Session
    <3>5. QED
      BY <2>2, <2>4, <3>1, <3>2, <3>3, <3>4
  <2>14. QED
    BY <2>3, <2>5, <2>6, <2>7, <2>8, <2>9, <2>10, <2>11, <2>12, <2>13 DEF Kinds
<1>3. QED
  BY <1>1, <1>2

\* Data for the app never runs past the edge of a window the app advertised,
\* whatever window it advertises, however it shrinks, and however old the
\* acknowledgements are that arrive (get_send_window).
THEOREM WindowSafety == Spec => []WindowRespected
<1>1. WindowInv => WindowRespected
  BY DEF WindowInv
<1>2. QED
  BY <1>1, StreamInductive, WindowInductive, PTL DEF Spec

(***************************************************************************)
(* The life of a connection: TcpSession implements TcpLifecycle.           *)
(***************************************************************************)

\* A session that still serves the app has its socket, and between the SYN+ACK
\* and the app's acknowledgement nothing is forwarded.
Served ==
  /\ t.state \in Open => t.socket
  /\ t.state = "SYN_RECV" => /\ "OUT" \notin pending
                             /\ pc = "check" => "OUT" \notin t.ev

\* Every step keeps the socket of a session that serves, and waits in SYN_RECV.
LEMMA ServedNext ==
  ASSUME StreamInv, Serving, Served, StreamInv', [Next]_vars
  PROVE  Served'
<1> USE InvTypes DEF StreamInv, StreamFacts
<1>1. Kinds
  BY StepKinds
<1>2. t'.state \in Open => t'.socket
  <2>1. t.state \in Open => t.socket
    BY DEF Served
  <2>2. CASE Rests \/ CountsFin \/ Forwards \/ ForwardsPart \/ ServerSends \/ Connects
    BY <2>1, <2>2 DEF Rests, CountsFin, Forwards, ForwardsPart, OnlyForwards,
                      ServerSends, Connects, Open
  <2>3. CASE GivesUp \/ Removes \/ Registers \/ ServerEnds
    <3>1. Blank(FALSE).state = NONE
      BY BlankType
    <3>2. QED
      BY <2>3, <3>1 DEF GivesUp, Removes, Registers, ServerEnds, Open, NONE
  <2>4. CASE \E p \in AppPackets, win \in Windows : Takes(p, win)
    BY <2>1, <2>4 DEF Takes, Open
  <2>5. QED
    BY <1>1, <2>2, <2>3, <2>4 DEF Kinds
<1>3. t'.state = "SYN_RECV" => t.state = "SYN_RECV" \/ Connects
  <2>1. Blank(FALSE).state = NONE
    BY BlankType
  <2>2. QED
    BY <1>1, <2>1 DEF Kinds, Rests, GivesUp, Registers, Removes, Takes, Forwards,
       ForwardsPart, OnlyForwards, CountsFin, ServerEnds, ServerSends, NONE
<1>4. ASSUME t'.state = "SYN_RECV"
      PROVE  "OUT" \notin pending' /\ (pc' = "check" => "OUT" \notin t'.ev)
  <2>1. CASE UNCHANGED vars
    BY <1>4, <2>1 DEF vars, Served
  <2>2. CASE MonitorSession
    <3>1. pending' = pending
      BY <2>2 DEF MonitorSession
    <3>2. t.state = "SYN_RECV"
      BY <1>4, <2>2, MonitorKind DEF Rests, GivesUp
    <3>3. PICK fits \in BOOLEAN :
            \/ t' = [t EXCEPT !.ev = Interest(t, fits)]
            \/ t' = [t EXCEPT !.ev = Interest(t, fits), !.state = "CLOSING"]
            \/ t' = [t EXCEPT !.state = "CLOSING"]
      BY <2>2 DEF MonitorSession
    <3>4. Interest(t, fits) = {"ERR"}
      BY <3>2 DEF Interest
    <3>5. t'.ev = {"ERR"}
      BY <1>4, <3>3, <3>4 DEF Session
    <3>6. QED
      BY <3>1, <3>2, <3>5 DEF Served
  <2>3. CASE MonitorNothing
    <3>1. t' = t /\ ~(t.state # NONE /\ t.socket)
      BY <2>3 DEF MonitorNothing
    <3>2. QED
      BY <1>4, <3>1 DEF Served, Open, NONE
  <2>4. CASE CheckSession \/ SkipCheck
    <3>1. pc = "check" /\ pc' = "batch" /\ pending' \in Polled(t')
      BY <2>4 DEF CheckSession, SkipCheck
    <3>2. t' = t
      <4>1. Blank(FALSE).state = NONE
        BY BlankType
      <4>2. QED
        BY <1>4, <2>4, <4>1, CheckKind DEF GivesUp, Removes, NONE
    <3>3. "OUT" \notin t.ev
      BY <1>4, <3>1, <3>2 DEF Served
    <3>4. QED
      BY <3>1, <3>2, <3>3 DEF Polled
  <2>5. CASE SocketConnect \/ SocketError
    BY <2>5 DEF SocketConnect, SocketError
  <2>6. CASE Receive
    BY <2>6 DEF Receive
  <2>7. CASE HandleTcp \/ EndBatch \/ Tick \/ SocketEvent
    <3>1. pc = "batch" /\ pc' # "check" /\ pending' = pending
      BY <2>7 DEF HandleTcp, RegisterSession, RefusePacket, RefuseData, ReceiveRst,
           ReceiveSyn, ReceiveFin, ReceiveAck, ReceiveOldAck, ReceiveFutureAck,
           Accepts, Receives, EndBatch, Tick, SocketEvent
    <3>2. t.state = "SYN_RECV"
      <4>1. CASE HandleTcp
        <5>1. Registers \/ GivesUp \/ \E p \in AppPackets, win \in Windows : Takes(p, win)
          BY <4>1, RegisterKind, RefuseKind, TakesKind DEF HandleTcp
        <5>2. QED
          BY <1>4, <5>1 DEF Registers, GivesUp, Takes
      <4>2. CASE EndBatch \/ SocketEvent
        BY <1>4, <4>2 DEF EndBatch, SocketEvent
      <4>3. CASE Tick
        <5>1. t'.state = t.state
          BY <4>3 DEF Tick, Session
        <5>2. QED
          BY <1>4, <5>1
      <4>4. QED
        BY <2>7, <4>1, <4>2, <4>3
    <3>3. QED
      BY <3>1, <3>2 DEF Served
  <2>8. CASE ForwardSegment \/ ForwardPart \/ ForwardError \/ ForwardEnd \/ Acknowledge
    <3>1. t.state # "LISTEN" /\ pc' # "check" /\ pending' = pending
      BY <2>8 DEF Serving, InSocketEvent, ForwardSegment, ForwardPart, ForwardError,
                  ForwardEnd, Acknowledge
    <3>2. QED
      BY <1>3, <1>4, <3>1 DEF Served, Connects
  <2>9. QED
    BY <2>1, <2>2, <2>3, <2>4, <2>5, <2>6, <2>7, <2>8 DEF Next, CheckTcpSocket
<1>5. QED
  BY <1>2, <1>4 DEF Served

\* The phases, before and after a step.
LEMMA Phases ==
  ASSUME TypeOK, TypeOK'
  PROVE  /\ t.state = NONE          <=> Phase = "none"
         /\ t.state = "LISTEN"      <=> Phase = "connecting"
         /\ t.state = "SYN_RECV"    <=> Phase = "answered"
         /\ t.state = "ESTABLISHED" <=> Phase = "open"
         /\ t.state = "CLOSE_WAIT"  <=> Phase = "appClosed"
         /\ t.state = "FIN_WAIT1"   <=> Phase = "serverClosed"
         /\ t.state = "LAST_ACK"    <=> Phase = "bothClosed"
         /\ t.state = "CLOSING"     <=> Phase = "closing"
         /\ t.state = "CLOSE"       <=> Phase = "closed"
         /\ t'.state = NONE          <=> Phase' = "none"
         /\ t'.state = "LISTEN"      <=> Phase' = "connecting"
         /\ t'.state = "SYN_RECV"    <=> Phase' = "answered"
         /\ t'.state = "ESTABLISHED" <=> Phase' = "open"
         /\ t'.state = "CLOSE_WAIT"  <=> Phase' = "appClosed"
         /\ t'.state = "FIN_WAIT1"   <=> Phase' = "serverClosed"
         /\ t'.state = "LAST_ACK"    <=> Phase' = "bothClosed"
         /\ t'.state = "CLOSING"     <=> Phase' = "closing"
         /\ t'.state = "CLOSE"       <=> Phase' = "closed"
         /\ t'.state = t.state => Phase' = Phase
<1>1. t.state \in States /\ t'.state \in States
  BY DEF TypeOK, Session
<1>2. QED
  BY <1>1 DEF States, Phase, NONE

\* Every step of the handlers is a step of the abstract connection, or none.
LEMMA LifeStep ==
  ASSUME StreamInv, Serving, Served, StreamInv', [Next]_vars
  PROVE  [Life!Next]_(Life!vars)
<1> USE DEF StreamInv, StreamFacts
<1>1. /\ TypeOK /\ TypeOK' /\ t \in Session /\ t' \in Session
      /\ t.state \in Released => ~t.socket
      /\ t'.state \in Released => ~t'.socket
  BY DEF Inv, TypeOK, SocketReleased
<1>2. t.socket \in BOOLEAN /\ t'.socket \in BOOLEAN /\ t.stream \in Seq(Nat)
  BY <1>1 DEF Session
<1>3. Kinds
  BY StepKinds
<1>4. ASSUME t'.state = t.state, t'.socket = t.socket, t'.stream = t.stream
      PROVE  [Life!Next]_(Life!vars)
  BY <1>1, <1>4, Phases DEF Life!vars
<1>5. CASE Rests
  BY <1>4, <1>5 DEF Rests, SameStream
<1>6. CASE GivesUp
  <2>1. CASE t'.state = "CLOSING"
    <3>1. Life!GiveUp
      BY <1>1, <1>6, <2>1, Phases DEF GivesUp, SameStream, Life!GiveUp
    <3>2. QED
      BY <3>1 DEF Life!Next
  <2>2. CASE t'.state = "CLOSE" /\ t.state # "CLOSE"
    <3>1. Life!Close
      BY <1>1, <1>2, <1>6, <2>2, Phases DEF GivesUp, SameStream, Life!Close, Released
    <3>2. QED
      BY <3>1 DEF Life!Next
  <2>3. CASE t'.state = "CLOSE" /\ t.state = "CLOSE"
    <3>1. t'.socket = t.socket
      BY <1>1, <1>2, <2>3 DEF Released
    <3>2. QED
      BY <1>4, <1>6, <2>3, <3>1 DEF GivesUp, SameStream
  <2>4. QED
    BY <1>6, <2>1, <2>2, <2>3 DEF GivesUp
<1>7. CASE Registers
  <2>1. /\ t.state = NONE /\ t'.state \in {"LISTEN", "CLOSING"} /\ t'.socket
        /\ t'.stream = <<>>
    BY <1>7 DEF Registers
  <2>2. Life!Connect
    BY <1>1, <1>2, <2>1, Phases DEF Life!Connect
  <2>3. QED
    BY <2>2 DEF Life!Next
<1>8. CASE Removes
  <2>1. t.state = "CLOSE" /\ t'.state = NONE /\ ~t'.socket /\ t'.stream = <<>>
    BY <1>8 DEF Removes, Blank
  <2>2. ~t.socket
    BY <1>1, <2>1 DEF Released
  <2>3. Life!Remove
    BY <1>1, <1>2, <2>1, <2>2, Phases DEF Life!Remove
  <2>4. QED
    BY <2>3 DEF Life!Next
<1>9. CASE \E p \in AppPackets, win \in Windows : Takes(p, win)
  <2>1. /\ t.state \notin {NONE, "CLOSING", "CLOSE"}
        /\ t'.stream = t.stream /\ t'.socket = t.socket
        /\ \/ t'.state = t.state
           \/ t'.state = "CLOSING"
           \/ t.state = "SYN_RECV" /\ t'.state = "ESTABLISHED"
           \/ t.state = "ESTABLISHED" /\ t'.state = "CLOSE_WAIT"
           \/ t.state = "FIN_WAIT1" /\ t'.state = "CLOSE"
    BY <1>9 DEF Takes
  <2>2. CASE t'.state = t.state
    BY <1>4, <2>1, <2>2
  <2>3. CASE t'.state = "CLOSING"
    <3>1. Life!GiveUp
      BY <1>1, <2>1, <2>3, Phases DEF Life!GiveUp
    <3>2. QED
      BY <3>1 DEF Life!Next
  <2>4. CASE t.state = "SYN_RECV" /\ t'.state = "ESTABLISHED"
    <3>1. Life!Establish
      BY <1>1, <2>1, <2>4, Phases DEF Life!Establish
    <3>2. QED
      BY <3>1 DEF Life!Next
  <2>5. CASE t.state = "ESTABLISHED" /\ t'.state = "CLOSE_WAIT"
    <3>1. Life!AppCloses
      BY <1>1, <2>1, <2>5, Phases DEF Life!AppCloses
    <3>2. QED
      BY <3>1 DEF Life!Next
  <2>6. CASE t.state = "FIN_WAIT1" /\ t'.state = "CLOSE"
    <3>1. Life!Close
      BY <1>1, <1>2, <2>1, <2>6, Phases DEF Life!Close, Released
    <3>2. QED
      BY <3>1 DEF Life!Next
  <2>7. QED
    BY <2>1, <2>2, <2>3, <2>4, <2>5, <2>6
<1>10. CASE Connects
  <2>1. Life!Answer
    BY <1>1, <1>10, Phases DEF Connects, SameStream, Life!Answer
  <2>2. QED
    BY <2>1 DEF Life!Next
<1>11. CASE Forwards \/ ForwardsPart
  <2>1. /\ t'.state = t.state /\ t'.socket = t.socket
        /\ pc = "forward" /\ "OUT" \in pending
    BY <1>11 DEF Forwards, ForwardsPart, OnlyForwards
  <2>2. t.socket /\ t.state \in {"ESTABLISHED", "CLOSE_WAIT", "CLOSING"}
    <3>1. t.socket /\ t.state # "LISTEN" /\ t.state # "SYN_RECV"
      BY <2>1 DEF Inv, SocketReleased, InSocketEvent, Serving, Served
    <3>2. QED
      BY <1>1, <3>1 DEF Session, States, Released
  <2>3. PICK g \in t.forward, n \in Nat : t'.stream = t.stream \o Bytes(g, n)
    <3>1. CASE Forwards
      <4>1. PICK g \in t.forward : /\ HeadReady(t, g)
                                   /\ t'.stream = t.stream \o Bytes(g, g.len - g.sent)
        BY <3>1 DEF Forwards
      <4>2. g.len - g.sent \in Nat
        <5>1. g.len \in Nat /\ g.sent \in Nat
          BY <1>1 DEF Session, Segment
        <5>2. g.sent <= g.len
          BY <4>1 DEF HeadReady
        <5>3. QED
          BY <5>1, <5>2
      <4>3. QED
        BY <4>1, <4>2
    <3>2. CASE ForwardsPart
      <4>1. PICK g \in t.forward : \E n \in 1..(g.len - g.sent - 1) :
              t'.stream = t.stream \o Bytes(g, n)
        BY <3>2 DEF ForwardsPart
      <4>2. PICK n \in 1..(g.len - g.sent - 1) : t'.stream = t.stream \o Bytes(g, n)
        BY <4>1
      <4>3. n \in Nat
        <5>1. g.len \in Nat /\ g.sent \in Nat
          BY <1>1 DEF Session, Segment
        <5>2. QED
          BY <5>1
      <4>4. QED
        BY <4>2, <4>3
    <3>3. QED
      BY <1>11, <3>1, <3>2
  <2> DEFINE m == Len(t.stream)
             k == Len(t'.stream)
  <2>4. m \in Nat /\ k = m + n
    <3>1. g.data \in Nat /\ g.sent \in Nat
      BY <1>1 DEF Session, Segment
    <3>2. Len(t.stream \o Bytes(g, n)) = Len(t.stream) + n
      BY <1>2, <3>1, AppendedLen
    <3>3. QED
      BY <1>2, <2>3, <3>2
  <2> HIDE DEF m, k
  <2>5. k \in Nat /\ (k > m \/ k = m)
    BY <2>4
  <2>6. CASE k > m
    <3>1. Life!Deliver
      BY <1>1, <2>1, <2>2, <2>5, <2>6, Phases DEF Life!Deliver, m, k
    <3>2. QED
      BY <3>1 DEF Life!Next
  <2>7. CASE k = m
    BY <1>1, <2>1, <2>7, Phases DEF Life!vars, m, k
  <2>8. QED
    BY <2>5, <2>6, <2>7
<1>12. CASE CountsFin \/ ServerSends
  BY <1>4, <1>12 DEF CountsFin, ServerSends, SameStream
<1>13. CASE ServerEnds
  <2>1. Life!ServerCloses
    BY <1>1, <1>2, <1>13, Phases DEF ServerEnds, SameStream, Life!ServerCloses
  <2>2. QED
    BY <2>1 DEF Life!Next
<1>14. QED
  BY <1>3, <1>5, <1>6, <1>7, <1>8, <1>9, <1>10, <1>11, <1>12, <1>13 DEF Kinds

\* The handlers of tcp.c, driven by packets, socket events and time in any
\* order, behave as the connection of TcpLifecycle: refinement for every value
\* of the constants.
THEOREM LifecycleRefined == Spec => ImplementsLifecycle
<1>1. Init => Life!Init
  BY DEF Init, Blank, Life!Init, Phase, NONE
<1>2. Init => Served
  BY DEF Init, Blank, Served, Open, NONE
<1>3. StreamInv /\ Serving /\ Served /\ StreamInv' /\ [Next]_vars
        => [Life!Next]_(Life!vars) /\ Served'
  BY LifeStep, ServedNext
<1>4. QED
  BY <1>1, <1>2, <1>3, StreamInductive, PTL
     DEF Spec, ImplementsLifecycle, Life!Spec

(***************************************************************************)
(* The app's acknowledgements, when the app repeats its segments as it cut *)
(* them first (with other cuts AckedWasForwarded fails, see the run        *)
(* tcp_resegmented_ack).                                                   *)
(***************************************************************************)

\* The segments the app sent lie within its stream, the last one at its end.
Within ==
  /\ \A g \in app.segs : g[1] >= 1 /\ g[1] + g[2] <= app.sent + 1
  /\ app.sent > 0 => \E g \in app.segs : g[2] > 0 /\ g[1] + g[2] = app.sent + 1
  /\ t.state = "LISTEN" => app.segs = {} /\ app.sent = 0

\* No two of them overlap.
Apart ==
  \A g, h \in app.segs :
    g[2] > 0 /\ h[2] > 0 =>
      /\ g[1] = h[1] => g[2] = h[2]
      /\ g[1] < h[1] => g[1] + g[2] <= h[1]

\* The FIN is counted, behind a stream that was all forwarded.
FinCounted ==
  app.fin /\ Len(t.stream) = app.sent /\ t.remote_seq = app.sent + 2

\* What was not forwarded of an open connection's data is queued, segment by
\* segment, and remote_seq lies between two of them.
Held ==
  \A g \in app.segs : g[2] > 0 =>
    \/ g[1] + g[2] <= t.remote_seq
    \/ g[1] >= t.remote_seq /\ \E h \in t.forward : h.seq = g[1]

OfTheApp ==
  \A h \in t.forward : h.seq >= 1 =>
    \E g \in app.segs : g[2] > 0 /\ g[1] = h.seq /\ g[2] = h.len

Outstanding ==
  t.state \in Connected =>
    /\ Held /\ OfTheApp
    /\ t.remote_seq <= app.sent + 1 \/ FinCounted
    /\ t.state \in {"CLOSE_WAIT", "LAST_ACK"} => app.fin

\* No number is counted that was not forwarded, and none confirmed that was
\* not counted.
Counted ==
  /\ t.remote_seq <= Len(t.stream) + 1 \/ FinCounted
  /\ t.confirmed <= t.remote_seq

\* When the last data was just forwarded the FIN is still to be counted.
FinAhead ==
  pc \in {"forward", "ack"} /\ fwd /\ t.state = "CLOSE_WAIT" /\ t.forward = {}
    => t.remote_seq = Len(t.stream) + 1

AckInv == Within /\ Apart /\ Outstanding /\ Counted /\ FinAhead

\* What a packet that is taken adds to the app's side: nothing, a segment behind
\* all it sent, or one that it sent before.
SendsNothing(p) ==
  /\ app'.sent = app.sent /\ app'.segs = app.segs /\ app'.fin = app.fin
  /\ "FIN" \notin p.flags /\ (p.len = 0 \/ p.seq = 0)

SendsNew(p) ==
  /\ ~app.fin /\ p.seq = app.sent + 1 /\ t.state # "LISTEN"
  /\ app'.sent = app.sent + p.len /\ app'.fin = ("FIN" \in p.flags)
  /\ p.len > 0 \/ "FIN" \in p.flags
  /\ app'.segs = app.segs \cup {SegmentOf(p)}

SendsAgain(p) ==
  /\ SegmentOf(p) \in app.segs
  /\ app'.sent = app.sent /\ app'.segs = app.segs
  /\ app'.fin = (app.fin \/ "FIN" \in p.flags)

\* The app sends in one of these ways.
LEMMA AppAfter ==
  ASSUME ~Resegment, TypeOK, Within, Handshake, NEW p \in AppPackets, NEW win \in Windows,
         AppSends(p, win)
  PROVE  SendsNothing(p) \/ SendsNew(p) \/ SendsAgain(p)
<1>1. /\ p \in PacketType /\ p.seq \in Nat /\ p.len \in Nat
      /\ app \in Connection /\ app.sent \in Nat /\ t.local_seq \in Nat
  BY PacketFacts DEF TypeOK, Connection, PacketType, Session
<1>2. CASE p \in StrayPackets
  <2>1. app' = [app EXCEPT !.edge = Larger(@, Larger(1, app.acked) + win)]
    BY <1>2 DEF AppSends
  <2>2. app'.sent = app.sent /\ app'.segs = app.segs /\ app'.fin = app.fin
    BY <1>1, <2>1 DEF Connection
  <2>3. p.len = 0 /\ "FIN" \notin p.flags
    BY <1>2 DEF StrayPackets, Packet
  <2>4. QED
    BY <2>2, <2>3 DEF SendsNothing
<1>3. CASE p \notin StrayPackets
  <2>1. /\ app'.sent = Larger(app.sent, p.seq + p.len - 1)
        /\ app'.fin = (app.fin \/ "FIN" \in p.flags)
        /\ app'.segs = app.segs \cup Repeatable(p)
    BY <1>3 DEF AppSends
  <2>2. CASE p \in SynPackets /\ p.flags = {"SYN"} /\ p.seq = 0
    <3>1. p.len \in 0..1
      BY <2>2 DEF SynPackets, Packet
    <3>2. app'.sent = app.sent
      BY <1>1, <2>1, <2>2, <3>1 DEF Larger
    <3>3. app'.segs = app.segs
      BY <2>1, <2>2 DEF Repeatable
    <3>4. app'.fin = app.fin /\ "FIN" \notin p.flags
      BY <1>1, <2>1, <2>2 DEF Connection
    <3>5. QED
      BY <2>2, <3>2, <3>3, <3>4 DEF SendsNothing
  <2>3. CASE p.flags = {"RST"} /\ p.len = 0 /\ p.seq = 1
    <3>1. app'.sent = app.sent
      BY <1>1, <2>1, <2>3 DEF Larger
    <3>2. app'.segs = app.segs
      BY <2>1, <2>3 DEF Repeatable
    <3>3. app'.fin = app.fin /\ "FIN" \notin p.flags
      BY <1>1, <2>1, <2>3 DEF Connection
    <3>4. QED
      BY <2>3, <3>1, <3>2, <3>3 DEF SendsNothing
  <2>4. CASE t.local_seq # 0 /\ SegmentOf(p) \in AppSegments
    <3>1. t.state # "LISTEN"
      BY <2>4 DEF Handshake
    <3>2. SegmentOf(p) = <<p.seq, p.len, IF "FIN" \in p.flags THEN 1 ELSE 0>>
      BY DEF SegmentOf
    <3>3. CASE SegmentOf(p) = <<app.sent + 1, 0, 0>>
      <4>1. p.seq = app.sent + 1 /\ p.len = 0 /\ "FIN" \notin p.flags
        BY <3>2, <3>3
      <4>2. app'.sent = app.sent
        BY <1>1, <2>1, <4>1 DEF Larger
      <4>3. app'.segs = app.segs /\ app'.fin = app.fin
        BY <1>1, <2>1, <4>1 DEF Repeatable, Connection
      <4>4. QED
        BY <4>1, <4>2, <4>3 DEF SendsNothing
    <3>4. CASE SegmentOf(p) \in NewSegments /\ SegmentOf(p) # <<app.sent + 1, 0, 0>>
      <4>1. ~app.fin /\ \E n \in 0..(MaxSend - app.sent), f \in {0, 1} :
                           SegmentOf(p) = <<app.sent + 1, n, f>>
        BY <3>4 DEF NewSegments
      <4>2. p.seq = app.sent + 1
        BY <3>2, <4>1
      <4>3. p.len > 0 \/ "FIN" \in p.flags
        BY <1>1, <3>2, <3>4, <4>2
      <4>4. app'.sent = app.sent + p.len
        BY <1>1, <2>1, <4>2 DEF Larger
      <4>5. p.seq # 0
        BY <1>1, <4>2
      <4>6. Repeatable(p) = {SegmentOf(p)}
        BY <1>1, <4>3, <4>5 DEF Repeatable
      <4>7. app'.fin = ("FIN" \in p.flags)
        BY <2>1, <4>1
      <4>8. QED
        BY <2>1, <3>1, <4>1, <4>2, <4>3, <4>4, <4>6, <4>7 DEF SendsNew
    <3>5. CASE SegmentOf(p) \in app.segs
      <4>1. p.seq + p.len <= app.sent + 1
        <5>1. SegmentOf(p)[1] + SegmentOf(p)[2] <= app.sent + 1
          BY <3>5 DEF Within
        <5>2. QED
          BY <3>2, <5>1
      <4>2. app'.sent = app.sent
        BY <1>1, <2>1, <4>1 DEF Larger
      <4>3. app'.segs = app.segs
        BY <2>1, <3>5 DEF Repeatable
      <4>4. QED
        BY <2>1, <3>5, <4>2, <4>3 DEF SendsAgain
    <3>6. QED
      BY <2>4, <3>3, <3>4, <3>5 DEF AppSegments, OldSegments
  <2>5. QED
    BY <1>3, <2>2, <2>3, <2>4, PacketFacts
<1>4. QED
  BY <1>2, <1>3

\* With the queue empty and remote_seq behind the last byte forwarded, all that
\* the app sent is forwarded.
LEMMA AllForwarded ==
  ASSUME StreamInv, AckInv, t.state \in Connected, t.forward = {},
         t.remote_seq = Len(t.stream) + 1
  PROVE  t.remote_seq = app.sent + 1 /\ Len(t.stream) = app.sent
<1> DEFINE m == Len(t.stream)
<1>1. m \in Nat /\ app.sent \in Nat /\ t.remote_seq \in Nat /\ t.remote_seq >= 1
  <2>1. t.stream \in Seq(Nat) /\ app.sent \in Nat /\ t.remote_seq \in Nat
    BY DEF StreamInv, Inv, TypeOK, Session, Connection
  <2>2. t.remote_seq >= 1
    BY DEF StreamInv, StreamFacts, Numbered
  <2>3. QED
    BY <2>1, <2>2
<1>2. app.segs \subseteq Nat \X Nat \X {0, 1}
  BY DEF StreamInv, Inv, TypeOK, Connection
<1>3. t.remote_seq <= app.sent + 1
  <2>1. t.remote_seq <= app.sent + 1 \/ (m = app.sent /\ t.remote_seq = app.sent + 2)
    BY DEF AckInv, Outstanding, FinCounted
  <2> HIDE DEF m
  <2>2. t.remote_seq = m + 1
    BY DEF m
  <2>3. QED
    BY <1>1, <2>1, <2>2
<1>4. app.sent + 1 <= t.remote_seq
  <2>1. CASE app.sent = 0
    BY <1>1, <2>1
  <2>2. CASE app.sent > 0
    <3>1. PICK g \in app.segs : g[2] > 0 /\ g[1] + g[2] = app.sent + 1
      BY <2>2 DEF AckInv, Within
    <3>2. g[1] + g[2] <= t.remote_seq
      BY <3>1 DEF AckInv, Outstanding, Held
    <3>3. QED
      BY <3>1, <3>2
  <2>3. QED
    BY <1>1, <2>1, <2>2
<1> HIDE DEF m
<1>5. t.remote_seq = m + 1
  BY DEF m
<1>6. t.remote_seq = app.sent + 1 /\ m = app.sent
  BY <1>1, <1>3, <1>4, <1>5
<1>7. QED
  BY <1>6 DEF m

\* Numbers confirmed after a step.
LEMMA ConfirmedNext ==
  ASSUME t \in Session, t' \in Session, t.confirmed <= t.remote_seq,
         t'.remote_seq >= t.remote_seq, Confirms
  PROVE  t'.confirmed <= t'.remote_seq
  BY DEF Session, Confirms, Larger

\* Steps that leave the app's side, the stream and the queue alone, and count
\* nothing.
LEMMA AckKept ==
  ASSUME StreamInv, StreamInv', AckInv, SameStream(t, t'), app' = app,
         t'.remote_seq = t.remote_seq, Confirms,
         \/ t'.state = t.state
         \/ t'.state \in {"CLOSING", "CLOSE"}
         \/ t.state = "ESTABLISHED" /\ t'.state = "FIN_WAIT1"
         \/ t.state = "CLOSE_WAIT" /\ t'.state = "LAST_ACK"
  PROVE  Within' /\ Apart' /\ Outstanding' /\ Counted'
<1>1. t \in Session /\ t' \in Session
  BY DEF StreamInv, Inv, TypeOK
<1>2. Within' /\ Apart'
  BY DEF AckInv, Within, Apart
<1>3. Held => Held'
  BY DEF Held, SameStream
<1>4. OfTheApp => OfTheApp'
  BY DEF OfTheApp, SameStream
<1>5. FinCounted => FinCounted'
  BY DEF FinCounted, SameStream
<1>6. Outstanding'
  BY <1>3, <1>4, <1>5 DEF AckInv, Outstanding, Connected
<1>7. Counted'
  <2>1. t'.confirmed <= t'.remote_seq
    BY <1>1, ConfirmedNext DEF AckInv, Counted, Session
  <2>2. t'.remote_seq <= Len(t'.stream) + 1 \/ FinCounted'
    BY <1>5 DEF AckInv, Counted, SameStream
  <2>3. QED
    BY <2>1, <2>2 DEF Counted
<1>8. QED
  BY <1>2, <1>6, <1>7

\* The FIN counted after the last data.
LEMMA AckFin ==
  ASSUME StreamInv, StreamInv', AckInv, FinDue, SameStream(t, t'), app' = app,
         t'.remote_seq = t.remote_seq + 1, Confirms,
         t'.state \in {"CLOSE_WAIT", "CLOSING", "CLOSE"}
  PROVE  Within' /\ Apart' /\ Outstanding' /\ Counted'
<1>1. /\ t \in Session /\ t' \in Session /\ t.remote_seq \in Nat
      /\ app.segs \subseteq Nat \X Nat \X {0, 1} /\ app.sent \in Nat
  BY DEF StreamInv, Inv, TypeOK, Session, Connection
<1>2. t.state = "CLOSE_WAIT" /\ t.forward = {} /\ t'.forward = {} /\ app.fin
  BY DEF FinDue, AckInv, Outstanding, Connected, SameStream
<1>3. t.remote_seq = app.sent + 1 /\ Len(t.stream) = app.sent
  BY <1>2, AllForwarded DEF FinDue, AckInv, FinAhead, Connected
<1>4. FinCounted'
  BY <1>1, <1>2, <1>3 DEF FinCounted, SameStream
<1>5. Within' /\ Apart'
  BY DEF AckInv, Within, Apart
<1>6. Held' /\ OfTheApp'
  <2>1. Held'
    <3> SUFFICES ASSUME NEW g \in app.segs, g[2] > 0
                 PROVE  g[1] + g[2] <= t'.remote_seq
      BY DEF Held
    <3>1. g[1] + g[2] <= t.remote_seq
      BY <1>2 DEF AckInv, Outstanding, Held, Connected
    <3>2. g[1] + g[2] \in Nat
      BY <1>1
    <3>3. QED
      BY <1>1, <3>1, <3>2
  <2>2. QED
    BY <1>2, <2>1 DEF OfTheApp
<1>7. Outstanding'
  BY <1>2, <1>4, <1>6 DEF Outstanding
<1>8. t'.confirmed <= t'.remote_seq
  BY <1>1, ConfirmedNext DEF AckInv, Counted
<1>9. QED
  BY <1>4, <1>5, <1>7, <1>8 DEF Counted

\* A segment of the app put into the queue of an open connection.
LEMMA AckQueued ==
  ASSUME StreamInv, AckInv, NEW p \in PacketType, SendsNew(p) \/ SendsAgain(p),
         t.state \in Connected, p.len > 0, p.seq >= t.remote_seq,
         t'.forward = Queued(t, p.seq, p.len), t'.remote_seq = t.remote_seq
  PROVE  Held' /\ OfTheApp'
<1>1. /\ p.seq \in Nat /\ p.len \in Nat /\ t.remote_seq \in Nat /\ app.sent \in Nat
      /\ app.segs \subseteq Nat \X Nat \X {0, 1}
  BY DEF StreamInv, Inv, TypeOK, Session, Connection, PacketType
<1> DEFINE n == [seq |-> p.seq, len |-> p.len, sent |-> SentOf(t, p.seq),
                 data |-> Place(p.seq)]
           k == SegmentOf(p)
<1>2. /\ n.seq = p.seq /\ n.len = p.len
      /\ t'.forward = {g \in t.forward : g.seq # p.seq} \cup {n}
  BY DEF Queued
<1>3. k[1] = p.seq /\ k[2] = p.len /\ app'.segs = app.segs \cup {k}
  BY DEF SegmentOf, SendsNew, SendsAgain
<1> HIDE DEF n, k
<1>4. Held'
  <2> SUFFICES ASSUME NEW g \in app'.segs, g[2] > 0
               PROVE  \/ g[1] + g[2] <= t'.remote_seq
                      \/ g[1] >= t'.remote_seq /\ \E h \in t'.forward : h.seq = g[1]
    BY DEF Held
  <2>1. CASE g = k
    BY <1>2, <1>3, <2>1
  <2>2. CASE g \in app.segs
    <3>1. \/ g[1] + g[2] <= t.remote_seq
          \/ g[1] >= t.remote_seq /\ \E h \in t.forward : h.seq = g[1]
      BY <2>2 DEF AckInv, Outstanding, Held
    <3>2. (\E h \in t.forward : h.seq = g[1]) => \E h \in t'.forward : h.seq = g[1]
      BY <1>2
    <3>3. QED
      BY <3>1, <3>2
  <2>3. QED
    BY <1>3, <2>1, <2>2
<1>5. OfTheApp'
  <2> SUFFICES ASSUME NEW h \in t'.forward, h.seq >= 1
               PROVE  \E g \in app'.segs : g[2] > 0 /\ g[1] = h.seq /\ g[2] = h.len
    BY DEF OfTheApp
  <2>1. CASE h = n
    BY <1>2, <1>3, <2>1
  <2>2. CASE h \in t.forward
    BY <1>3, <2>2 DEF AckInv, Outstanding, OfTheApp
  <2>3. QED
    BY <1>2, <2>1, <2>2
<1>6. QED
  BY <1>4, <1>5

\* What the app sent still lies one behind the other.
LEMMA AckSent ==
  ASSUME StreamInv, AckInv, NEW p \in PacketType,
         SendsNothing(p) \/ SendsNew(p) \/ SendsAgain(p),
         t'.state = "LISTEN" => t.state = "LISTEN"
  PROVE  Within' /\ Apart'
<1>1. /\ p.seq \in Nat /\ p.len \in Nat /\ app.sent \in Nat
      /\ app.segs \subseteq Nat \X Nat \X {0, 1}
  BY DEF StreamInv, Inv, TypeOK, Session, Connection, PacketType
<1>2. Within /\ Apart
  BY DEF AckInv
<1>3. CASE app'.sent = app.sent /\ app'.segs = app.segs
  BY <1>2, <1>3 DEF Within, Apart
<1>4. CASE SendsNew(p)
  <2> DEFINE k == SegmentOf(p)
  <2>1. /\ k[1] = p.seq /\ k[2] = p.len /\ p.seq = app.sent + 1
        /\ app'.segs = app.segs \cup {k} /\ app'.sent = app.sent + p.len
        /\ t.state # "LISTEN"
    BY <1>4 DEF SegmentOf, SendsNew
  <2> HIDE DEF k
  <2>2. \A g \in app.segs : g[1] \in Nat /\ g[2] \in Nat
    BY <1>1
  <2>3. \A g \in app.segs : g[1] >= 1 /\ g[1] + g[2] <= app.sent + 1
    BY <1>2 DEF Within
  <2>4. \A g \in app'.segs : g[1] >= 1 /\ g[1] + g[2] <= app'.sent + 1
    <3>1. k[1] >= 1 /\ k[1] + k[2] <= app'.sent + 1
      BY <1>1, <2>1
    <3>2. ASSUME NEW g \in app.segs PROVE g[1] >= 1 /\ g[1] + g[2] <= app'.sent + 1
      BY <1>1, <2>1, <2>2, <2>3
    <3>3. QED
      BY <2>1, <3>1, <3>2
  <2>5. app'.sent > 0 => \E g \in app'.segs : g[2] > 0 /\ g[1] + g[2] = app'.sent + 1
    <3>1. CASE p.len > 0
      <4>1. k[2] > 0 /\ k[1] + k[2] = app'.sent + 1 /\ k \in app'.segs
        BY <1>1, <2>1, <3>1
      <4>2. QED
        BY <4>1
    <3>2. CASE p.len = 0
      <4>1. app'.sent = app.sent
        BY <1>1, <2>1, <3>2
      <4>2. QED
        BY <1>2, <2>1, <4>1 DEF Within
    <3>3. QED
      BY <1>1, <3>1, <3>2
  <2>6. Within'
    BY <2>1, <2>4, <2>5 DEF Within
  <2>7. Apart'
    <3> SUFFICES ASSUME NEW g \in app'.segs, NEW h \in app'.segs, g[2] > 0, h[2] > 0
                 PROVE  /\ g[1] = h[1] => g[2] = h[2]
                        /\ g[1] < h[1] => g[1] + g[2] <= h[1]
      BY DEF Apart
    <3>1. CASE g \in app.segs /\ h \in app.segs
      BY <1>2, <3>1 DEF Apart
    <3>2. CASE g \in app.segs /\ h = k
      <4>1. g[1] \in Nat /\ g[2] \in Nat /\ g[1] + g[2] <= app.sent + 1
        BY <2>2, <2>3, <3>2
      <4>2. QED
        BY <1>1, <2>1, <3>2, <4>1
    <3>3. CASE g = k /\ h \in app.segs
      <4>1. h[1] \in Nat /\ h[2] \in Nat /\ h[1] + h[2] <= app.sent + 1
        BY <2>2, <2>3, <3>3
      <4>2. QED
        BY <1>1, <2>1, <3>3, <4>1
    <3>4. CASE g = k /\ h = k
      BY <1>1, <2>1, <3>4
    <3>5. QED
      BY <2>1, <3>1, <3>2, <3>3, <3>4
  <2>8. QED
    BY <2>6, <2>7
<1>5. QED
  BY <1>3, <1>4 DEF SendsNothing, SendsAgain

\* A packet of the app.
LEMMA AckTakes ==
  ASSUME ~Resegment, StreamInv, StreamInv', AckInv,
         NEW p \in AppPackets, NEW win \in Windows, Takes(p, win)
  PROVE  Within' /\ Apart' /\ Outstanding' /\ Counted'
<1>1. /\ t.state \notin {NONE, "CLOSING", "CLOSE"}
      /\ p.len > 0 => t.socket /\ t.state # "CLOSE_WAIT"
      /\ t'.stream = t.stream /\ t'.forward = QueueAfter(p)
      /\ \/ t'.remote_seq = t.remote_seq
         \/ t'.remote_seq = t.remote_seq + 1 /\ FinTaken(p)
      /\ \/ t'.state = t.state
         \/ t'.state = "CLOSING"
         \/ t.state = "SYN_RECV" /\ t'.state = "ESTABLISHED"
         \/ t.state = "ESTABLISHED" /\ t'.state = "CLOSE_WAIT" /\ "FIN" \in p.flags
         \/ t.state = "FIN_WAIT1" /\ t'.state = "CLOSE"
      /\ AppSends(p, win) /\ Confirms
  BY DEF Takes
<1>2. TypeOK /\ p \in PacketType /\ Handshake /\ Within
  BY PacketFacts DEF StreamInv, StreamFacts, Inv, AckInv
<1>3. /\ p.seq \in Nat /\ p.len \in Nat /\ t.remote_seq \in Nat /\ app.sent \in Nat
      /\ t \in Session /\ t' \in Session
  BY <1>2 DEF StreamInv, Inv, TypeOK, Session, Connection, PacketType
<1>4. SendsNothing(p) \/ SendsNew(p) \/ SendsAgain(p)
  BY <1>1, <1>2, AppAfter
<1>5. Within' /\ Apart'
  BY <1>1, <1>2, <1>4, AckSent
<1>6. t'.confirmed <= t'.remote_seq
  BY <1>1, <1>3, ConfirmedNext DEF AckInv, Counted
<1>7. t.state \in Connected \/ t.state = "LISTEN"
  BY <1>1, <1>3 DEF Session, States, Connected
<1>8. t'.state \in Connected => t.state \in Connected
  BY <1>1, <1>7 DEF Connected
<1>9. app'.fin = (app.fin \/ "FIN" \in p.flags)
  <2>1. app.fin \in BOOLEAN
    BY <1>2 DEF TypeOK, Connection
  <2>2. QED
    BY <1>4, <2>1 DEF SendsNothing, SendsNew, SendsAgain
<1>10. t'.state \in {"CLOSE_WAIT", "LAST_ACK"} => app'.fin
  BY <1>1, <1>8, <1>9 DEF AckInv, Outstanding, Connected
<1>11. CASE t'.remote_seq = t.remote_seq
  <2>1. ASSUME FinCounted PROVE FinCounted'
    <3>1. app.fin /\ ~SendsNew(p)
      BY <2>1 DEF FinCounted, SendsNew
    <3>2. app'.sent = app.sent
      BY <1>4, <3>1 DEF SendsNothing, SendsAgain
    <3>3. QED
      BY <1>1, <1>9, <1>11, <2>1, <3>1, <3>2 DEF FinCounted
  <2>2. Counted'
    BY <1>1, <1>6, <1>11, <2>1 DEF AckInv, Counted
  <2>3. ASSUME t.state \in Connected PROVE Held' /\ OfTheApp'
    <3>1. CASE p.len > 0 /\ p.seq >= t.remote_seq
      <4>1. t'.forward = Queued(t, p.seq, p.len)
        BY <1>1, <3>1 DEF QueueAfter
      <4>2. t.remote_seq >= 1
        BY <2>3 DEF StreamInv, StreamFacts, Numbered
      <4>3. ~SendsNothing(p)
        BY <1>3, <3>1, <4>2 DEF SendsNothing
      <4>4. QED
        BY <1>2, <1>4, <1>11, <2>3, <3>1, <4>1, <4>3, AckQueued
    <3>2. CASE ~(p.len > 0 /\ p.seq >= t.remote_seq)
      <4>1. t'.forward = t.forward
        BY <1>1, <3>2 DEF QueueAfter
      <4>2. Held /\ OfTheApp
        BY <2>3 DEF AckInv, Outstanding
      <4>3. app.segs \subseteq app'.segs
        BY <1>4 DEF SendsNothing, SendsNew, SendsAgain
      <4>4. OfTheApp'
        BY <4>1, <4>2, <4>3 DEF OfTheApp
      <4>5. ASSUME NEW g \in app'.segs, g[2] > 0 PROVE g \in app.segs
        <5>1. CASE SendsNew(p)
          <6>1. ~(p.seq >= t.remote_seq) \/ ~(p.len > 0)
            BY <3>2
          <6>2. p.seq = app.sent + 1 /\ ~app.fin /\ app'.segs = app.segs \cup {SegmentOf(p)}
            BY <5>1 DEF SendsNew
          <6>3. t.remote_seq <= app.sent + 1
            BY <2>3, <6>2 DEF AckInv, Outstanding, FinCounted
          <6>4. ~(p.len > 0)
            BY <1>3, <6>1, <6>2, <6>3
          <6>5. SegmentOf(p)[2] = p.len
            BY DEF SegmentOf
          <6>6. QED
            BY <4>5, <6>2, <6>4, <6>5
        <5>2. CASE ~SendsNew(p)
          BY <1>4, <5>2 DEF SendsNothing, SendsAgain
        <5>3. QED
          BY <5>1, <5>2
      <4>6. Held'
        BY <1>11, <4>1, <4>2, <4>5 DEF Held
      <4>7. QED
        BY <4>4, <4>6
    <3>3. QED
      BY <3>1, <3>2
  <2>4. ASSUME t.state \in Connected PROVE t'.remote_seq <= app'.sent + 1 \/ FinCounted'
    <3>1. t.remote_seq <= app.sent + 1 \/ FinCounted
      BY <2>4 DEF AckInv, Outstanding
    <3>2. app'.sent >= app.sent /\ app'.sent \in Nat
      BY <1>3, <1>4 DEF SendsNothing, SendsNew, SendsAgain
    <3>3. QED
      BY <1>3, <1>11, <2>1, <3>1, <3>2
  <2>5. Outstanding'
    BY <1>8, <1>10, <2>3, <2>4 DEF Outstanding
  <2>6. QED
    BY <1>5, <2>2, <2>5
<1>12. CASE t'.remote_seq = t.remote_seq + 1 /\ FinTaken(p)
  <2>1. /\ "FIN" \in p.flags /\ QueueAfter(p) = {} /\ t'.forward = {}
        /\ t.state \in {"ESTABLISHED", "FIN_WAIT1"}
        /\ t'.state \in {"CLOSE_WAIT", "CLOSING", "CLOSE"}
    BY <1>1, <1>12 DEF FinTaken
  <2>2. ~(p.len > 0 /\ p.seq >= t.remote_seq) /\ t.forward = {}
    BY <2>1 DEF QueueAfter, Queued
  <2>3. t.remote_seq = Len(t.stream) + 1
    BY <2>1, <2>2 DEF StreamInv, StreamFacts, StreamPosition
  <2>4. t.remote_seq = app.sent + 1 /\ Len(t.stream) = app.sent
    BY <2>1, <2>2, <2>3, AllForwarded DEF Connected
  <2>5. SendsNew(p) => p.len = 0
    BY <1>3, <2>2, <2>4 DEF SendsNew
  <2>6. app'.sent = app.sent
    BY <1>3, <1>4, <2>5 DEF SendsNothing, SendsNew, SendsAgain
  <2>12. t'.remote_seq = app'.sent + 2 /\ app'.sent \in Nat
    <3>1. t.remote_seq = app.sent + 1
      BY <2>4
    <3>2. t'.remote_seq = t.remote_seq + 1
      BY <1>12
    <3>3. app.sent \in Nat
      BY <1>3
    <3>4. QED
      BY <2>6, <3>1, <3>2, <3>3
  <2>7. FinCounted'
    <3>1. app'.fin /\ Len(t'.stream) = app'.sent
      BY <1>1, <1>9, <2>1, <2>4, <2>6
    <3>2. QED
      BY <2>12, <3>1 DEF FinCounted
  <2>8. Counted'
    BY <1>6, <2>7 DEF Counted
  <2>9. Held'
    <3> SUFFICES ASSUME NEW g \in app'.segs, g[2] > 0 PROVE g[1] + g[2] <= t'.remote_seq
      BY DEF Held
    <3>1. g[1] + g[2] <= app'.sent + 1
      BY <1>5 DEF Within
    <3>2. g[1] \in Nat /\ g[2] \in Nat
      BY DEF StreamInv, Inv, TypeOK, Connection
    <3>3. QED
      BY <2>12, <3>1, <3>2
  <2>10. OfTheApp'
    BY <2>1 DEF OfTheApp
  <2>11. QED
    BY <1>5, <1>10, <2>7, <2>8, <2>9, <2>10 DEF Outstanding
<1>13. QED
  BY <1>1, <1>11, <1>12

\* The numbers of a step that forwards from the segment g at the queue's head.
LEMMA HeadNumbers ==
  ASSUME StreamInv, NEW g \in t.forward, HeadReady(t, g)
  PROVE  /\ g \in Segment /\ g.seq = t.remote_seq /\ g.sent <= g.len
         /\ Len(t.stream) + 1 = Place(g.seq) + g.sent
         /\ t.stream \in Seq(Nat) /\ t.remote_seq \in Nat
<1>1. g \in Segment /\ t.stream \in Seq(Nat) /\ t.remote_seq \in Nat
  BY DEF StreamInv, Inv, TypeOK, Session
<1>2. g.seq = t.remote_seq /\ g.sent <= g.len
  BY DEF HeadReady
<1>3. g.data = Place(g.seq)
  BY DEF StreamInv, StreamFacts, QueueSound
<1>4. Len(t.stream) + 1 = g.data + g.sent
  BY <1>2 DEF StreamInv, StreamFacts, StreamPosition
<1>5. QED
  BY <1>1, <1>2, <1>3, <1>4

\* Forwarding the rest of the head counts its bytes.
LEMMA WholeNumbers ==
  ASSUME StreamInv, NEW g \in t.forward, HeadReady(t, g),
         t'.stream = t.stream \o Bytes(g, g.len - g.sent),
         t'.remote_seq = g.seq + g.len
  PROVE  /\ t'.remote_seq <= Len(t'.stream) + 1
         /\ t.remote_seq >= 1 => t'.remote_seq = Len(t'.stream) + 1
<1> DEFINE n == g.len - g.sent
<1>1. /\ g \in Segment /\ g.seq = t.remote_seq /\ g.sent <= g.len
      /\ Len(t.stream) + 1 = Place(g.seq) + g.sent
      /\ t.stream \in Seq(Nat) /\ t.remote_seq \in Nat
  BY HeadNumbers
<1>2. g.seq \in Nat /\ g.len \in Nat /\ g.sent \in Nat /\ g.data \in Nat
  BY <1>1 DEF Segment
<1>3. n \in Nat /\ Len(t.stream) \in Nat
  BY <1>1, <1>2
<1>4. /\ g.seq + g.len <= Len(t.stream) + n + 1
      /\ g.seq >= 1 => g.seq + g.len = Len(t.stream) + n + 1
  <2> DEFINE m == Len(t.stream)
  <2>1. m \in Nat /\ m + 1 = Place(g.seq) + g.sent
    BY <1>1, <1>3
  <2> HIDE DEF m
  <2>4. g.seq >= 1 => m + 1 = g.seq + g.sent
    BY <1>2, <2>1 DEF Place
  <2>5. g.seq = 0 => m = g.sent
    BY <1>2, <2>1 DEF Place
  <2>2. /\ g.seq + g.len <= m + n + 1
        /\ g.seq >= 1 => g.seq + g.len = m + n + 1
    BY ONLY <1>2, <2>1, <2>4, <2>5
  <2>3. QED
    BY <2>2 DEF m
<1>5. t'.stream = t.stream \o Bytes(g, n)
  OBVIOUS
<1> HIDE DEF n
<1>6. Len(t.stream \o Bytes(g, n)) = Len(t.stream) + n
  BY <1>1, <1>2, <1>3, AppendedLen
<1>7. Len(t'.stream) = Len(t.stream) + n
  BY <1>5, <1>6
<1>8. QED
  BY <1>1, <1>4, <1>7

\* Forwarding a part of the head leaves remote_seq at its first byte.
LEMMA PartNumbers ==
  ASSUME StreamInv, NEW g \in t.forward, HeadReady(t, g),
         NEW n \in 1..(g.len - g.sent - 1),
         t'.stream = t.stream \o Bytes(g, n), t'.remote_seq = t.remote_seq
  PROVE  t'.remote_seq <= Len(t'.stream) + 1
<1>1. /\ g \in Segment /\ g.seq = t.remote_seq
      /\ Len(t.stream) + 1 = Place(g.seq) + g.sent
      /\ t.stream \in Seq(Nat) /\ t.remote_seq \in Nat
  BY HeadNumbers
<1>2. g.seq \in Nat /\ g.len \in Nat /\ g.sent \in Nat /\ g.data \in Nat
  BY <1>1 DEF Segment
<1>3. n \in Nat /\ Len(t.stream) \in Nat
  BY <1>1, <1>2
<1>4. g.seq <= Len(t.stream) + 1
  <2> DEFINE m == Len(t.stream)
  <2>1. m \in Nat /\ m + 1 = Place(g.seq) + g.sent
    BY <1>1, <1>3
  <2> HIDE DEF m
  <2>2. g.seq <= m + 1
    BY <1>2, <2>1 DEF Place
  <2>3. QED
    BY <2>2 DEF m
<1>5. Len(t.stream \o Bytes(g, n)) = Len(t.stream) + n
  BY <1>1, <1>2, <1>3, AppendedLen
<1> DEFINE m == Len(t.stream)
           k == Len(t'.stream)
<1>6. k = m + n /\ t'.remote_seq <= m + 1 /\ m \in Nat /\ t'.remote_seq \in Nat
  BY <1>1, <1>3, <1>4, <1>5
<1> HIDE DEF m, k
<1>7. t'.remote_seq <= k + 1
  BY <1>3, <1>6
<1>8. QED
  BY <1>7 DEF k

\* Forwarding the whole of a segment.
LEMMA AckForwards ==
  ASSUME StreamInv, StreamInv', AckInv, Forwards
  PROVE  Within' /\ Apart' /\ Outstanding' /\ Counted'
<1>1. PICK g \in t.forward :
        /\ HeadReady(t, g)
        /\ t'.stream = t.stream \o Bytes(g, g.len - g.sent)
        /\ t'.remote_seq = g.seq + g.len
        /\ t'.forward = t.forward \ {g}
  BY DEF Forwards
<1>2. /\ t'.state = t.state /\ t'.confirmed = t.confirmed /\ app' = app
  BY DEF Forwards, OnlyForwards
<1>3. /\ g \in Segment /\ g.seq = t.remote_seq /\ t.remote_seq \in Nat
  BY <1>1, HeadNumbers
<1>4. /\ g.seq \in Nat /\ g.len \in Nat /\ app.sent \in Nat /\ t.confirmed \in Nat
      /\ app.segs \subseteq Nat \X Nat \X {0, 1}
  BY <1>3 DEF Segment, StreamInv, Inv, TypeOK, Session, Connection
<1>5. t'.remote_seq <= Len(t'.stream) + 1
  BY <1>1, WholeNumbers
<1>6. Within' /\ Apart'
  BY <1>2 DEF AckInv, Within, Apart
<1>7. t'.confirmed <= t'.remote_seq
  <2>1. t.confirmed <= t.remote_seq
    BY DEF AckInv, Counted
  <2>2. QED
    BY <1>1, <1>2, <1>3, <1>4, <2>1
<1>8. Counted'
  BY <1>5, <1>7 DEF Counted
<1>9. ASSUME t.state \in Connected
      PROVE  Held' /\ OfTheApp' /\ t'.remote_seq <= app'.sent + 1
  <2>1. Held /\ OfTheApp /\ t.remote_seq >= 1
    BY <1>9 DEF AckInv, Outstanding, StreamInv, StreamFacts, Numbered
  <2>2. PICK k \in app.segs : k[2] > 0 /\ k[1] = g.seq /\ k[2] = g.len
    BY <1>3, <2>1 DEF OfTheApp
  <2>3. k[1] + k[2] <= app.sent + 1
    BY DEF AckInv, Within
  <2>4. t'.remote_seq <= app'.sent + 1
    BY <1>1, <1>2, <1>4, <2>2, <2>3
  <2>5. OfTheApp'
    BY <1>1, <1>2, <2>1 DEF OfTheApp
  <2>6. Held'
    <3> SUFFICES ASSUME NEW m \in app.segs, m[2] > 0
                 PROVE  \/ m[1] + m[2] <= t'.remote_seq
                        \/ m[1] >= t'.remote_seq /\ \E h \in t'.forward : h.seq = m[1]
      BY <1>2 DEF Held
    <3>1. m[1] \in Nat /\ m[2] \in Nat
      BY <1>4
    <3>2. CASE m[1] + m[2] <= t.remote_seq
      BY <1>1, <1>3, <1>4, <3>1, <3>2
    <3>3. CASE m[1] >= t.remote_seq /\ \E h \in t.forward : h.seq = m[1]
      <4>1. /\ k[1] = m[1] => k[2] = m[2]
            /\ k[1] < m[1] => k[1] + k[2] <= m[1]
        BY <2>2 DEF AckInv, Apart
      <4>2. CASE m[1] = t.remote_seq
        BY <1>1, <1>3, <1>4, <2>2, <3>1, <4>1, <4>2
      <4>3. CASE m[1] > t.remote_seq
        <5>1. m[1] >= t'.remote_seq
          BY <1>1, <1>3, <1>4, <2>2, <3>1, <4>1, <4>3
        <5>2. m[1] # g.seq
          BY <1>3, <3>1, <4>3
        <5>3. \E h \in t'.forward : h.seq = m[1]
          BY <1>1, <3>3, <5>2
        <5>4. QED
          BY <5>1, <5>3
      <4>4. QED
        BY <1>3, <3>1, <3>3, <4>2, <4>3
    <3>4. QED
      BY <2>1, <3>2, <3>3 DEF Held
  <2>7. QED
    BY <2>4, <2>5, <2>6
<1>10. Outstanding'
  BY <1>2, <1>9 DEF AckInv, Outstanding
<1>11. QED
  BY <1>6, <1>8, <1>10

\* Forwarding a part of a segment.
LEMMA AckForwardsPart ==
  ASSUME StreamInv, StreamInv', AckInv, ForwardsPart
  PROVE  Within' /\ Apart' /\ Outstanding' /\ Counted'
<1>1. PICK g \in t.forward :
        /\ HeadReady(t, g)
        /\ \E n \in 1..(g.len - g.sent - 1) :
             /\ t'.stream = t.stream \o Bytes(g, n)
             /\ t'.forward = (t.forward \ {g}) \cup {[g EXCEPT !.sent = @ + n]}
  BY DEF ForwardsPart
<1>2. PICK n \in 1..(g.len - g.sent - 1) :
        /\ t'.stream = t.stream \o Bytes(g, n)
        /\ t'.forward = (t.forward \ {g}) \cup {[g EXCEPT !.sent = @ + n]}
  BY <1>1
<1>3. /\ t'.state = t.state /\ t'.confirmed = t.confirmed /\ app' = app
      /\ t'.remote_seq = t.remote_seq
  BY DEF ForwardsPart, OnlyForwards
<1>4. t'.remote_seq <= Len(t'.stream) + 1
  BY <1>1, <1>2, <1>3, PartNumbers
<1>5. /\ g \in Segment /\ g.seq = t.remote_seq /\ t.remote_seq \in Nat
      /\ app.sent \in Nat
  BY <1>1, HeadNumbers DEF StreamInv, Inv, TypeOK, Connection
<1> DEFINE h == [g EXCEPT !.sent = @ + n]
<1>6. h.seq = g.seq /\ h.len = g.len /\ t'.forward = (t.forward \ {g}) \cup {h}
  BY <1>2, <1>5 DEF Segment
<1> HIDE DEF h
<1>7. Within' /\ Apart'
  BY <1>3 DEF AckInv, Within, Apart
<1>8. Counted'
  BY <1>3, <1>4 DEF AckInv, Counted
<1>9. ASSUME t.state \in Connected
      PROVE  Held' /\ OfTheApp' /\ t'.remote_seq <= app'.sent + 1
  <2>1. Held /\ OfTheApp /\ t.remote_seq >= 1
    BY <1>9 DEF AckInv, Outstanding, StreamInv, StreamFacts, Numbered
  <2>2. Held'
    BY <1>3, <1>6, <2>1 DEF Held
  <2>3. OfTheApp'
    BY <1>3, <1>6, <2>1 DEF OfTheApp
  <2>4. PICK k \in app.segs : k[2] > 0 /\ k[1] = g.seq
    BY <1>5, <2>1 DEF OfTheApp
  <2>5. k[1] + k[2] <= app.sent + 1 /\ k[1] \in Nat /\ k[2] \in Nat
    BY DEF AckInv, Within, StreamInv, Inv, TypeOK, Connection
  <2>6. QED
    BY <1>3, <1>5, <2>2, <2>3, <2>4, <2>5
<1>10. Outstanding'
  BY <1>3, <1>9 DEF AckInv, Outstanding
<1>11. QED
  BY <1>7, <1>8, <1>10

\* FinAhead is set up by the step that forwards the last data.
LEMMA FinAheadNext ==
  ASSUME StreamInv, Serving, AckInv, [Next]_vars
  PROVE  FinAhead'
<1> USE InvTypes DEF StreamInv, StreamFacts
<1>1. CASE UNCHANGED vars
  BY <1>1 DEF AckInv, FinAhead, vars
<1>2. CASE SocketEvent
  BY <1>2 DEF FinAhead, SocketEvent
<1>3. CASE ForwardSegment
  <2>1. Forwards
    <3>2. PICK g \in t.forward :
            /\ HeadReady(t, g)
            /\ t' = [t EXCEPT !.stream = @ \o Bytes(g, g.len - g.sent),
                              !.remote_seq = g.seq + g.len,
                              !.forward = @ \ {g}]
      BY <1>3, Zenon DEF ForwardSegment
    <3> DEFINE b == t.stream \o Bytes(g, g.len - g.sent)
               n == g.seq + g.len
               q == t.forward \ {g}
    <3>3. t' = [t EXCEPT !.stream = b, !.remote_seq = n, !.forward = q]
      BY <3>2
    <3> HIDE DEF b, n, q
    <3>4. /\ t'.stream = b /\ t'.remote_seq = n /\ t'.forward = q
          /\ SameNumbers(t, t') /\ t'.state = t.state /\ t'.socket = t.socket
          /\ t'.confirmed = t.confirmed
      BY <3>3 DEF Inv, TypeOK, Session, SameNumbers
    <3>5. UNCHANGED app /\ pc = "forward" /\ "OUT" \in pending
      BY <1>3 DEF ForwardSegment
    <3>6. QED
      BY <3>2, <3>4, <3>5 DEF Forwards, OnlyForwards, b, n, q
  <2>2. PICK g \in t.forward :
          /\ HeadReady(t, g)
          /\ t'.stream = t.stream \o Bytes(g, g.len - g.sent)
          /\ t'.remote_seq = g.seq + g.len
    BY <2>1 DEF Forwards
  <2>3. ASSUME t'.state = "CLOSE_WAIT"
        PROVE  t'.remote_seq = Len(t'.stream) + 1
    <3>1. t.state = "CLOSE_WAIT"
      BY <2>1, <2>3 DEF Forwards, OnlyForwards
    <3>2. t.remote_seq >= 1
      BY <3>1 DEF Numbered, Connected
    <3>3. QED
      BY <2>2, <3>2, WholeNumbers
  <2>4. QED
    BY <2>3 DEF FinAhead
<1>4. CASE ForwardPart
  <2>1. t'.forward # {}
    <3>1. PICK g, n :
            t' = [t EXCEPT !.stream = @ \o Bytes(g, n),
                           !.forward = (@ \ {g}) \cup {[g EXCEPT !.sent = @ + n]}]
      BY <1>4, Zenon DEF ForwardPart
    <3> DEFINE b == t.stream \o Bytes(g, n)
               h == [g EXCEPT !.sent = @ + n]
               q == (t.forward \ {g}) \cup {h}
    <3>2. t' = [t EXCEPT !.stream = b, !.forward = q] /\ h \in q
      BY <3>1
    <3> HIDE DEF b, h, q
    <3>3. t'.forward = q
      BY <3>2 DEF Inv, TypeOK, Session
    <3>4. QED
      BY <3>2, <3>3
  <2>2. QED
    BY <2>1 DEF FinAhead
<1>5. CASE ForwardError
  <2>1. t' = write_rst(t) /\ t \in Session
    BY <1>5 DEF ForwardError, Inv, TypeOK
  <2>2. t'.state \in {"CLOSING", "CLOSE"}
    BY <2>1, WriteRst
  <2>3. QED
    BY <2>2 DEF FinAhead
<1>6. CASE ForwardEnd
  BY <1>6 DEF AckInv, FinAhead, ForwardEnd
<1>7. CASE /\ ~UNCHANGED vars
           /\ ~(ForwardSegment \/ ForwardPart \/ ForwardError \/ ForwardEnd
                \/ SocketEvent)
  <2>1. pc' \in {"monitor", "check", "batch", "receive"}
    <3>1. ASSUME HandleTcp PROVE pc = "batch" /\ pc' = pc
      BY <3>1, Zenon DEF HandleTcp, RegisterSession, RefusePacket, RefuseData, ReceiveRst,
           ReceiveSyn, ReceiveFin, ReceiveAck, ReceiveOldAck, ReceiveFutureAck,
           Accepts, Receives
    <3>2. QED
      BY <1>7, <3>1, Zenon DEF Next, CheckTcpSocket, MonitorSession, MonitorNothing,
         CheckSession, SkipCheck, SocketError, SocketConnect, Acknowledge, Receive,
         EndBatch, Tick
  <2>2. QED
    BY <2>1 DEF FinAhead
<1>8. QED
  BY <1>1, <1>2, <1>3, <1>4, <1>5, <1>6, <1>7

\* A session that starts or ends, and one that is connected.
LEMMA AckFresh ==
  ASSUME StreamInv, StreamInv', AckInv, Registers \/ Removes \/ Connects
  PROVE  Within' /\ Apart' /\ Outstanding' /\ Counted'
<1>1. /\ t.remote_seq \in Nat /\ app.sent \in Nat /\ t.confirmed \in Nat
      /\ t \in Session /\ t' \in Session
  BY DEF StreamInv, Inv, TypeOK, Session, Connection
<1>2. CASE Removes
  <2>1. /\ t'.state = NONE /\ t'.stream = <<>> /\ t'.remote_seq = 0
        /\ t'.confirmed = 0 /\ app' = app
    BY <1>2 DEF Removes, Blank
  <2>2. Within' /\ Apart'
    BY <2>1 DEF AckInv, Within, Apart, NONE
  <2>3. Outstanding' /\ Counted'
    BY <2>1 DEF Outstanding, Counted, Connected, NONE
  <2>4. QED
    BY <2>2, <2>3
<1>3. CASE Registers
  <2>1. app'.segs = {} /\ app'.sent = 0
    BY <1>3 DEF Registers, NewConnection
  <2>2. /\ t'.state \in {"LISTEN", "CLOSING"} /\ t'.remote_seq \in 0..1
        /\ t'.stream = <<>> /\ t'.confirmed = 0
    BY <1>3 DEF Registers
  <2>3. Within' /\ Apart'
    BY <2>1 DEF Within, Apart
  <2>4. Outstanding' /\ Counted'
    BY <2>2 DEF Outstanding, Counted, Connected
  <2>5. QED
    BY <2>3, <2>4
<1>4. CASE Connects
  <2>1. /\ t.state = "LISTEN" /\ t'.state = "SYN_RECV" /\ app' = app
        /\ t'.remote_seq = t.remote_seq + 1 /\ t'.forward = t.forward
        /\ t'.stream = t.stream
    BY <1>4 DEF Connects, SameStream
  <2>2. /\ t.remote_seq = 0 /\ t.stream = <<>> /\ \A g \in t.forward : g.seq = 0
    BY <2>1 DEF StreamInv, StreamFacts, Numbered
  <2>3. app.segs = {} /\ app.sent = 0
    BY <2>1 DEF AckInv, Within
  <2>4. t'.remote_seq = 1
    BY <2>1, <2>2
  <2>5. Held' /\ OfTheApp'
    BY <2>1, <2>2, <2>3 DEF Held, OfTheApp
  <2>6. Within' /\ Apart'
    BY <2>1, <2>3 DEF Within, Apart
  <2>7. Outstanding'
    BY <2>1, <2>3, <2>4, <2>5 DEF Outstanding
  <2>8. t'.confirmed <= t'.remote_seq
    BY <1>1, <1>4, <2>1, ConfirmedNext DEF Connects, AckInv, Counted
  <2>9. t'.remote_seq <= Len(t'.stream) + 1
    BY <2>1, <2>2, <2>4
  <2>10. QED
    BY <2>6, <2>7, <2>8, <2>9 DEF Counted
<1>5. QED
  BY <1>2, <1>3, <1>4

\* A session that gives up may count the SYN or the FIN.
LEMMA AckGivesUp ==
  ASSUME StreamInv, StreamInv', AckInv, GivesUp
  PROVE  Within' /\ Apart' /\ Outstanding' /\ Counted'
<1>1. /\ SameStream(t, t') /\ app' = app /\ Confirms
      /\ t'.state \in {"CLOSING", "CLOSE"}
  BY DEF GivesUp, Confirms
<1>2. CASE t'.remote_seq = t.remote_seq
  BY <1>1, <1>2, AckKept
<1>3. CASE t'.remote_seq = t.remote_seq + 1 /\ FinDue
  BY <1>1, <1>3, AckFin
<1>4. CASE t'.remote_seq = t.remote_seq + 1 /\ t.state = "LISTEN"
  <2>1. t.remote_seq = 0 /\ t.stream = <<>> /\ t'.stream = t.stream
    BY <1>1, <1>4 DEF StreamInv, StreamFacts, Numbered, SameStream
  <2>2. t'.remote_seq <= Len(t'.stream) + 1
    BY <1>4, <2>1
  <2>3. t'.confirmed <= t'.remote_seq
    BY <1>1, <1>4, ConfirmedNext
       DEF AckInv, Counted, StreamInv, Inv, TypeOK, Session
  <2>4. Within' /\ Apart'
    BY <1>1 DEF AckInv, Within, Apart
  <2>5. Outstanding'
    BY <1>1 DEF Outstanding, Connected
  <2>6. QED
    BY <2>2, <2>3, <2>4, <2>5 DEF Counted
<1>5. QED
  BY <1>2, <1>3, <1>4 DEF GivesUp

\* The invariant holds at first and is kept by every step.
LEMMA AckInductive ==
  ASSUME ~Resegment
  PROVE  /\ Init => AckInv
         /\ StreamInv /\ Serving /\ AckInv /\ StreamInv' /\ [Next]_vars => AckInv'
<1>1. ASSUME Init PROVE AckInv
  <2>1. /\ t.state = NONE /\ t.stream = <<>> /\ t.remote_seq = 0 /\ t.confirmed = 0
        /\ app.sent = 0 /\ app.segs = {} /\ fwd = FALSE
    BY <1>1 DEF Init, Blank, NewConnection
  <2>2. QED
    BY <2>1 DEF AckInv, Within, Apart, Outstanding, Counted, FinAhead, Connected, NONE
<1>2. ASSUME StreamInv, Serving, AckInv, StreamInv', [Next]_vars PROVE AckInv'
  <2>1. FinAhead'
    BY <1>2, FinAheadNext
  <2>2. Kinds
    BY <1>2, StepKinds DEF StreamInv, StreamFacts
  <2> SUFFICES Within' /\ Apart' /\ Outstanding' /\ Counted'
    BY <2>1 DEF AckInv
  <2>3. CASE Rests \/ ServerEnds \/ ServerSends
    BY <1>2, <2>3, AckKept DEF Rests, ServerEnds, ServerSends
  <2>4. CASE GivesUp
    BY <1>2, <2>4, AckGivesUp
  <2>5. CASE Registers \/ Removes \/ Connects
    BY <1>2, <2>5, AckFresh
  <2>6. CASE \E p \in AppPackets, win \in Windows : Takes(p, win)
    BY <1>2, <2>6, AckTakes
  <2>7. CASE Forwards
    BY <1>2, <2>7, AckForwards
  <2>8. CASE ForwardsPart
    BY <1>2, <2>8, AckForwardsPart
  <2>9. CASE CountsFin
    BY <1>2, <2>9, AckFin DEF CountsFin, FinDue
  <2>10. QED
    BY <2>2, <2>3, <2>4, <2>5, <2>6, <2>7, <2>8, <2>9 DEF Kinds
<1>3. QED
  BY <1>1, <1>2

\* As long as the app repeats its segments as it cut them, what is acknowledged
\* to it was handed to send(), and its FIN only after all of its stream.
THEOREM AckSafety ==
  ASSUME ~Resegment
  PROVE  Spec => []AckedWasForwarded
<1>1. StreamInv /\ AckInv => AckedWasForwarded
  <2> SUFFICES ASSUME StreamInv, AckInv PROVE AckedWasForwarded
    OBVIOUS
  <2> DEFINE m == Len(t.stream)
  <2>1. t.stream \in Seq(Nat) /\ app.sent \in Nat /\ t.remote_seq \in Nat
        /\ t.confirmed \in Nat
    BY DEF StreamInv, Inv, TypeOK, Session, Connection
  <2>2. m \in Nat
    BY <2>1
  <2>3. /\ t.confirmed <= t.remote_seq
        /\ \/ t.remote_seq <= m + 1
           \/ app.fin /\ m = app.sent /\ t.remote_seq = app.sent + 2
    BY DEF AckInv, Counted, FinCounted
  <2> HIDE DEF m
  <2>4. \/ t.confirmed <= m + 1
        \/ app.fin /\ m = app.sent /\ t.confirmed = app.sent + 2
    BY <2>1, <2>2, <2>3
  <2>5. QED
    BY <2>4 DEF AckedWasForwarded, m
<1>2. QED
  BY <1>1, StreamInductive, AckInductive, PTL DEF Spec
=============================================================================
