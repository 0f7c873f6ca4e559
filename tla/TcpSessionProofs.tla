-------------------------- MODULE TcpSessionProofs --------------------------
(***************************************************************************)
(* Theorems about TcpSession for every value of its constants.  The        *)
(* lemmas state what each operator on the session record returns, the      *)
(* theorems put the actions together.                                      *)
(***************************************************************************)
EXTENDS TcpSession, TLAPS

PacketType == [flags : SUBSET {"SYN", "ACK", "FIN", "RST"},
               seq : Nat, len : Nat, ack : Nat]

(***************************************************************************)
(* Operators on the session.                                               *)
(***************************************************************************)

\* write_rst closes the session unless it is closed, and keeps the socket.
LEMMA WriteRst ==
  ASSUME NEW s \in Session
  PROVE  /\ write_rst(s) \in Session
         /\ write_rst(s).socket = s.socket
         /\ write_rst(s).state = IF s.state = "CLOSE" THEN "CLOSE" ELSE "CLOSING"
<1> DEFINE r == IF s.state = "LISTEN" THEN s.remote_seq + 1 ELSE s.remote_seq
           u == IF s.state = "CLOSE" THEN "CLOSE" ELSE "CLOSING"
<1>1. r \in Nat /\ u \in States
  BY DEF Session, States
<1>2. write_rst(s) = [s EXCEPT !.remote_seq = r, !.state = u]
  BY DEF write_rst
<1> HIDE DEF r, u
<1>3. QED
  BY <1>1, <1>2 DEF Session, u

\* Writing a segment leaves state and socket, or closes the session.
LEMMA WrittenType ==
  ASSUME NEW s \in Session, NEW ok \in BOOLEAN
  PROVE  /\ Written(s, ok) \in Session
         /\ Written(s, ok).socket = s.socket
         /\ Written(s, ok).local_seq = s.local_seq
         /\ Written(s, ok).state = IF ok THEN s.state ELSE "CLOSING"
<1>1. CASE ok
  <2> DEFINE c == Larger(s.confirmed, s.remote_seq)
  <2>1. c \in Nat
    BY DEF Larger, Session
  <2>2. Written(s, ok) = [s EXCEPT !.confirmed = c]
    BY <1>1 DEF Written
  <2> HIDE DEF c
  <2>3. QED
    BY <1>1, <2>1, <2>2 DEF Session
<1>2. CASE ~ok
  <2>1. "CLOSING" \in States
    BY DEF States
  <2>2. Written(s, ok) = [s EXCEPT !.state = "CLOSING"]
    BY <1>2 DEF Written
  <2>3. QED
    BY <1>2, <2>1, <2>2 DEF Session
<1>3. QED
  BY <1>1, <1>2

\* Queueing a segment changes the queue alone.
LEMMA QueueTcp ==
  ASSUME NEW s \in Session, NEW seq \in Nat, NEW len \in Nat, NEW data \in Nat
  PROVE  /\ queue_tcp(s, seq, len, data) \in Session
         /\ queue_tcp(s, seq, len, data).socket = s.socket
         /\ queue_tcp(s, seq, len, data).state = s.state
         /\ queue_tcp(s, seq, len, data).local_seq = s.local_seq
<1>1. SentOf(s, seq) \in Nat
  BY DEF SentOf, Session, Segment
<1> DEFINE g == [seq |-> seq, len |-> len, sent |-> SentOf(s, seq), data |-> data]
           q == {h \in s.forward : h.seq # seq} \cup {g}
<1>2. g \in Segment
  BY <1>1 DEF Segment
<1>3. s.forward \subseteq Segment
  BY DEF Session
<1>4. q \in SUBSET Segment
  <2> HIDE DEF g
  <2> QED BY <1>2, <1>3
<1>5. queue_tcp(s, seq, len, data)
        = IF seq < s.remote_seq THEN s ELSE [s EXCEPT !.forward = q]
  BY DEF queue_tcp
<1> HIDE DEF q
<1>6. [s EXCEPT !.forward = q] \in Session
  BY <1>4 DEF Session
<1>7. QED
  BY <1>5, <1>6 DEF Session

\* The fields a packet sets before its flags are looked at.
LEMMA EnqueuedType ==
  ASSUME TypeOK, NEW p \in PacketType, NEW win \in Windows
  PROVE  /\ Touched(p, win) \in Session
         /\ Touched(p, win).socket = t.socket
         /\ Touched(p, win).state = t.state
         /\ Enqueued(p, win) \in Session
         /\ Enqueued(p, win).socket = t.socket
         /\ Enqueued(p, win).state = t.state
<1>1. win \in Nat
  BY ConstantsAssumption
<1>2. /\ Touched(p, win) \in Session
      /\ Touched(p, win).socket = t.socket
      /\ Touched(p, win).state = t.state
  BY <1>1 DEF Touched, TypeOK, Session
<1>3. p.seq \in Nat /\ p.len \in Nat
  BY DEF PacketType
<1>4. ASSUME NEW d \in Nat
      PROVE  /\ queue_tcp(Touched(p, win), p.seq, p.len, d) \in Session
             /\ queue_tcp(Touched(p, win), p.seq, p.len, d).socket = t.socket
             /\ queue_tcp(Touched(p, win), p.seq, p.len, d).state = t.state
  <2>1. Touched(p, win) \in Session
    BY <1>2
  <2>2. QED
    BY <1>2, <2>1, <1>3, QueueTcp
<1>5. (IF p.seq = 0 THEN 1 ELSE p.seq) \in Nat
  BY <1>3
<1>6. QED
  BY <1>2, <1>4, <1>5 DEF Enqueued

\* A session that is not in use, and one that is registered.
LEMMA BlankType ==
  ASSUME NEW b \in BOOLEAN
  PROVE  Blank(b) \in Session /\ Blank(b).socket = b /\ Blank(b).state = NONE
<1>1. /\ NONE \in States /\ "NONE" \in Socks5
      /\ {} \in SUBSET Segment /\ {} \in SUBSET Events
      /\ <<>> \in Seq(Nat)
  BY DEF States, Socks5
<1>2. QED
  BY <1>1 DEF Blank, Session

\* A session registered for a SYN, with its data queued, is a session in LISTEN.
LEMMA NewSessionType ==
  ASSUME NEW p \in PacketType, NEW win \in Windows, NEW open \in BOOLEAN
  PROVE  /\ NewSession(p, win, open) \in Session
         /\ NewSession(p, win, open).socket = TRUE
         /\ NewSession(p, win, open).state = "LISTEN"
<1> DEFINE q == IF p.len = 0 THEN {}
                ELSE {[seq |-> 0, len |-> p.len, sent |-> 0, data |-> 1]}
<1>1. /\ q \in SUBSET Segment
      /\ win \in Nat
      /\ "LISTEN" \in States
      /\ {"OUT", "ERR"} \in SUBSET Events
  BY ConstantsAssumption DEF PacketType, Segment, States, Events
<1>2. Blank(TRUE) \in Session /\ Blank(TRUE).socket = TRUE
  BY BlankType
<1>3. NewSession(p, win, open)
        = [Blank(TRUE) EXCEPT !.state = "LISTEN", !.send_window = win,
                              !.recv_open = open, !.forward = q,
                              !.ev = {"OUT", "ERR"}]
  BY DEF NewSession
<1> HIDE DEF q
<1>4. QED
  BY <1>1, <1>2, <1>3 DEF Session

\* What the app sends are packets, and sending keeps its connection's type.
LEMMA AppPacketsType ==
  ASSUME TypeOK
  PROVE  AppPackets \subseteq PacketType /\ SynPackets \subseteq PacketType
<1>1. SynPackets \subseteq PacketType
  BY DEF SynPackets, Packet, PacketType
<1>2. AppSegments \subseteq Nat \X Nat \X {0, 1}
  BY ConstantsAssumption
     DEF AppSegments, NewSegments, OldSegments, TypeOK, Connection
<1>3. DataPackets \subseteq PacketType
  <2> SUFFICES ASSUME NEW g \in AppSegments, NEW a \in Larger(app.acked, 1)..(t.local_seq)
               PROVE  Packet(IF g[3] = 1 THEN {"ACK", "FIN"} ELSE {"ACK"},
                             g[1], g[2], a) \in PacketType
    BY DEF DataPackets
  <2>1. a \in Nat
    BY DEF TypeOK, Connection, Session, Larger
  <2>2. g[1] \in Nat /\ g[2] \in Nat
    BY <1>2
  <2>3. QED
    BY <2>1, <2>2 DEF Packet, PacketType
<1>4. StrayPackets \subseteq PacketType
  BY DEF StrayPackets, Packet, PacketType, TypeOK, Connection, Session
<1>5. Packet({"RST"}, 1, 0, 0) \in PacketType
  BY DEF Packet, PacketType
<1>6. QED
  BY <1>1, <1>3, <1>4, <1>5 DEF AppPackets

\* What the app sends next keeps its connection's type.
LEMMA AppSendsType ==
  ASSUME TypeOK, NEW p \in PacketType, NEW win \in Windows, AppSends(p, win)
  PROVE  app' \in Connection
<1>1. CASE p \in StrayPackets
  <2>1. win \in Nat
    BY ConstantsAssumption
  <2> DEFINE edge == Larger(app.edge, Larger(1, app.acked) + win)
  <2>2. edge \in Nat
    BY <2>1 DEF Larger, TypeOK, Connection
  <2>3. app' = [app EXCEPT !.edge = edge]
    BY <1>1 DEF AppSends
  <2> HIDE DEF edge
  <2>4. QED
    BY <2>2, <2>3 DEF TypeOK, Connection
<1>2. CASE p \notin StrayPackets
  <2>1. win \in Nat
    BY ConstantsAssumption
  <2> DEFINE sent == Larger(app.sent, p.seq + p.len - 1)
             fin == app.fin \/ "FIN" \in p.flags
             segs == app.segs \cup Repeatable(p)
             acked == Larger(app.acked, p.ack)
             edge == Larger(app.edge, Larger(1, p.ack) + win)
  <2>2. sent \in Nat /\ acked \in Nat /\ edge \in Nat
    BY <2>1 DEF Larger, TypeOK, Connection, PacketType
  <2>3. Repeatable(p) \in SUBSET (Nat \X Nat \X {0, 1})
    BY DEF Repeatable, SegmentOf, PacketType
  <2>4. segs \in SUBSET (Nat \X Nat \X {0, 1})
    BY <2>3 DEF TypeOK, Connection
  <2>5. fin \in BOOLEAN
    OBVIOUS
  <2>6. app' = [sent |-> sent, fin |-> fin, segs |-> segs,
                acked |-> acked, edge |-> edge]
    BY <1>2 DEF AppSends
  <2> HIDE DEF sent, fin, segs, acked, edge
  <2>7. QED
    BY <2>2, <2>4, <2>5, <2>6 DEF Connection
<1>3. QED
  BY <1>1, <1>2

(***************************************************************************)
(* The invariant.                                                          *)
(***************************************************************************)
Inv == TypeOK /\ SocketReleased

PcType == {"monitor", "check", "batch"} \cup InSocketEvent

\* A step that keeps the socket and enters no state without one keeps Inv.
LEMMA KeepsSocket ==
  ASSUME Inv, t' \in Session, app' \in Connection, pc' \in PcType,
         pending' \subseteq Events, fwd' \in BOOLEAN,
         t'.socket = t.socket,
         t'.state \in Released => t.state \in Released,
         pc' \in InSocketEvent \/ pending' # {} => t.socket
  PROVE  Inv'
  BY DEF Inv, TypeOK, SocketReleased, PcType

\* The part of Inv that concerns everything but the session.
LEMMA InvTypes ==
  ASSUME Inv
  PROVE  /\ TypeOK /\ t \in Session /\ app \in Connection /\ pc \in PcType
         /\ pending \subseteq Events /\ fwd \in BOOLEAN
  BY DEF Inv, TypeOK, PcType

\* Before the first SYN there is no session and no socket.
LEMMA InitInv == Init => Inv
<1> SUFFICES ASSUME Init PROVE Inv
  OBVIOUS
<1>1. /\ t \in Session /\ ~t.socket /\ t.state = NONE
  BY BlankType DEF Init
<1>2. app \in Connection
  BY DEF Init, NewConnection, Connection
<1>3. QED
  BY <1>1, <1>2 DEF Init, Inv, TypeOK, SocketReleased, Released, InSocketEvent

\* Packets of the app (handle_tcp) keep the invariant.
LEMMA HandleTcpInv ==
  ASSUME Inv, HandleTcp
  PROVE  Inv'
<1> USE InvTypes
<1>1. CASE RegisterSession
  <2>1. PICK p \in SynPackets, win \in Windows, open \in BOOLEAN, allowed \in BOOLEAN :
          /\ t' = IF allowed THEN NewSession(p, win, open)
                             ELSE write_rst(NewSession(p, win, open))
          /\ app' = [NewConnection EXCEPT !.edge = 1 + win]
    BY <1>1 DEF RegisterSession
  <2>2. p \in PacketType
    BY AppPacketsType
  <2>3. /\ NewSession(p, win, open) \in Session
        /\ NewSession(p, win, open).socket = TRUE
        /\ NewSession(p, win, open).state = "LISTEN"
    BY <2>2, NewSessionType
  <2>4. /\ write_rst(NewSession(p, win, open)) \in Session
        /\ write_rst(NewSession(p, win, open)).socket = TRUE
        /\ write_rst(NewSession(p, win, open)).state = "CLOSING"
    BY <2>3, WriteRst
  <2>5. t' \in Session /\ t'.socket = TRUE /\ t'.state \in {"LISTEN", "CLOSING"}
    BY <2>1, <2>3, <2>4
  <2>6. app' \in Connection
    <3>1. 1 + win \in Nat
      BY ConstantsAssumption
    <3>2. NewConnection \in Connection
      BY DEF NewConnection, Connection
    <3>3. QED
      BY <2>1, <3>1, <3>2 DEF Connection
  <2>7. UNCHANGED <<pc, pending, fwd>>
    BY <1>1 DEF RegisterSession
  <2>8. QED
    BY <2>5, <2>6, <2>7 DEF Inv, TypeOK, SocketReleased, Released, NONE
<1>2. ASSUME NEW p \in AppPackets, NEW win \in Windows, Accepts(p, win),
             t' \in Session, t'.socket = t.socket,
             t'.state \in Released => t.state \in Released
      PROVE  Inv'
  <2>0. p \in PacketType /\ AppSends(p, win)
    BY <1>2, AppPacketsType DEF Accepts
  <2>1. app' \in Connection
    BY <2>0, AppSendsType
  <2>2. UNCHANGED <<pc, pending, fwd>>
    BY <1>2 DEF Accepts, Receives
  <2>3. QED
    BY <1>2, <2>1, <2>2, KeepsSocket DEF Inv, SocketReleased
<1>3. CASE RefusePacket
  <2>1. t' = write_rst(t) /\ UNCHANGED <<app, pc, pending, fwd>>
    BY <1>3 DEF RefusePacket, Receives
  <2>2. t' \in Session /\ t'.socket = t.socket
    BY <2>1, WriteRst
  <2>3. t'.state \in Released => t.state \in Released
    BY <2>1, WriteRst DEF Released, NONE
  <2>4. QED
    BY <2>1, <2>2, <2>3, KeepsSocket DEF Inv, SocketReleased
<1>4. CASE RefuseData
  <2>1. PICK p \in AppPackets, win \in Windows :
          /\ t' = write_rst(Touched(p, win))
          /\ UNCHANGED <<app, pc, pending, fwd>>
    BY <1>4 DEF RefuseData, Receives
  <2>2. /\ Touched(p, win) \in Session
        /\ Touched(p, win).socket = t.socket
        /\ Touched(p, win).state = t.state
    BY AppPacketsType, EnqueuedType
  <2>3. t' \in Session /\ t'.socket = t.socket /\ (t'.state \in Released => t.state \in Released)
    BY <2>1, <2>2, WriteRst DEF Released, NONE
  <2>4. QED
    BY <2>1, <2>3, KeepsSocket DEF Inv, SocketReleased
<1>5. CASE ReceiveRst
  <2>1. PICK p \in AppPackets, win \in Windows :
          Accepts(p, win) /\ t' = [Enqueued(p, win) EXCEPT !.state = "CLOSING"]
    BY <1>5 DEF ReceiveRst
  <2>2. Enqueued(p, win) \in Session /\ Enqueued(p, win).socket = t.socket
    BY AppPacketsType, EnqueuedType
  <2>3. t' \in Session /\ t'.socket = t.socket /\ t'.state = "CLOSING"
    BY <2>1, <2>2 DEF Session, States
  <2>4. QED
    BY <1>2, <2>1, <2>3 DEF Released, NONE
<1>6. CASE ReceiveSyn
  <2>1. PICK p \in AppPackets, win \in Windows :
          Accepts(p, win) /\ t' = Enqueued(p, win)
    BY <1>6 DEF ReceiveSyn
  <2>2. t' \in Session /\ t'.socket = t.socket /\ t'.state = t.state
    BY <2>1, AppPacketsType, EnqueuedType
  <2>3. QED
    BY <1>2, <2>1, <2>2
<1>7. CASE ReceiveFin
  <2>1. PICK p \in AppPackets, win \in Windows, ok \in BOOLEAN :
          LET s == Enqueued(p, win)
          IN  /\ Accepts(p, win)
              /\ \/ /\ s.state = "ESTABLISHED"
                    /\ \/ t' = FinConfirmed(s, ok, "CLOSE_WAIT")
                       \/ t' = [s EXCEPT !.state = "CLOSE_WAIT"]
                 \/ /\ s.state = "FIN_WAIT1"
                    /\ t' = FinConfirmed(s, ok, "CLOSE")
                 \/ t' = s
    BY <1>7 DEF ReceiveFin
  <2> DEFINE s == Enqueued(p, win)
  <2>2. s \in Session /\ s.socket = t.socket /\ s.state = t.state
    BY AppPacketsType, EnqueuedType
  <2> HIDE DEF s
  <2>3. ASSUME NEW next \in States
        PROVE  LET f == FinConfirmed(s, ok, next)
               IN  f \in Session /\ f.socket = s.socket /\ f.state \in {next, "CLOSING"}
    <3> DEFINE r == [s EXCEPT !.remote_seq = @ + 1]
    <3>1. r \in Session /\ r.socket = s.socket
      <4>1. s.remote_seq + 1 \in Nat
        BY <2>2 DEF Session
      <4>2. QED
        BY <2>2, <4>1 DEF Session
    <3> HIDE DEF r
    <3>2. /\ Written(r, ok) \in Session
          /\ Written(r, ok).socket = s.socket
          /\ ~ok => Written(r, ok).state = "CLOSING"
      BY <3>1, WrittenType
    <3> DEFINE w == Written(r, ok)
    <3>3. FinConfirmed(s, ok, next) = IF ok THEN [w EXCEPT !.state = next] ELSE w
      BY DEF FinConfirmed, r
    <3> HIDE DEF w
    <3>4. w \in Session /\ w.socket = s.socket /\ (~ok => w.state = "CLOSING")
      BY <3>2 DEF w
    <3>5. [w EXCEPT !.state = next] \in Session
          /\ [w EXCEPT !.state = next].socket = w.socket
          /\ [w EXCEPT !.state = next].state = next
      BY <3>4 DEF Session
    <3>6. CASE ok
      BY <3>3, <3>4, <3>5, <3>6
    <3>7. CASE ~ok
      BY <3>3, <3>4, <3>7
    <3>8. QED
      BY <3>6, <3>7
  <2>4. "CLOSE_WAIT" \in States /\ "CLOSE" \in States
    BY DEF States
  <2>5. [s EXCEPT !.state = "CLOSE_WAIT"] \in Session
        /\ [s EXCEPT !.state = "CLOSE_WAIT"].socket = s.socket
        /\ [s EXCEPT !.state = "CLOSE_WAIT"].state = "CLOSE_WAIT"
    BY <2>2, <2>4 DEF Session
  <2>6. t' \in Session /\ t'.socket = t.socket
    BY <2>1, <2>2, <2>3, <2>4, <2>5 DEF s
  <2>7. t'.state \in Released => t.state \in Released
    BY <2>1, <2>2, <2>3, <2>4, <2>5 DEF s, Released, NONE
  <2>8. QED
    BY <1>2, <2>1, <2>6, <2>7
<1>8. CASE ReceiveAck
  <2>1. PICK p \in AppPackets, win \in Windows :
          LET s == [Enqueued(p, win) EXCEPT !.acked = p.ack]
          IN  /\ Accepts(p, win)
              /\ t' = [s EXCEPT !.state = CASE @ = "SYN_RECV" -> "ESTABLISHED"
                                            [] @ = "LAST_ACK" -> "CLOSING"
                                            [] OTHER -> @]
    BY <1>8 DEF ReceiveAck
  <2> DEFINE s == Enqueued(p, win)
             n == CASE s.state = "SYN_RECV" -> "ESTABLISHED"
                    [] s.state = "LAST_ACK" -> "CLOSING"
                    [] OTHER -> s.state
  <2>2. s \in Session /\ s.socket = t.socket /\ s.state = t.state /\ p.ack \in Nat
    BY AppPacketsType, EnqueuedType DEF PacketType
  <2> HIDE DEF s
  <2>3. n \in States /\ (n \in Released => s.state \in Released)
    BY <2>2 DEF Session, States, Released, NONE
  <2>4. t' = [s EXCEPT !.acked = p.ack, !.state = n]
    BY <2>1, <2>2 DEF s, Session
  <2> HIDE DEF n
  <2>5. t' \in Session /\ t'.socket = t.socket /\ (t'.state \in Released => t.state \in Released)
    BY <2>2, <2>3, <2>4 DEF Session
  <2>6. QED
    BY <1>2, <2>1, <2>5
<1>9. CASE ReceiveOldAck
  <2>1. PICK p \in AppPackets, win \in Windows :
          /\ Accepts(p, win)
          /\ \/ t' = Enqueued(p, win)
             \/ t' = [Enqueued(p, win) EXCEPT !.acked = Larger(@, p.ack)]
    BY <1>9 DEF ReceiveOldAck
  <2>2. /\ Enqueued(p, win) \in Session /\ Enqueued(p, win).socket = t.socket
        /\ Enqueued(p, win).state = t.state /\ p.ack \in Nat
    BY AppPacketsType, EnqueuedType DEF PacketType
  <2>3. Larger(Enqueued(p, win).acked, p.ack) \in Nat
    BY <2>2 DEF Larger, Session
  <2>4. t' \in Session /\ t'.socket = t.socket /\ t'.state = t.state
    BY <2>1, <2>2, <2>3 DEF Session
  <2>5. QED
    BY <1>2, <2>1, <2>4
<1>10. CASE ReceiveFutureAck
  <2>1. PICK p \in AppPackets, win \in Windows :
          Accepts(p, win) /\ t' = write_rst(Enqueued(p, win))
    BY <1>10 DEF ReceiveFutureAck
  <2>2. /\ Enqueued(p, win) \in Session /\ Enqueued(p, win).socket = t.socket
        /\ Enqueued(p, win).state = t.state
    BY AppPacketsType, EnqueuedType
  <2>3. t' \in Session /\ t'.socket = t.socket /\ (t'.state \in Released => t.state \in Released)
    BY <2>1, <2>2, WriteRst DEF Released, NONE
  <2>4. QED
    BY <1>2, <2>1, <2>3
<1>11. QED
  BY <1>1, <1>3, <1>4, <1>5, <1>6, <1>7, <1>8, <1>9, <1>10 DEF HandleTcp

\* monitor_tcp_session keeps the invariant: it changes ev, or closes.
LEMMA MonitorInv ==
  ASSUME Inv, MonitorSession \/ MonitorNothing
  PROVE  Inv'
<1> USE InvTypes
<1>1. CASE MonitorSession
  <2>1. PICK fits \in BOOLEAN :
          \/ t' = [t EXCEPT !.ev = Interest(t, fits)]
          \/ t' = [t EXCEPT !.ev = Interest(t, fits), !.state = "CLOSING"]
          \/ t' = [t EXCEPT !.state = "CLOSING"]
    BY <1>1 DEF MonitorSession
  <2>2. Interest(t, fits) \in SUBSET Events
    BY DEF Interest, Events
  <2>3. "CLOSING" \in States /\ "CLOSING" \notin Released
    BY DEF States, Released, NONE
  <2> DEFINE e == Interest(t, fits)
  <2> HIDE DEF e
  <2>4. /\ t' \in Session /\ t'.socket = t.socket
        /\ t'.state \in Released => t.state \in Released
    <3>1. \/ t' = [t EXCEPT !.ev = e]
          \/ t' = [t EXCEPT !.ev = e, !.state = "CLOSING"]
          \/ t' = [t EXCEPT !.state = "CLOSING"]
      BY <2>1 DEF e
    <3>2. e \in SUBSET Events
      BY <2>2 DEF e
    <3>3. QED
      BY <3>1, <3>2, <2>3 DEF Session
  <2>5. /\ pc = "monitor" /\ pc' = "check"
        /\ UNCHANGED <<app, pending, fwd>>
    BY <1>1 DEF MonitorSession
  <2>6. QED
    BY <2>4, <2>5, KeepsSocket DEF Inv, SocketReleased, PcType, InSocketEvent
<1>2. CASE MonitorNothing
  BY <1>2, KeepsSocket
     DEF MonitorNothing, Inv, SocketReleased, PcType, InSocketEvent
<1>3. QED
  BY <1>1, <1>2

\* check_tcp_session closes the descriptor before CLOSE, and deletes from it.
LEMMA CheckTcpSession ==
  ASSUME NEW s \in Session, s.state \in Released => ~s.socket
  PROVE  /\ check_tcp_session(s) \in Session
         /\ check_tcp_session(s).state \in Released
              => ~check_tcp_session(s).socket
<1> DEFINE a == TimedOut(s)
           b == Closed(a)
           c == Deleted(b)
<1>1. "CLOSING" \in States /\ "CLOSE" \in States
  BY DEF States
<1>2. /\ a \in Session
      /\ a.state \in Released => ~a.socket
  <2>1. CASE s.state \in {"CLOSING", "CLOSE"} \/ ~s.idle
    BY <2>1 DEF TimedOut
  <2>2. CASE ~(s.state \in {"CLOSING", "CLOSE"} \/ ~s.idle) /\ s.state = "LISTEN"
    <3>1. a = [s EXCEPT !.state = "CLOSING"]
      BY <2>2 DEF TimedOut
    <3>2. QED
      BY <3>1, <1>1 DEF Session, Released, NONE
  <2>3. CASE ~(s.state \in {"CLOSING", "CLOSE"} \/ ~s.idle) /\ s.state # "LISTEN"
    <3>1. a = write_rst(s)
      BY <2>3 DEF TimedOut
    <3>2. write_rst(s) \in Session /\ write_rst(s).state = "CLOSING"
      BY <2>3, WriteRst
    <3>3. QED
      BY <3>1, <3>2 DEF Released, NONE
  <2>4. QED
    BY <2>1, <2>2, <2>3
<1> HIDE DEF a
<1>3. /\ b \in Session
      /\ b.state \in Released => ~b.socket
  <2>1. CASE a.state = "CLOSING"
    <3>1. b = [a EXCEPT !.socket = FALSE, !.idle = FALSE, !.state = "CLOSE"]
      BY <2>1 DEF Closed
    <3>2. QED
      BY <1>1, <1>2, <3>1 DEF Session
  <2>2. CASE a.state # "CLOSING"
    BY <1>2, <2>2 DEF Closed
  <2>3. QED
    BY <2>1, <2>2
<1> HIDE DEF b
<1>4. /\ c \in Session
      /\ c.state \in Released => ~c.socket
  <2>1. CASE b.state = "CLOSE" /\ b.idle
    <3>1. c = Blank(b.socket)
      BY <2>1 DEF Deleted
    <3>2. b.socket = FALSE
      BY <1>3, <2>1 DEF Released, Session
    <3>3. QED
      BY <3>1, <3>2, BlankType
  <2>2. CASE ~(b.state = "CLOSE" /\ b.idle)
    BY <1>3, <2>2 DEF Deleted
  <2>3. QED
    BY <2>1, <2>2
<1>5. QED
  BY <1>4 DEF a, b, check_tcp_session

\* epoll_wait reports only a session with a socket.
LEMMA PolledType ==
  ASSUME NEW s \in Session, NEW e \in Polled(s)
  PROVE  e \subseteq Events /\ (e # {} => s.socket)
<1>1. s.ev \subseteq Events /\ "HUP" \in Events
  BY DEF Session, Events
<1>2. QED
  BY <1>1 DEF Polled

\* The turn's check (check_tcp_session, then epoll_wait) keeps the invariant.
LEMMA CheckInv ==
  ASSUME Inv, CheckSession \/ SkipCheck
  PROVE  Inv'
<1> USE InvTypes
<1>1. t.state \in Released => ~t.socket
  BY DEF Inv, SocketReleased
<1>2. /\ pc' = "batch" /\ pending' \in Polled(t') /\ UNCHANGED <<app, fwd>>
      /\ \/ t' = t
         \/ t' = check_tcp_session(t)
  BY DEF CheckSession, SkipCheck
<1>3. t' \in Session /\ (t'.state \in Released => ~t'.socket)
  BY <1>1, <1>2, CheckTcpSession
<1>4. pending' \subseteq Events /\ (pending' # {} => t'.socket)
  BY <1>2, <1>3, PolledType
<1>5. QED
  BY <1>2, <1>3, <1>4 DEF Inv, TypeOK, SocketReleased, InSocketEvent


\* Adding to remote_seq keeps everything else.
LEMMA Advance ==
  ASSUME NEW s \in Session
  PROVE  /\ [s EXCEPT !.remote_seq = @ + 1] \in Session
         /\ [s EXCEPT !.remote_seq = @ + 1].socket = s.socket
         /\ [s EXCEPT !.remote_seq = @ + 1].state = s.state
         /\ [s EXCEPT !.remote_seq = @ + 1].local_seq = s.local_seq
<1>1. s.remote_seq + 1 \in Nat
  BY DEF Session
<1>2. QED
  BY <1>1 DEF Session

\* The states of a session connected or not after an event in LISTEN.
Unreleased == States \ Released

\* Writing the SYN+ACK leaves LISTEN or closes the session.
LEMMA SynAckType ==
  ASSUME NEW s \in Session, NEW ok \in BOOLEAN
  PROVE  /\ SynAckWritten(s, ok) \in Session
         /\ SynAckWritten(s, ok).socket = s.socket
         /\ SynAckWritten(s, ok).state \in Unreleased
<1> DEFINE r == [s EXCEPT !.remote_seq = @ + 1]
           w == Written(r, ok)
<1>1. r \in Session /\ r.socket = s.socket
  BY Advance
<1> HIDE DEF r
<1>2. w \in Session /\ w.socket = s.socket /\ (~ok => w.state = "CLOSING")
  BY <1>1, WrittenType
<1>3. SynAckWritten(s, ok)
        = IF ok THEN [w EXCEPT !.idle = FALSE, !.local_seq = @ + 1,
                               !.state = "SYN_RECV"]
                ELSE w
  BY DEF SynAckWritten, r
<1> HIDE DEF w
<1>4. /\ "SYN_RECV" \in States /\ w.local_seq + 1 \in Nat
      /\ "SYN_RECV" \in Unreleased /\ "CLOSING" \in Unreleased
  BY <1>2 DEF States, Session, Unreleased, Released, NONE
<1>5. CASE ok
  <2>1. SynAckWritten(s, ok) = [w EXCEPT !.idle = FALSE,
                                         !.local_seq = w.local_seq + 1,
                                         !.state = "SYN_RECV"]
    BY <1>2, <1>3, <1>5 DEF Session
  <2>2. QED
    BY <1>2, <1>4, <2>1 DEF Session
<1>6. CASE ~ok
  BY <1>2, <1>3, <1>4, <1>6
<1>7. QED
  BY <1>5, <1>6

\* Each request to the proxy leaves a session in LISTEN or closes it.
LEMMA AnsweredType ==
  ASSUME NEW s \in Session, NEW ok \in BOOLEAN, s.state \in Unreleased
  PROVE  /\ Answered(s, ok) \in Session
         /\ Answered(s, ok).socket = s.socket
         /\ Answered(s, ok).state \in Unreleased
<1>1. /\ write_rst(s) \in Session /\ write_rst(s).socket = s.socket
      /\ write_rst(s).state \in Unreleased
  BY WriteRst DEF Unreleased, Released, States, NONE
<1>2. Answered(s, ok) \in {s, write_rst(s), SynAckWritten(s, ok)}
  BY DEF Answered
<1>3. QED
  BY <1>1, <1>2, SynAckType

\* Each reply of the proxy leaves a session in LISTEN or closes it.
LEMMA ConnectingType ==
  ASSUME NEW s \in Session, NEW n \in Connecting(s), s.state \in Unreleased
  PROVE  n \in Session /\ n.socket = s.socket /\ n.state \in Unreleased
<1>1. ASSUME NEW k \in Socks5
      PROVE  /\ [s EXCEPT !.socks5 = k] \in Session
             /\ [s EXCEPT !.socks5 = k].socket = s.socket
             /\ [s EXCEPT !.socks5 = k].state = s.state
  BY DEF Session
<1>2. ASSUME NEW r \in Session, r.state \in Unreleased
      PROVE  /\ write_rst(r) \in Session
             /\ write_rst(r).socket = r.socket
             /\ write_rst(r).state \in Unreleased
  BY <1>2, WriteRst DEF Unreleased, Released, States, NONE
<1>3. /\ "ZERO" \in Socks5 /\ "CONNECT" \in Socks5 /\ "AUTH" \in Socks5
      /\ "CONNECTED" \in Socks5 /\ "HELLO" \in Socks5
  BY DEF Socks5
<1>4. \/ \E k \in Socks5 : n = [s EXCEPT !.socks5 = k]
      \/ n = s
      \/ n = write_rst(s)
      \/ n = write_rst([s EXCEPT !.socks5 = "ZERO"])
  BY <1>3 DEF Connecting, ProxyReply
<1>5. CASE \E k \in Socks5 : n = [s EXCEPT !.socks5 = k]
  BY <1>1, <1>5
<1>6. CASE n = s
  BY <1>6
<1>7. CASE n = write_rst(s)
  BY <1>2, <1>7
<1>8. CASE n = write_rst([s EXCEPT !.socks5 = "ZERO"])
  <2>1. /\ [s EXCEPT !.socks5 = "ZERO"] \in Session
        /\ [s EXCEPT !.socks5 = "ZERO"].socket = s.socket
        /\ [s EXCEPT !.socks5 = "ZERO"].state \in Unreleased
    BY <1>1, <1>3
  <2>2. QED
    BY <1>2, <1>8, <2>1
<1>9. QED
  BY <1>4, <1>5, <1>6, <1>7, <1>8

\* Sending a part of a segment, or all of it.
LEMMA StreamType ==
  ASSUME NEW s \in Session, NEW g \in s.forward, NEW n \in Nat
  PROVE  s.stream \o Bytes(g, n) \in Seq(Nat)
<1>1. g.data \in Nat /\ g.sent \in Nat
  BY DEF Session, Segment
<1>2. \A i \in 1..n : g.data + g.sent + (i - 1) \in Nat
  BY <1>1
<1>3. Bytes(g, n) \in [1..n -> Nat]
  BY <1>2 DEF Bytes
<1>4. Bytes(g, n) \in Seq(Nat)
  BY <1>3
<1>5. s.stream \in Seq(Nat)
  BY DEF Session
<1>6. QED
  BY <1>4, <1>5


\* The handshake, and the errors of the socket.
LEMMA ConnectInv ==
  ASSUME Inv, SocketError \/ SocketConnect \/ SocketEvent
  PROVE  Inv'
<1> USE InvTypes
<1>1. /\ pc = "batch" /\ pending # {} /\ t.socket /\ t.state \in Unreleased
  BY DEF SocketError, SocketConnect, SocketEvent, Inv, SocketReleased,
         Unreleased, TypeOK, Session
<1>2. CASE SocketError
  <2> DEFINE s == [t EXCEPT !.idle = FALSE]
  <2>1. s \in Session /\ s.socket = t.socket /\ s.state = t.state
    BY DEF Session
  <2>2. t' = write_rst(s) /\ pending' = {} /\ UNCHANGED <<app, pc, fwd>>
    BY <1>2 DEF SocketError
  <2> HIDE DEF s
  <2>3. /\ t' \in Session /\ t'.socket = t.socket
        /\ t'.state \in Released => t.state \in Released
    BY <2>1, <2>2, WriteRst DEF Released, NONE
  <2>4. QED
    BY <1>1, <2>2, <2>3, KeepsSocket
<1>3. CASE SocketConnect
  <2>1. PICK s \in Connecting(t), ok \in BOOLEAN : t' = Answered(s, ok)
    BY <1>3 DEF SocketConnect
  <2>2. s \in Session /\ s.socket = t.socket /\ s.state \in Unreleased
    BY <1>1, ConnectingType
  <2>3. t' \in Session /\ t'.socket = t.socket /\ t'.state \in Unreleased
    BY <2>1, <2>2, AnsweredType
  <2>4. pending' = {} /\ UNCHANGED <<app, pc, fwd>>
    BY <1>3 DEF SocketConnect
  <2>5. QED
    BY <1>1, <2>3, <2>4, KeepsSocket DEF Unreleased
<1>4. CASE SocketEvent
  BY <1>1, <1>4, KeepsSocket DEF SocketEvent, PcType, InSocketEvent
<1>5. QED
  BY <1>2, <1>3, <1>4

\* The send loop.
LEMMA ForwardInv ==
  ASSUME Inv, ForwardSegment \/ ForwardPart \/ ForwardError \/ ForwardEnd
  PROVE  Inv'
<1> USE InvTypes
<1>1. /\ pc = "forward" /\ t.socket /\ pc' \in InSocketEvent
      /\ fwd' \in BOOLEAN /\ UNCHANGED <<app, pending>>
  BY DEF ForwardSegment, ForwardPart, ForwardError, ForwardEnd, Inv,
         SocketReleased, InSocketEvent
<1>2. SUFFICES /\ t' \in Session /\ t'.socket = t.socket
               /\ t'.state \in Released => t.state \in Released
  BY <1>1, KeepsSocket DEF PcType
<1>3. CASE ForwardSegment
  <2>1. PICK g \in t.forward :
          /\ HeadReady(t, g)
          /\ t' = [t EXCEPT !.stream = @ \o Bytes(g, g.len - g.sent),
                            !.remote_seq = g.seq + g.len,
                            !.forward = @ \ {g}]
    BY <1>3 DEF ForwardSegment
  <2>2. g.len - g.sent \in Nat /\ g.seq + g.len \in Nat
    BY <2>1 DEF HeadReady, Session, Segment
  <2> DEFINE b == t.stream \o Bytes(g, g.len - g.sent)
             r == g.seq + g.len
             q == t.forward \ {g}
  <2>3. b \in Seq(Nat) /\ r \in Nat /\ q \in SUBSET Segment
    BY <2>2, StreamType DEF Session
  <2>4. t' = [t EXCEPT !.stream = b, !.remote_seq = r, !.forward = q]
    BY <2>1 DEF Session
  <2> HIDE DEF b, r, q
  <2>5. QED
    BY <2>3, <2>4 DEF Session
<1>4. CASE ForwardPart
  <2>1. PICK g \in t.forward :
          \E n \in 1..(g.len - g.sent - 1) :
            t' = [t EXCEPT !.stream = @ \o Bytes(g, n),
                           !.forward = (@ \ {g}) \cup {[g EXCEPT !.sent = @ + n]}]
    BY <1>4 DEF ForwardPart
  <2>2. PICK n \in 1..(g.len - g.sent - 1) :
          t' = [t EXCEPT !.stream = @ \o Bytes(g, n),
                         !.forward = (@ \ {g}) \cup {[g EXCEPT !.sent = @ + n]}]
    BY <2>1
  <2>3. g \in Segment /\ g.sent + n \in Nat /\ n \in Nat
    BY DEF Session, Segment
  <2>4. [g EXCEPT !.sent = @ + n] \in Segment
    BY <2>3 DEF Segment
  <2> DEFINE b == t.stream \o Bytes(g, n)
             h == [g EXCEPT !.sent = @ + n]
             q == (t.forward \ {g}) \cup {h}
  <2>5. b \in Seq(Nat)
    BY <2>3, StreamType
  <2>6. t' = [t EXCEPT !.stream = b, !.forward = q]
    BY <2>2 DEF Session
  <2> HIDE DEF b, h
  <2>7. q \in SUBSET Segment
    BY <2>4 DEF Session, h
  <2> HIDE DEF q
  <2>8. QED
    BY <2>5, <2>6, <2>7 DEF Session
<1>5. CASE ForwardError
  <2>1. t' = write_rst(t)
    BY <1>5 DEF ForwardError
  <2>2. QED
    BY <2>1, WriteRst DEF Released, NONE
<1>6. CASE ForwardEnd
  BY <1>6 DEF ForwardEnd
<1>7. QED
  BY <1>3, <1>4, <1>5, <1>6

\* The acknowledgement of forwarded data.
LEMMA AcknowledgeInv ==
  ASSUME Inv, Acknowledge
  PROVE  Inv'
<1> USE InvTypes
<1>1. /\ pc = "ack" /\ t.socket /\ pc' = "receive"
      /\ UNCHANGED <<app, pending, fwd>>
  BY DEF Acknowledge, Inv, SocketReleased, InSocketEvent
<1>2. SUFFICES /\ t' \in Session /\ t'.socket = t.socket
               /\ t'.state \in Released => t.state \in Released
  BY <1>1, KeepsSocket DEF PcType, InSocketEvent
<1>3. PICK open \in BOOLEAN, ok \in BOOLEAN :
        LET s == [t EXCEPT !.recv_open = open]
        IN  \/ t' = s
            \/ \E f \in {s, [s EXCEPT !.remote_seq = @ + 1]} :
                 \/ ~ok /\ t' = Written(f, ok)
                 \/ ok /\ t' = [Written(f, ok) EXCEPT !.idle = FALSE]
  BY DEF Acknowledge
<1> DEFINE s == [t EXCEPT !.recv_open = open]
<1>4. s \in Session /\ s.socket = t.socket /\ s.state = t.state
  BY DEF Session
<1> HIDE DEF s
<1>5. ASSUME NEW f \in {s, [s EXCEPT !.remote_seq = @ + 1]}
      PROVE  f \in Session /\ f.socket = t.socket /\ f.state = t.state
  BY <1>4, Advance
<1>6. ASSUME NEW f \in {s, [s EXCEPT !.remote_seq = @ + 1]}
      PROVE  /\ Written(f, ok) \in Session
             /\ Written(f, ok).socket = t.socket
             /\ Written(f, ok).state = IF ok THEN t.state ELSE "CLOSING"
  <2>1. f \in Session /\ f.socket = t.socket /\ f.state = t.state
    BY <1>5
  <2>2. QED
    BY <2>1, WrittenType
<1>7. CASE t' = s
  BY <1>4, <1>7
<1>8. CASE t' # s
  <2>1. PICK f \in {s, [s EXCEPT !.remote_seq = @ + 1]} :
          \/ ~ok /\ t' = Written(f, ok)
          \/ ok /\ t' = [Written(f, ok) EXCEPT !.idle = FALSE]
    BY <1>3, <1>8 DEF s
  <2> DEFINE w == Written(f, ok)
  <2>2. /\ w \in Session /\ w.socket = t.socket
        /\ ok => w.state = t.state
        /\ ~ok => w.state = "CLOSING"
    BY <1>6
  <2>3. t' = w \/ t' = [w EXCEPT !.idle = FALSE]
    BY <2>1
  <2> HIDE DEF w
  <2>4. t' \in Session /\ t'.socket = t.socket /\ t'.state = w.state
    BY <2>2, <2>3 DEF Session
  <2>5. QED
    BY <2>2, <2>4 DEF Released, NONE
<1>9. QED
  BY <1>7, <1>8


\* recv: the end of the stream closes the socket in the same step that enters
\* FIN_WAIT1 or LAST_ACK.
LEMMA EndOfFileType ==
  ASSUME NEW s \in Session, NEW ok \in BOOLEAN
  PROVE  EndOfFile(s, ok) \in Session /\ EndOfFile(s, ok).socket = FALSE
<1> DEFINE w == Written(s, ok)
           next == IF s.state = "ESTABLISHED" THEN "FIN_WAIT1" ELSE "LAST_ACK"
           fin == IF ok THEN [w EXCEPT !.local_seq = @ + 1, !.state = next] ELSE w
           e == IF s.forward = {} THEN fin ELSE write_rst(s)
<1>1. EndOfFile(s, ok) = [e EXCEPT !.socket = FALSE]
  BY DEF EndOfFile
<1>2. w \in Session /\ next \in States
  BY WrittenType DEF States
<1> HIDE DEF w, next
<1>3. w.local_seq + 1 \in Nat
  BY <1>2 DEF Session
<1>4. fin \in Session
  <2>1. [w EXCEPT !.local_seq = w.local_seq + 1, !.state = next] \in Session
    BY <1>2, <1>3 DEF Session
  <2>2. [w EXCEPT !.local_seq = @ + 1, !.state = next]
          = [w EXCEPT !.local_seq = w.local_seq + 1, !.state = next]
    BY <1>2 DEF Session
  <2>3. QED
    BY <1>2, <2>1, <2>2
<1> HIDE DEF fin
<1>5. e \in Session
  BY <1>4, WriteRst
<1> HIDE DEF e
<1>6. QED
  BY <1>1, <1>5 DEF Session

\* Writing received data to the app keeps the session's type and socket.
LEMMA DataWrittenType ==
  ASSUME NEW s \in Session, NEW n \in Nat, NEW ok \in BOOLEAN
  PROVE  /\ DataWritten(s, n, ok) \in Session
         /\ DataWritten(s, n, ok).socket = s.socket
         /\ DataWritten(s, n, ok).state \in {s.state, "CLOSING"}
<1> DEFINE w == Written(s, ok)
<1>1. w \in Session /\ w.socket = s.socket /\ w.state \in {s.state, "CLOSING"}
  BY WrittenType
<1>2. DataWritten(s, n, ok)
        = IF ok THEN [w EXCEPT !.local_seq = @ + n, !.unconfirmed = @ + 1] ELSE w
  BY DEF DataWritten
<1> HIDE DEF w
<1>3. w.local_seq + n \in Nat /\ w.unconfirmed + 1 \in Nat
  <2>1. w.local_seq \in Nat /\ w.unconfirmed \in Nat
    BY <1>1 DEF Session
  <2>2. QED
    BY <2>1
<1>4. CASE ok
  <2>1. DataWritten(s, n, ok) = [w EXCEPT !.local_seq = w.local_seq + n,
                                          !.unconfirmed = w.unconfirmed + 1]
    BY <1>1, <1>2, <1>4 DEF Session
  <2>2. QED
    BY <1>1, <1>3, <2>1 DEF Session
<1>5. CASE ~ok
  BY <1>1, <1>2, <1>5
<1>6. QED
  BY <1>4, <1>5

\* Reading from the socket keeps the invariant: its end closes the descriptor.
LEMMA ReceiveInv ==
  ASSUME Inv, Receive
  PROVE  Inv'
<1> USE InvTypes
<1>1. /\ pc = "receive" /\ t.socket /\ t.state \notin Released
      /\ pc' = "batch" /\ pending' = {} /\ UNCHANGED <<app, fwd>>
  BY DEF Receive, Inv, SocketReleased, InSocketEvent
<1> DEFINE s == [t EXCEPT !.idle = FALSE]
<1>2. s \in Session /\ s.socket = t.socket /\ s.state = t.state
  BY DEF Session
<1>3. \/ t' = t
      \/ t' = s
      \/ t' = write_rst(s)
      \/ \E ok \in BOOLEAN : t' = EndOfFile(s, ok)
      \/ \E n \in 1..get_send_window(s), ok \in BOOLEAN : t' = DataWritten(s, n, ok)
  BY DEF Receive
<1> HIDE DEF s
<1>4. get_send_window(s) \in Int
  <2> DEFINE h == (s.unconfirmed + 1) * Header
  <2>1. /\ s.local_seq \in Int /\ s.acked \in Int /\ s.send_window \in Int
        /\ s.unconfirmed + 1 \in Int /\ Header \in Int
    BY <1>2, ConstantsAssumption DEF Session
  <2>2. h \in Int
    <3> DEFINE u == s.unconfirmed + 1
    <3>1. u \in Int
      BY <2>1
    <3> HIDE DEF u
    <3>2. u * Header \in Int
      BY <2>1, <3>1
    <3>3. QED
      BY <3>2 DEF u
  <2>3. get_send_window(s) = IF (s.local_seq - s.acked) + h < s.send_window
                             THEN s.send_window - ((s.local_seq - s.acked) + h)
                             ELSE 0
    BY DEF get_send_window
  <2> HIDE DEF h
  <2>4. QED
    BY <2>1, <2>2, <2>3
<1>5. SUFFICES t' \in Session /\ (t'.state \in Released => ~t'.socket)
  BY <1>1 DEF Inv, TypeOK, SocketReleased, InSocketEvent
<1>6. CASE t' = t \/ t' = s
  BY <1>1, <1>2, <1>6
<1>7. CASE t' = write_rst(s)
  BY <1>1, <1>2, <1>7, WriteRst DEF Released, NONE
<1>8. CASE \E ok \in BOOLEAN : t' = EndOfFile(s, ok)
  BY <1>2, <1>8, EndOfFileType
<1>9. CASE \E n \in 1..get_send_window(s), ok \in BOOLEAN : t' = DataWritten(s, n, ok)
  <2>1. PICK n \in 1..get_send_window(s), ok \in BOOLEAN : t' = DataWritten(s, n, ok)
    BY <1>9
  <2>2. n \in Nat
    BY <1>4
  <2>3. /\ t' \in Session /\ t'.state \in {s.state, "CLOSING"}
    BY <1>2, <2>1, <2>2, DataWrittenType
  <2>4. QED
    BY <1>1, <1>2, <2>3 DEF Released, NONE
<1>10. QED
  BY <1>3, <1>6, <1>7, <1>8, <1>9

(***************************************************************************)
(* The theorems.                                                           *)
(***************************************************************************)

\* Every step of the event loop keeps the invariant.
LEMMA NextInv == Inv /\ [Next]_vars => Inv'
<1> SUFFICES ASSUME Inv, [Next]_vars PROVE Inv'
  OBVIOUS
<1>1. CASE UNCHANGED vars
  BY <1>1 DEF Inv, TypeOK, SocketReleased, vars
<1>2. CASE EndBatch
  BY <1>2, InvTypes, KeepsSocket
     DEF EndBatch, PcType, InSocketEvent, Inv, SocketReleased
<1>3. CASE Tick
  <2>1. t' = [t EXCEPT !.idle = TRUE] /\ UNCHANGED <<app, pc, pending, fwd>>
    BY <1>3 DEF Tick
  <2>2. t' \in Session /\ t'.socket = t.socket /\ t'.state = t.state
    BY <2>1, InvTypes DEF Session
  <2>3. QED
    BY <2>1, <2>2, InvTypes, KeepsSocket DEF Inv, SocketReleased
<1>4. CASE CheckTcpSocket
  BY <1>4, ConnectInv, ForwardInv, AcknowledgeInv, ReceiveInv DEF CheckTcpSocket
<1>5. QED
  BY <1>1, <1>2, <1>3, <1>4, MonitorInv, CheckInv, HandleTcpInv DEF Next

\* Every handler of the session keeps the fields of struct tcp_session in their
\* types, for every stream, window and header size.
THEOREM TypeCorrect == Spec => []TypeOK
<1>1. Spec => []Inv
  BY InitInv, NextInv, PTL DEF Spec
<1>2. Inv => TypeOK
  BY DEF Inv
<1>3. QED
  BY <1>1, <1>2, PTL

\* check_tcp_session never frees a session whose descriptor is open, and
\* check_tcp_socket never uses a closed descriptor, whatever the order of
\* packets, socket events, timeouts and failing calls.
THEOREM SocketSafety == Spec => []SocketReleased
<1>1. Spec => []Inv
  BY InitInv, NextInv, PTL DEF Spec
<1>2. Inv => SocketReleased
  BY DEF Inv
<1>3. QED
  BY <1>1, <1>2, PTL

=============================================================================
