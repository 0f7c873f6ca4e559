----------------------------- MODULE TcpSession -----------------------------
(***************************************************************************)
(* One TCP session of the native engine (jni/netguard/tcp.c): the engine   *)
(* terminates the app's connection on the tun device and carries its bytes *)
(* over a socket of its own.  The event loop (session.c, handle_events)    *)
(* runs the handlers in one thread, in the order of the variable pc:       *)
(*                                                                         *)
(*   monitor  monitor_tcp_session computes the epoll interest              *)
(*   check    check_tcp_session, at most every EPOLL_MIN_CHECK ms          *)
(*   batch    the events epoll_wait returned: packets of the tun device    *)
(*            (handle_tcp) and one event of the socket (check_tcp_socket)  *)
(*   forward, ack, receive   the three parts of check_tcp_socket           *)
(*                                                                         *)
(* Sequence numbers are offsets: remote_seq from the app's initial number  *)
(* (SYN 0, data bytes 1, 2, ...), local_seq from the engine's.  A byte of  *)
(* the app's stream is represented by its offset.  The forward queue, a    *)
(* list ordered by seq without duplicates, is the set of its segments.     *)
(* Time is abstracted to one bit, idle: "time + timeout < now" for the     *)
(* timeout of the current state.                                           *)
(***************************************************************************)
EXTENDS Integers, Sequences

CONSTANTS
  Proxy,      \* BOOLEAN: a SOCKS5 proxy is configured (jni_socks5)
  Resegment,  \* BOOLEAN: the app may cut retransmissions differently
  SynData,    \* BOOLEAN: the app may send data with its SYN
  MaxSend,    \* bound: bytes of the app's stream
  MaxRecv,    \* bound: bytes of the server's stream
  Windows,    \* receive windows the app may advertise
  Header      \* maximum header size get_send_window reserves per packet

ASSUME ConstantsAssumption ==
  /\ Proxy \in BOOLEAN /\ Resegment \in BOOLEAN /\ SynData \in BOOLEAN
  /\ MaxSend \in Nat /\ MaxRecv \in Nat
  /\ Windows \subseteq Nat
  /\ Header \in Nat \ {0}

VARIABLES
  t,        \* the session: struct ng_session with its struct tcp_session
  app,      \* the app's TCP connection, as far as it determines its packets
  pc,       \* the event loop's position
  pending,  \* events of the session's socket epoll_wait returned
  fwd       \* local variable of check_tcp_socket: something was forwarded

vars == <<t, app, pc, pending, fwd>>

NONE == "NONE"  \* not in the session list (before the SYN, after deletion)

States == {NONE, "LISTEN", "SYN_RECV", "ESTABLISHED", "CLOSE_WAIT",
           "FIN_WAIT1", "LAST_ACK", "CLOSING", "CLOSE"}

\* "ZERO" is the value 0 a failed handshake with the proxy leaves behind.
Socks5 == {"NONE", "HELLO", "AUTH", "CONNECT", "CONNECTED", "ZERO"}

Events == {"IN", "OUT", "ERR", "HUP"}

\* A queued segment; data is the offset of its first byte in the stream.
Segment == [seq : Nat, len : Nat, sent : Nat, data : Nat]

Larger(a, b) == IF a > b THEN a ELSE b

(***************************************************************************)
(* Segments written to the app.  ok is the outcome of writing to the tun   *)
(* device; confirmed remembers the highest acknowledgement written.        *)
(***************************************************************************)
Written(s, ok) ==
  IF ok THEN [s EXCEPT !.confirmed = Larger(@, s.remote_seq)]
        ELSE [s EXCEPT !.state = "CLOSING"]

write_rst(s) ==
  [s EXCEPT !.remote_seq = IF s.state = "LISTEN" THEN @ + 1 ELSE @,
            !.state = IF s.state = "CLOSE" THEN "CLOSE" ELSE "CLOSING"]

\* Mutant: bytes in flight are not subtracted.
get_send_window_ignores_flight(s) ==
  LET behind == (s.unconfirmed + 1) * Header
  IN  IF behind < s.send_window THEN s.send_window - behind ELSE 0

(***************************************************************************)
(* Bytes the app's window still allows to be written to it.                *)
(***************************************************************************)
get_send_window(s) ==
  LET behind == (s.local_seq - s.acked) + (s.unconfirmed + 1) * Header
  IN  IF behind < s.send_window THEN s.send_window - behind ELSE 0

(***************************************************************************)
(* The forward queue.                                                      *)
(***************************************************************************)
SentOf(s, seq) ==
  IF \E g \in s.forward : g.seq = seq
  THEN (CHOOSE g \in s.forward : g.seq = seq).sent
  ELSE 0

\* Mutant: a replaced segment is sent from its first byte again.
queue_tcp_resends(s, seq, len, data) ==
  IF seq < s.remote_seq
  THEN s
  ELSE [s EXCEPT !.forward =
          {g \in @ : g.seq # seq} \cup
          {[seq |-> seq, len |-> len, sent |-> 0, data |-> data]}]

\* A segment with the seq of a queued one replaces its data, not its sent.
queue_tcp(s, seq, len, data) ==
  IF seq < s.remote_seq
  THEN s
  ELSE [s EXCEPT !.forward =
          {g \in @ : g.seq # seq} \cup
          {[seq |-> seq, len |-> len, sent |-> SentOf(s, seq), data |-> data]}]

\* Mutant: the rest of a partly sent head is not ready.
HeadReady_unsent(s, g) ==
  /\ g \in s.forward
  /\ g.seq = s.remote_seq
  /\ \A h \in s.forward : g.seq <= h.seq
  /\ g.sent = 0

\* g is the head of the queue and continues the forwarded stream.  A head of
\* which more is sent than it holds has an unsigned rest that never fits.
HeadReady(s, g) ==
  /\ g \in s.forward
  /\ g.seq = s.remote_seq
  /\ \A h \in s.forward : g.seq <= h.seq
  /\ g.sent <= g.len

(***************************************************************************)
(* The app (external): packets a correct TCP stack sends in order.         *)
(***************************************************************************)
Packet(flags, seq, len, ackno) ==
  [flags |-> flags, seq |-> seq, len |-> len, ack |-> ackno]

NewConnection == [sent |-> 0, fin |-> FALSE, segs |-> {},
                  acked |-> 0, edge |-> 0]

SynPackets == {Packet({"SYN"}, 0, n, 0) : n \in 0..(IF SynData THEN 1 ELSE 0)}

\* Segments <<seq, length, FIN bit>>: the bare acknowledgement, new data with or
\* without FIN, a FIN of its own, and what was sent before.
NewSegments ==
  IF app.fin THEN {}
  ELSE {<<app.sent + 1, n, f>> : n \in 0..(MaxSend - app.sent), f \in {0, 1}}

OldSegments ==
  IF Resegment
  THEN {g \in (1..(app.sent + 1)) \X (0..app.sent) \X {0, 1} :
          /\ g[1] + g[2] <= app.sent + 1
          /\ g[3] = 1 => app.fin /\ g[1] + g[2] = app.sent + 1}
  ELSE app.segs

AppSegments ==
  {<<app.sent + 1, 0, 0>>} \cup NewSegments \cup OldSegments

DataPackets ==
  {Packet(IF g[3] = 1 THEN {"ACK", "FIN"} ELSE {"ACK"}, g[1], g[2], a) :
     g \in AppSegments, a \in Larger(app.acked, 1)..(t.local_seq)}

\* Packets of an earlier connection with the same addresses and ports.
StrayPackets == {Packet({"RST"}, app.sent + 1, 0, 0),
                 Packet({"ACK"}, app.sent + 1, 0, t.local_seq + 1)}

\* The SYN is repeated until the app has acknowledged the SYN+ACK.
AppPackets ==
  (IF app.acked = 0 THEN SynPackets ELSE {}) \cup
  (IF t.local_seq = 0 THEN {Packet({"RST"}, 1, 0, 0)}
                      ELSE DataPackets \cup StrayPackets)

SegmentOf(p) == <<p.seq, p.len, IF "FIN" \in p.flags THEN 1 ELSE 0>>

Repeatable(p) ==
  IF Resegment \/ p.seq = 0 \/ (p.len = 0 /\ "FIN" \notin p.flags)
  THEN {} ELSE {SegmentOf(p)}

\* The app's side of sending p with window win.  handle_tcp takes the window of
\* every packet: that of a stray one counts as advertised.
AppSends(p, win) ==
  IF p \in StrayPackets
  THEN app' = [app EXCEPT !.edge = Larger(@, Larger(1, app.acked) + win)]
  ELSE app' = [sent  |-> Larger(app.sent, p.seq + p.len - 1),
               fin   |-> app.fin \/ "FIN" \in p.flags,
               segs  |-> app.segs \cup Repeatable(p),
               acked |-> Larger(app.acked, p.ack),
               edge  |-> Larger(app.edge, Larger(1, p.ack) + win)]

(***************************************************************************)
(* handle_tcp: a packet of the app.                                        *)
(***************************************************************************)
Blank(socket) ==
  [state |-> NONE, socket |-> socket, socks5 |-> "NONE",
   remote_seq |-> 0, local_seq |-> 0, acked |-> 0,
   send_window |-> 0, unconfirmed |-> 0, recv_open |-> FALSE,
   forward |-> {}, idle |-> FALSE, ev |-> {}, stream |-> <<>>, confirmed |-> 0]

\* The fields of a session when it is registered; Blank is one not in use.
NewSession(p, win, open) ==
  [Blank(TRUE) EXCEPT
     !.state = "LISTEN", !.send_window = win, !.recv_open = open,
     !.forward = IF p.len = 0 THEN {}
                 ELSE {[seq |-> 0, len |-> p.len, sent |-> 0, data |-> 1]},
     !.ev = {"OUT", "ERR"}]

\* A SYN without a session: open_tcp_socket succeeds, the session is
\* registered, and reset at once when the packet is not allowed.
RegisterSession ==
  /\ pc = "batch" /\ t.state = NONE
  /\ \E p \in SynPackets, win \in Windows, open \in BOOLEAN, allowed \in BOOLEAN :
       LET s == NewSession(p, win, open)
       IN  /\ t' = IF allowed THEN s ELSE write_rst(s)
           /\ app' = [NewConnection EXCEPT !.edge = 1 + win]
  /\ UNCHANGED <<pc, pending, fwd>>

\* A packet for a session of the list.
Receives(p) ==
  /\ pc = "batch" /\ t.state # NONE
  /\ p \in AppPackets
  /\ UNCHANGED <<pc, pending, fwd>>

\* Mutant: the time is set before the state is looked at.
RefusePacket_keeps_alive ==
  \E p \in AppPackets, allowed \in BOOLEAN :
    /\ Receives(p)
    /\ ~allowed \/ t.state \in {"CLOSING", "CLOSE"}
    /\ t' = write_rst([t EXCEPT !.idle = FALSE])
    /\ UNCHANGED app

\* Any packet that is not allowed, and every packet once the session was
\* closed.  The answer resets the app's connection: what it sent no longer
\* counts.
RefusePacket ==
  \E p \in AppPackets, allowed \in BOOLEAN :
    /\ Receives(p)
    /\ ~allowed \/ t.state \in {"CLOSING", "CLOSE"}
    /\ t' = write_rst(t)
    /\ UNCHANGED app

\* Mutant: a repeated SYN sets the time too.
Touched_by_syn(p, win) ==
  [t EXCEPT !.idle = FALSE, !.send_window = win, !.unconfirmed = 0]

Touched(p, win) ==
  [t EXCEPT !.idle = IF "SYN" \in p.flags THEN @ ELSE FALSE,
            !.send_window = win, !.unconfirmed = 0]

\* Data after the socket was closed, or after the app's own FIN.
DataRefused(p) == p.len > 0 /\ (~t.socket \/ t.state = "CLOSE_WAIT")

RefuseData ==
  \E p \in AppPackets, win \in Windows :
    /\ Receives(p)
    /\ t.state \notin {"CLOSING", "CLOSE"}
    /\ DataRefused(p)
    /\ t' = write_rst(Touched(p, win))
    /\ UNCHANGED app

\* The session after its data is queued, for a packet that gets that far.
Accepts(p, win) ==
  /\ Receives(p)
  /\ AppSends(p, win)
  /\ t.state \notin {"CLOSING", "CLOSE"}
  /\ ~DataRefused(p)

Enqueued(p, win) ==
  IF p.len > 0
  THEN queue_tcp(Touched(p, win), p.seq, p.len, IF p.seq = 0 THEN 1 ELSE p.seq)
  ELSE Touched(p, win)

ReceiveRst ==
  \E p \in AppPackets, win \in Windows :
    /\ Accepts(p, win)
    /\ "RST" \in p.flags
    /\ t' = [Enqueued(p, win) EXCEPT !.state = "CLOSING"]

\* The packet acknowledges all that was written to the app.
Current(p) == ~("RST" \in p.flags) /\ ("ACK" \in p.flags => p.ack = t.local_seq)

ReceiveSyn ==
  \E p \in AppPackets, win \in Windows :
    /\ Accepts(p, win) /\ Current(p)
    /\ "SYN" \in p.flags
    /\ t' = Enqueued(p, win)

\* The FIN is confirmed at once, or after the queue is forwarded.
FinConfirmed(s, ok, next) ==
  LET w == Written([s EXCEPT !.remote_seq = @ + 1], ok)
  IN  IF ok THEN [w EXCEPT !.state = next] ELSE w

\* Mutant: the FIN is confirmed without looking at the queue.
ReceiveFin_ignores_queue ==
  \E p \in AppPackets, win \in Windows, ok \in BOOLEAN :
    LET s == Enqueued(p, win)
    IN  /\ Accepts(p, win) /\ Current(p)
        /\ "FIN" \in p.flags
        /\ \/ /\ s.state = "ESTABLISHED"
              /\ t' = FinConfirmed(s, ok, "CLOSE_WAIT")
           \/ /\ s.state = "FIN_WAIT1"
              /\ t' = FinConfirmed(s, ok, "CLOSE")
           \/ /\ s.state \notin {"ESTABLISHED", "FIN_WAIT1"}
              /\ t' = s

ReceiveFin ==
  \E p \in AppPackets, win \in Windows, ok \in BOOLEAN :
    LET s == Enqueued(p, win)
    IN  /\ Accepts(p, win) /\ Current(p)
        /\ "FIN" \in p.flags
        /\ \/ /\ s.state = "ESTABLISHED"
              /\ t' = IF s.forward = {}
                      THEN FinConfirmed(s, ok, "CLOSE_WAIT")
                      ELSE [s EXCEPT !.state = "CLOSE_WAIT"]
           \/ /\ s.state = "FIN_WAIT1"
              /\ t' = FinConfirmed(s, ok, "CLOSE")
           \/ /\ s.state \notin {"ESTABLISHED", "FIN_WAIT1"}
              /\ t' = s

\* Mutant: an acknowledgement establishes the connection whatever its state.
ReceiveAck_any_state ==
  \E p \in AppPackets, win \in Windows :
    /\ Accepts(p, win) /\ Current(p)
    /\ p.flags = {"ACK"}
    /\ t' = [Enqueued(p, win) EXCEPT !.acked = p.ack,
               !.state = IF @ = "LAST_ACK" THEN "CLOSING" ELSE "ESTABLISHED"]

ReceiveAck ==
  \E p \in AppPackets, win \in Windows :
    LET s == [Enqueued(p, win) EXCEPT !.acked = p.ack]
    IN  /\ Accepts(p, win) /\ Current(p)
        /\ p.flags = {"ACK"}
        /\ t' = [s EXCEPT !.state = CASE @ = "SYN_RECV" -> "ESTABLISHED"
                                      [] @ = "LAST_ACK" -> "CLOSING"
                                      [] OTHER -> @]

\* An acknowledgement one short of local_seq is a keep-alive and changes
\* nothing else; an older one only moves acked; its FIN is not looked at.
ReceiveOldAck ==
  \E p \in AppPackets, win \in Windows :
    LET s == Enqueued(p, win)
    IN  /\ Accepts(p, win)
        /\ "ACK" \in p.flags /\ p.ack < t.local_seq
        /\ t' = IF p.ack + 1 = t.local_seq THEN s
                ELSE [s EXCEPT !.acked = Larger(@, p.ack)]

ReceiveFutureAck ==
  \E p \in AppPackets, win \in Windows :
    /\ Accepts(p, win)
    /\ "ACK" \in p.flags /\ p.ack > t.local_seq
    /\ t' = write_rst(Enqueued(p, win))

HandleTcp ==
  \/ RegisterSession \/ RefusePacket \/ RefuseData
  \/ ReceiveRst \/ ReceiveSyn \/ ReceiveFin
  \/ ReceiveAck \/ ReceiveOldAck \/ ReceiveFutureAck

(***************************************************************************)
(* monitor_tcp_session: the events epoll is asked for.  fits is the test   *)
(* of the head against the free space of the socket's send buffer.         *)
(***************************************************************************)
Interest(s, fits) ==
  {"ERR"} \cup
  CASE s.state = "LISTEN" -> {IF s.socks5 = "NONE" THEN "OUT" ELSE "IN"}
    [] s.state \in {"ESTABLISHED", "CLOSE_WAIT"} ->
         (IF get_send_window(s) > 0 THEN {"IN"} ELSE {}) \cup
         (IF fits /\ \E g \in s.forward : HeadReady(s, g) THEN {"OUT"} ELSE {})
    [] OTHER -> {}

\* Mutant: remote_seq is not restored after the keep-alive.
MonitorSession_forgets_restore ==
  /\ pc = "monitor" /\ t.state # NONE /\ t.socket
  /\ t' = IF t.state = "ESTABLISHED" /\ get_send_window(t) = 0
          THEN [t EXCEPT !.remote_seq = @ - 1]
          ELSE [t EXCEPT !.ev = Interest(t, TRUE)]
  /\ pc' = "check"
  /\ UNCHANGED <<app, pending, fwd>>

\* With a closed send window a keep-alive may be due; it may fail, and so may
\* the change of the epoll registration, which leaves the old one in place.
MonitorSession ==
  /\ pc = "monitor" /\ t.state # NONE /\ t.socket
  /\ \E fits \in BOOLEAN :
       LET events == Interest(t, fits)
       IN  \/ t' = [t EXCEPT !.ev = events]
           \/ /\ t.state \in {"ESTABLISHED", "CLOSE_WAIT"}
              /\ get_send_window(t) = 0
              /\ t' = [t EXCEPT !.ev = events, !.state = "CLOSING"]
           \/ /\ events # t.ev
              /\ t' = [t EXCEPT !.state = "CLOSING"]
  /\ pc' = "check"
  /\ UNCHANGED <<app, pending, fwd>>

MonitorNothing ==
  /\ pc = "monitor" /\ ~(t.state # NONE /\ t.socket)
  /\ pc' = "check"
  /\ UNCHANGED <<t, app, pending, fwd>>

(***************************************************************************)
(* check_tcp_session: timeouts, closing, and deletion from the list.       *)
(***************************************************************************)
TimedOut(s) ==
  IF s.state \in {"CLOSING", "CLOSE"} \/ ~s.idle THEN s
  ELSE IF s.state = "LISTEN" THEN [s EXCEPT !.state = "CLOSING"]
  ELSE write_rst(s)

\* Mutant: the descriptor is not closed.
Closed_leaks(s) ==
  IF s.state = "CLOSING"
  THEN [s EXCEPT !.idle = FALSE, !.state = "CLOSE"]
  ELSE s

Closed(s) ==
  IF s.state = "CLOSING"
  THEN [s EXCEPT !.socket = FALSE, !.idle = FALSE, !.state = "CLOSE"]
  ELSE s

\* The memory is freed; a descriptor still open would be lost.
Deleted(s) ==
  IF s.state = "CLOSE" /\ s.idle THEN Blank(s.socket) ELSE s

check_tcp_session(s) == Deleted(Closed(TimedOut(s)))

\* epoll_wait: any of the events asked for, or a hang-up, or none.
Polled(s) ==
  IF s.state # NONE /\ s.socket THEN SUBSET (s.ev \cup {"HUP"}) ELSE {{}}

CheckSession ==
  /\ pc = "check"
  /\ t' = IF t.state = NONE THEN t ELSE check_tcp_session(t)
  /\ pending' \in Polled(t')
  /\ pc' = "batch"
  /\ UNCHANGED <<app, fwd>>

\* Less than EPOLL_MIN_CHECK ms since the last check: it is left out.
SkipCheck ==
  /\ pc = "check"
  /\ pending' \in Polled(t)
  /\ pc' = "batch"
  /\ UNCHANGED <<t, app, fwd>>

(***************************************************************************)
(* check_tcp_socket: an event of the session's socket.                     *)
(***************************************************************************)
SocketError ==
  /\ pc = "batch" /\ "ERR" \in pending
  /\ t' = write_rst([t EXCEPT !.idle = FALSE])
  /\ pending' = {}
  /\ UNCHANGED <<app, pc, fwd>>

\* The replies of the proxy: the next step of the handshake, a refusal or an
\* unexpected message, a failing recv.
ProxyReply(s) ==
  {write_rst(s), write_rst([s EXCEPT !.socks5 = "ZERO"])} \cup
  {[s EXCEPT !.socks5 = n] :
     n \in CASE s.socks5 = "HELLO"   -> {"CONNECT", "AUTH"}
             [] s.socks5 = "AUTH"    -> {"CONNECT"}
             [] s.socks5 = "CONNECT" -> {"CONNECTED"}
             [] OTHER -> {}}

Connecting(s) ==
  CASE s.socks5 = "NONE" /\ "OUT" \in pending ->
         {[s EXCEPT !.socks5 = IF Proxy THEN "HELLO" ELSE "CONNECTED"]}
    [] s.socks5 # "NONE" /\ "IN" \in pending -> ProxyReply(s)
    [] OTHER -> {s}

\* Mutant: a failed SYN+ACK leaves the state.
SynAckWritten_retries(s, ok) ==
  IF ok THEN [s EXCEPT !.remote_seq = @ + 1, !.idle = FALSE,
                       !.local_seq = @ + 1, !.state = "SYN_RECV"]
        ELSE [s EXCEPT !.remote_seq = @ + 1]

SynAckWritten(s, ok) ==
  LET w == Written([s EXCEPT !.remote_seq = @ + 1], ok)
  IN  IF ok THEN [w EXCEPT !.idle = FALSE, !.local_seq = @ + 1,
                           !.state = "SYN_RECV"]
            ELSE w

\* What is sent next depends on socks5 alone, whatever state became.
Answered(s, ok) ==
  CASE s.socks5 \in {"HELLO", "AUTH", "CONNECT"} -> IF ok THEN s ELSE write_rst(s)
    [] s.socks5 = "CONNECTED" -> SynAckWritten(s, ok)
    [] OTHER -> s

SocketConnect ==
  /\ pc = "batch" /\ pending # {} /\ "ERR" \notin pending
  /\ t.state = "LISTEN"
  /\ \E s \in Connecting(t), ok \in BOOLEAN : t' = Answered(s, ok)
  /\ pending' = {}
  /\ UNCHANGED <<app, pc, fwd>>

SocketEvent ==
  /\ pc = "batch" /\ pending # {} /\ "ERR" \notin pending
  /\ t.state # "LISTEN"
  /\ pc' = "forward" /\ fwd' = FALSE
  /\ UNCHANGED <<t, app, pending>>

\* The send loop, one segment a step: all of the rest, or a part of it.
Bytes(seg, n) == [i \in 1..n |-> seg.data + seg.sent + (i - 1)]

ForwardSegment ==
  /\ pc = "forward" /\ "OUT" \in pending
  /\ \E g \in t.forward :
       /\ HeadReady(t, g)
       /\ t' = [t EXCEPT !.stream = @ \o Bytes(g, g.len - g.sent),
                         !.remote_seq = g.seq + g.len,
                         !.forward = @ \ {g}]
  /\ fwd' = TRUE
  /\ UNCHANGED <<app, pc, pending>>

ForwardPart ==
  /\ pc = "forward" /\ "OUT" \in pending
  /\ \E g \in t.forward :
       /\ HeadReady(t, g)
       /\ \E n \in 1..(g.len - g.sent - 1) :
            t' = [t EXCEPT !.stream = @ \o Bytes(g, n),
                           !.forward = (@ \ {g}) \cup {[g EXCEPT !.sent = @ + n]}]
  /\ fwd' = TRUE
  /\ pc' = "ack"
  /\ UNCHANGED <<app, pending>>

\* send fails for good, and resets the connection.
ForwardError ==
  /\ pc = "forward" /\ "OUT" \in pending
  /\ \E g \in t.forward : HeadReady(t, g)
  /\ t' = write_rst(t)
  /\ pc' = "ack"
  /\ UNCHANGED <<app, pending, fwd>>

\* The queue is empty or its head not next, the buffer full, send to be
\* repeated, or the socket not writable.
ForwardEnd ==
  /\ pc = "forward"
  /\ pc' = "ack"
  /\ UNCHANGED <<t, app, pending, fwd>>

\* Forwarded data, or a receive window that opens again, is acknowledged; the
\* FIN of the app is confirmed with the last of its data.
Acknowledge ==
  /\ pc = "ack"
  /\ \E open \in BOOLEAN, ok \in BOOLEAN :
       LET s == [t EXCEPT !.recv_open = open]
           f == IF fwd /\ s.forward = {} /\ s.state = "CLOSE_WAIT"
                THEN [s EXCEPT !.remote_seq = @ + 1] ELSE s
           w == Written(f, ok)
       IN  t' = IF fwd \/ (~t.recv_open /\ open)
                THEN IF ok THEN [w EXCEPT !.idle = FALSE] ELSE w
                ELSE s
  /\ pc' = "receive"
  /\ UNCHANGED <<app, pending, fwd>>

\* Mutant: the queue is not looked at when the server closes.
EndOfFile_ignores_queue(s, ok) ==
  LET w    == Written(s, ok)
      next == IF s.state = "ESTABLISHED" THEN "FIN_WAIT1" ELSE "LAST_ACK"
      fin  == IF ok THEN [w EXCEPT !.local_seq = @ + 1, !.state = next] ELSE w
  IN  [fin EXCEPT !.socket = FALSE]

\* The end of the server's stream.
EndOfFile(s, ok) ==
  LET w    == Written(s, ok)
      next == IF s.state = "ESTABLISHED" THEN "FIN_WAIT1" ELSE "LAST_ACK"
      fin  == IF ok THEN [w EXCEPT !.local_seq = @ + 1, !.state = next] ELSE w
  IN  [(IF s.forward = {} THEN fin ELSE write_rst(s)) EXCEPT !.socket = FALSE]

DataWritten(s, n, ok) ==
  LET w == Written(s, ok)
  IN  IF ok THEN [w EXCEPT !.local_seq = @ + n, !.unconfirmed = @ + 1] ELSE w

Readable ==
  /\ t.state \in {"ESTABLISHED", "CLOSE_WAIT"}
  /\ "IN" \in pending
  /\ get_send_window(t) > 0

Receive ==
  /\ pc = "receive"
  /\ IF Readable
     THEN LET s == [t EXCEPT !.idle = FALSE]
          IN  \/ t' \in {s, write_rst(s)}   \* recv fails, for now or for good
              \/ \E ok \in BOOLEAN : t' = EndOfFile(s, ok)
              \/ \E n \in 1..get_send_window(s), ok \in BOOLEAN :
                   /\ t.local_seq + n <= MaxRecv + 1
                   /\ t' = DataWritten(s, n, ok)
     ELSE t' = t
  /\ pc' = "batch" /\ pending' = {}
  /\ UNCHANGED <<app, fwd>>

CheckTcpSocket ==
  \/ SocketError \/ SocketConnect \/ SocketEvent
  \/ ForwardSegment \/ ForwardPart \/ ForwardError \/ ForwardEnd
  \/ Acknowledge \/ Receive

(***************************************************************************)
(* The event loop.                                                         *)
(***************************************************************************)
EndBatch ==
  /\ pc = "batch" /\ pending = {}
  /\ pc' = "monitor"
  /\ UNCHANGED <<t, app, pending, fwd>>

\* Time passes while the loop waits.
Tick ==
  /\ pc = "batch" /\ t.state # NONE /\ ~t.idle
  /\ t' = [t EXCEPT !.idle = TRUE]
  /\ UNCHANGED <<app, pc, pending, fwd>>

Init ==
  /\ t = Blank(FALSE)
  /\ app = NewConnection
  /\ pc = "monitor"
  /\ pending = {}
  /\ fwd = FALSE

Next ==
  \/ MonitorSession \/ MonitorNothing
  \/ CheckSession \/ SkipCheck
  \/ CheckTcpSocket
  \/ HandleTcp
  \/ EndBatch \/ Tick

Spec == Init /\ [][Next]_vars

(***************************************************************************)
(* Fairness.  The loop never blocks for good: it handles what epoll_wait   *)
(* returned, leaves a batch after TUN_YIELD packets, and checks the        *)
(* sessions again once EPOLL_MIN_CHECK ms are over.  Time passes.          *)
(***************************************************************************)
LoopFairness ==
  /\ WF_vars(MonitorSession \/ MonitorNothing)
  /\ WF_vars(CheckSession \/ SkipCheck)
  /\ SF_vars(CheckSession)
  /\ WF_vars(CheckTcpSocket)
  /\ WF_vars(EndBatch)
  /\ SF_vars(Tick)

FairSpec == Spec /\ LoopFairness

\* A server that keeps reading: the head fits the send buffer, the socket is
\* reported writable and takes the segment, again and again.
MonitorWritable == MonitorSession /\ "OUT" \in t'.ev

PollWritable == (CheckSession \/ SkipCheck) /\ "OUT" \in pending'

ServerFairness ==
  /\ SF_vars(MonitorWritable)
  /\ SF_vars(PollWritable)
  /\ SF_vars(ForwardSegment)

LoopOnlyFairness ==
  /\ WF_vars(MonitorSession \/ MonitorNothing)
  /\ WF_vars(CheckSession \/ SkipCheck)
  /\ WF_vars(CheckTcpSocket)
  /\ WF_vars(EndBatch)

\* Without fairness of Tick: no timeout is needed for the progress below.
ForwardSpec == Spec /\ LoopOnlyFairness /\ ServerFairness

-----------------------------------------------------------------------------
(***************************************************************************)
(* Properties.                                                             *)
(***************************************************************************)
Session ==
  [state : States, socket : BOOLEAN, socks5 : Socks5,
   remote_seq : Nat, local_seq : Nat, acked : Nat,
   send_window : Nat, unconfirmed : Nat, recv_open : BOOLEAN,
   forward : SUBSET Segment, idle : BOOLEAN, ev : SUBSET Events,
   stream : Seq(Nat), confirmed : Nat]

Connection ==
  [sent : Nat, fin : BOOLEAN, segs : SUBSET (Nat \X Nat \X {0, 1}),
   acked : Nat, edge : Nat]

InSocketEvent == {"forward", "ack", "receive"}

Released == {NONE, "FIN_WAIT1", "LAST_ACK", "CLOSE"}

\* Types of the session, the app's connection and the event loop.
TypeOK ==
  /\ t \in Session
  /\ app \in Connection
  /\ pc \in {"monitor", "check", "batch"} \cup InSocketEvent
  /\ pending \subseteq Events
  /\ fwd \in BOOLEAN

\* The states reached through recv's end of file, and the two that follow
\* check_tcp_session's close, hold no descriptor: deletion from the list
\* (session.c, clear and handle_events) never loses an open socket, and no
\* handler runs send or recv on a closed one.
SocketReleased ==
  /\ t.state \in Released => ~t.socket
  /\ pc \in InSocketEvent \/ pending # {} => t.socket

\* The bytes handed to send() are the app's stream from its first byte, in
\* order, each once, however the app cuts its (re)transmissions and wherever
\* send() stops in the middle of a segment.
StreamInOrder ==
  \A i \in 1..Len(t.stream) : t.stream[i] = i

\* An acknowledgement written to the app covers only bytes handed to send(),
\* and the FIN only when all of the stream was (netguard.h: remote_seq holds
\* "confirmed bytes received").
AckedWasForwarded ==
  \/ t.confirmed <= Len(t.stream) + 1
  \/ app.fin /\ Len(t.stream) = app.sent /\ t.confirmed = app.sent + 2

\* Once the server's end is closed no data of the app is left in the queue:
\* FIN_WAIT1 and LAST_ACK end an exchange of which everything was forwarded.
NothingStranded ==
  t.state \in {"FIN_WAIT1", "LAST_ACK"} => t.forward = {}

\* Data written to the app never runs past the right edge of a window the app
\* advertised (the FIN takes one number beyond it).
WindowRespected ==
  t.local_seq <= app.edge + 1

\* The SYN+ACK is written once: between two events no session is still in
\* LISTEN with the handshake over.
SynAckOnce ==
  t.state = "LISTEN" => t.socks5 # "CONNECTED" /\ t.local_seq = 0

\* A session that starts to close is deleted, whatever the app keeps sending:
\* no packet and no event restarts the timer of a closed session.
ClosingIsDeleted == t.state = "CLOSING" ~> t.state = NONE

\* A connection attempt ends, connected or not: repeated SYNs of the app do
\* not extend it.
ConnectEnds == t.state = "LISTEN" ~> t.state # "LISTEN"

Transfer == t.state \in {"ESTABLISHED", "CLOSE_WAIT"}

\* Data that came with the SYN is queued.  It was queued with the SYN's own
\* number, which remote_seq leaves behind with the SYN+ACK: it stays the head of
\* the queue and is never next.
SynDataQueued == \E g \in t.forward : g.seq = 0

\* What the app sent on an open connection is forwarded, or the connection is
\* given up: no order of segments, repeated segments, partial sends and FIN
\* leaves the queue stuck with its head not next.  Two cases are left out, in
\* which the code does get stuck: data in the SYN, and an app that cuts what it
\* repeats differently, whose longer segment overtakes a queued one.
QueuedIsForwarded ==
  (~Resegment /\ Transfer /\ t.forward # {} /\ ~SynDataQueued)
    ~> (~Transfer \/ t.forward = {})

(***************************************************************************)
(* The session seen from outside: the state of the code's connection       *)
(* state machine (netguard.h, RFC 793 names) as a phase of TcpLifecycle.   *)
(***************************************************************************)
Phase ==
  CASE t.state = NONE          -> "none"
    [] t.state = "LISTEN"      -> "connecting"
    [] t.state = "SYN_RECV"    -> "answered"
    [] t.state = "ESTABLISHED" -> "open"
    [] t.state = "CLOSE_WAIT"  -> "appClosed"
    [] t.state = "FIN_WAIT1"   -> "serverClosed"
    [] t.state = "LAST_ACK"    -> "bothClosed"
    [] t.state = "CLOSING"     -> "closing"
    [] t.state = "CLOSE"       -> "closed"

Life == INSTANCE TcpLifecycle
          WITH phase <- Phase, descriptor <- t.socket, delivered <- Len(t.stream)

\* Every run of the handlers is a run of the abstract connection: no packet or
\* event, in any order, reopens a half-closed or closing session, hands a byte
\* to the server before the app confirmed the connection or after the socket was
\* closed, or removes a session that was not closed.
ImplementsLifecycle == Life!Spec

=============================================================================
