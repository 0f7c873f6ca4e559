----------------------------- MODULE SessionList -----------------------------
(***************************************************************************)
(* The session list of the native engine: the event loop of session.c with *)
(* the UDP and ICMP sessions (udp.c, icmp.c), and TCP sessions as far as   *)
(* the list sees them (TcpSession models their inside).                    *)
(*                                                                         *)
(* A turn of the loop counts the sessions, checks them (or skips that),    *)
(* waits in epoll_wait and handles one batch of events: the tun device, of *)
(* which at most TunYield packets are read, and the sessions' sockets.     *)
(*                                                                         *)
(* A flow is what a packet is matched by: protocol, addresses and ports    *)
(* (for ICMP the addresses).  The age of a session stands for now - time:  *)
(* 0 is the current second, 2 is beyond every timeout, 1 lies between.     *)
(***************************************************************************)
EXTENDS Naturals, Sequences, FiniteSets, Positions

CONSTANTS
  UdpFlows, IcmpFlows, TcpFlows,
  DnsFlows,     \* UDP flows to port 53
  DhcpFlows,    \* UDP flows from port 68 or to port 67
  NoFlow,       \* a UDP flow that no packet has
  EchoIds,      \* ids of the apps' echo requests (0 stands for none)
  Ptrs,         \* bound: the addresses ng_malloc returns for sessions
  MaxSessions,  \* maxsessions
  TunYield,     \* TUN_YIELD
  Exits         \* BOOLEAN: the loop may be stopped or end with an error

ASSUME ListAssumption ==
  /\ UdpFlows \cap (IcmpFlows \cup TcpFlows) = {} /\ IcmpFlows \cap TcpFlows = {}
  /\ DnsFlows \subseteq UdpFlows /\ DhcpFlows \subseteq UdpFlows
  /\ NoFlow \notin UdpFlows \cup IcmpFlows \cup TcpFlows
  /\ EchoIds \subseteq Nat \ {0} /\ IsFiniteSet(Ptrs) /\ NoFlow \notin Ptrs
  /\ MaxSessions \in Nat \ {0} /\ TunYield \in Nat \ {0} /\ Exits \in BOOLEAN

VARIABLES
  list,      \* ctx->ng_session, the newest session first
  epoll,     \* the kernel's epoll set: data.ptr of the registered sockets
  ready,     \* what epoll_wait returned and the batch has not yet handled
  room,      \* packets the loop over check_tun may still read
  sessions,  \* the count of the current turn
  pc,        \* position of the loop: down, count, check, poll, batch
  stopping,  \* ctx->stopping
  answer     \* the last echo reply written to the tun device

vars == <<list, epoll, ready, room, sessions, pc, stopping, answer>>
kernel == <<epoll, answer>>
loop == <<sessions, pc, stopping>>

Flows == UdpFlows \cup IcmpFlows \cup TcpFlows
Tun == [ptr |-> NoFlow, kind |-> "in"]
NoAnswer == [of |-> 0, as |-> 0]

(***************************************************************************)
(* Sessions.  UDP: ACTIVE, FINISHING, CLOSED or BLOCKED.  ICMP: ACTIVE, or *)
(* FINISHING when stop is set.  TCP: CLOSING is FINISHING, CLOSE is        *)
(* CLOSED, every other state is ACTIVE.                                    *)
(***************************************************************************)
Session(ptr, flow, state) ==
  [ptr |-> ptr, flow |-> flow, state |-> state, socket |-> state # "BLOCKED",
   age |-> 0, id |-> 0, echo |-> {}]

PtrsOf(l) == {l[i].ptr : i \in DOMAIN l}
FreePtrs == Ptrs \ PtrsOf(list)

Touch(e) == [e EXCEPT !.age = 0]
\* The age of a finishing session is not looked at.
Finish(e) == [e EXCEPT !.state = "FINISHING", !.age = 0]

Active(l) == {i \in DOMAIN l : l[i].state = "ACTIVE"}

(***************************************************************************)
(* The checks of a turn.  At the limit a timeout is zero, above it may be  *)
(* negative; below it is scaled with the number of sessions.               *)
(***************************************************************************)
MustTimeOut(e) == e.age = 2 \/ (e.age = 1 /\ sessions >= MaxSessions)
MayTimeOut(e) == e.age >= 1 \/ sessions > MaxSessions

\* Mutant: the descriptor of a stopped ICMP session is left open.
CloseSession_icmp_open(e) ==
  IF e.state # "FINISHING" THEN e
  ELSE [e EXCEPT !.state = "CLOSED", !.age = 0, !.socket = e.flow \in IcmpFlows]

\* A finishing session gives up its socket and lingers.
CloseSession(e) ==
  IF e.state # "FINISHING" THEN e
  ELSE [e EXCEPT !.state = "CLOSED", !.age = 0, !.socket = FALSE]

check_session(e, timedOut) ==
  CloseSession(IF timedOut THEN Finish(e) ELSE e)

\* An ICMP session does not linger.
Deleted(e) ==
  \/ e.state = "CLOSED" /\ e.flow \in IcmpFlows
  \/ e.state \in {"CLOSED", "BLOCKED"} /\ e.age = 2

\* close() takes a socket out of the epoll set.
CheckSessions ==
  /\ pc = "check"
  /\ \E T \in SUBSET Active(list) :
       /\ \A i \in Active(list) :
            /\ i \in T => MayTimeOut(list[i])
            /\ MustTimeOut(list[i]) => i \in T
       /\ LET after  == [i \in DOMAIN list |-> check_session(list[i], i \in T)]
              closed == {list[i].ptr : i \in {j \in DOMAIN list :
                                                list[j].socket /\ ~after[j].socket}}
          IN  /\ list' = Keep(after, {i \in DOMAIN after : ~Deleted(after[i])})
              /\ epoll' = epoll \ closed
  /\ pc' = "poll"
  /\ UNCHANGED <<ready, room, sessions, stopping, answer>>

\* Less than EPOLL_MIN_CHECK since the last check.
SkipChecks ==
  /\ pc = "check" /\ pc' = "poll"
  /\ UNCHANGED <<list, kernel, ready, room, sessions, stopping>>

CountSessions ==
  /\ pc = "count" /\ ~stopping
  /\ sessions' = Cardinality(Active(list))
  /\ pc' = "check"
  /\ UNCHANGED <<list, kernel, ready, room, stopping>>

\* epoll_wait: any of the registered sockets and the tun device.
Poll ==
  /\ pc = "poll"
  /\ \E E \in SUBSET ([ptr : epoll, kind : {"in", "err"}] \cup {Tun}) :
       /\ \A p \in epoll : Cardinality({e \in E : e.ptr = p}) <= 1
       /\ ready' = E
  /\ pc' = "batch"
  /\ UNCHANGED <<list, kernel, room, sessions, stopping>>

(***************************************************************************)
(* Packets of the tun device.                                              *)
(***************************************************************************)
\* Mutant: one packet more.
ReadTun_one_more ==
  /\ pc = "batch" /\ room = 0 /\ Tun \in ready
  /\ ready' = ready \ {Tun} /\ room' = TunYield + 1
  /\ UNCHANGED <<list, kernel, loop>>

ReadTun ==
  /\ pc = "batch" /\ room = 0 /\ Tun \in ready
  /\ ready' = ready \ {Tun} /\ room' = TunYield
  /\ UNCHANGED <<list, kernel, loop>>

\* The tun device is not readable any more, or the loop is being stopped.
LeaveTun ==
  /\ room > 0 /\ room' = 0
  /\ UNCHANGED <<list, kernel, ready, loop>>

has_udp_session(f) == f \in DnsFlows \/ \E i \in DOMAIN list : list[i].flow = f

\* Mutant: the limit is not applied to ICMP.
Admitted_icmp(f) ==
  sessions >= MaxSessions => (f \in UdpFlows => has_udp_session(f))

\* The limit on the number of sessions (for TCP: of a SYN).
Admitted(f) ==
  sessions >= MaxSessions => f \in UdpFlows /\ has_udp_session(f)

Packet == room > 0 /\ ~stopping /\ room' = room - 1 /\ UNCHANGED <<ready, answer, loop>>

\* A packet that changes no session: dropped, ignored or refused, or a socket
\* could not be opened for it.
DropPacket == Packet /\ UNCHANGED <<list, epoll>>

\* A new session e at the head of the list; EPOLL_CTL_ADD may fail.
Register(e) ==
  /\ list' = <<e>> \o list
  /\ epoll' \in {epoll \cup {e.ptr}, epoll}

Replace(i, e) ==
  /\ list' = [list EXCEPT ![i] = e]
  /\ UNCHANGED epoll

\* The sessions that may be left when the datagram was sent or sendto failed.
\* The reply to a DHCP request replaces the session's source address.
Forwarded(e) ==
  {Touch(e), Finish(e)} \cup
  (IF e.flow \in DhcpFlows THEN {e, [e EXCEPT !.flow = NoFlow]} ELSE {})

\* Mutant: only active sessions are searched.
MatchingUdp_active(f) == {i \in Active(list) : list[i].flow = f}

\* The search does not look at the state.
MatchingUdp(f) == {i \in DOMAIN list : list[i].flow = f}

\* Mutant: an ignored packet touches the session.
handle_udp_touches(f) ==
  /\ f \in UdpFlows /\ Admitted(f) /\ Packet
  /\ \/ /\ MatchingUdp(f) = {}
        /\ \E p \in FreePtrs : \E e \in Forwarded(Session(p, f, "ACTIVE")) : Register(e)
     \/ /\ MatchingUdp(f) # {}
        /\ LET i == First(MatchingUdp(f)) IN Replace(i, Touch(list[i]))

\* A packet of a session that is not active is ignored (DropPacket).
handle_udp(f) ==
  /\ f \in UdpFlows /\ Admitted(f) /\ Packet
  /\ \/ /\ MatchingUdp(f) = {}
        /\ \E p \in FreePtrs : \E e \in Forwarded(Session(p, f, "ACTIVE")) : Register(e)
     \/ /\ MatchingUdp(f) # {}
        /\ LET i == First(MatchingUdp(f))
           IN  /\ list[i].state = "ACTIVE"
               /\ \E e \in Forwarded(list[i]) : Replace(i, e)

\* A packet that is not allowed: a new session for each.
block_udp(f) ==
  /\ f \in UdpFlows /\ Admitted(f) /\ Packet
  /\ \E p \in FreePtrs : list' = <<Session(p, f, "BLOCKED")>> \o list
  /\ UNCHANGED epoll

\* The search skips sessions that are stopped.
handle_icmp(f, id) ==
  /\ f \in IcmpFlows /\ Admitted(f) /\ Packet
  /\ LET matching == {i \in Active(list) : list[i].flow = f}
         sent(e) == {Touch([e EXCEPT !.echo = @ \cup {id}]), Finish(e)}
     IN  \/ /\ matching = {}
            /\ \E p \in FreePtrs :
                 \E e \in sent([Session(p, f, "ACTIVE") EXCEPT !.id = id]) : Register(e)
         \/ /\ matching # {}
            /\ \E e \in sent(list[First(matching)]) : Replace(First(matching), e)

\* A SYN of an unknown flow; a session that is not allowed is reset at once.
\* Any other segment leaves the session open or closes it.
handle_tcp(f) ==
  /\ f \in TcpFlows /\ Packet
  /\ LET matching == {i \in DOMAIN list : list[i].flow = f}
         left(e) == {Touch(e), Finish(e)}
     IN  \/ /\ matching = {} /\ Admitted(f)
            /\ \E p \in FreePtrs : \E e \in left(Session(p, f, "ACTIVE")) : Register(e)
         \/ \E i \in matching :
              list[i].state = "ACTIVE" /\ \E e \in left(list[i]) : Replace(i, e)

(***************************************************************************)
(* Events of sockets: ev is handled, the session i becomes e.              *)
(***************************************************************************)
Handle(ev, i) ==
  /\ pc = "batch" /\ room = 0 /\ ev \in ready \ {Tun}
  /\ i \in DOMAIN list /\ list[i].ptr = ev.ptr
  /\ ready' = ready \ {ev}
  /\ UNCHANGED <<room, loop>>

\* The loop calls check_udp_socket only without an error; an answer ends a DNS
\* session, a failure any session.
check_udp_socket(ev, i) ==
  /\ Handle(ev, i) /\ list[i].flow \in UdpFlows \cup {NoFlow}
  /\ \/ UNCHANGED <<list, epoll>>
     \/ /\ ev.kind = "in" /\ ~stopping
        /\ \E e \in {Touch(list[i]), Finish(list[i])} : Replace(i, e)
  /\ UNCHANGED answer

\* A reply is written with the id of the session.
check_icmp_socket(ev, i) ==
  /\ Handle(ev, i) /\ list[i].flow \in IcmpFlows
  /\ \/ Replace(i, Finish(list[i])) /\ UNCHANGED answer
     \/ /\ ev.kind = "in" /\ Replace(i, Touch(list[i])) /\ UNCHANGED answer
     \/ /\ ev.kind = "in"
        /\ \E r \in list[i].echo :
             /\ answer' = [of |-> r, as |-> list[i].id]
             /\ Replace(i, Touch([list[i] EXCEPT !.echo = @ \ {r}]))

\* The session goes on, is closed, or its socket is (at the end of the stream).
check_tcp_socket(ev, i) ==
  /\ Handle(ev, i) /\ list[i].flow \in TcpFlows
  /\ \/ \E e \in {list[i], Touch(list[i]), Finish(list[i])} :
          Replace(i, e)
     \/ /\ list[i].state = "ACTIVE"
        /\ list' = [list EXCEPT ![i] = [Touch(list[i]) EXCEPT !.socket = FALSE]]
        /\ epoll' = epoll \ {ev.ptr}
  /\ UNCHANGED answer

EndBatch ==
  /\ pc = "batch" /\ room = 0 /\ ready = {}
  /\ pc' = "count" /\ answer' = NoAnswer
  /\ UNCHANGED <<list, epoll, ready, room, sessions, stopping>>

(***************************************************************************)
(* Start and end of the loop.                                              *)
(***************************************************************************)
\* Mutant: check_allowed looks at every session.
Disallowed_any(e) == [e EXCEPT !.state = "FINISHING"]

Disallowed(e) == IF e.state = "ACTIVE" THEN Finish(e) ELSE e

\* check_allowed ends sessions that lost their permission (D) and forgets the
\* blocked ones; the epoll set is a new one.
StartLoop ==
  /\ pc = "down" /\ ~stopping
  /\ \E D \in SUBSET DOMAIN list :
       LET after == [i \in DOMAIN list |-> IF i \in D THEN Disallowed(list[i]) ELSE list[i]]
       IN  list' = Keep(after, {i \in DOMAIN after : after[i].state # "BLOCKED"})
  /\ epoll' = {} /\ pc' = "count"
  /\ UNCHANGED <<ready, room, sessions, stopping, answer>>

\* jni_stop.
Stop ==
  /\ Exits /\ pc # "down" /\ stopping' = TRUE
  /\ UNCHANGED <<list, kernel, ready, room, sessions, pc>>

Leave ==
  /\ pc' = "down" /\ epoll' = {} /\ ready' = {} /\ room' = 0 /\ answer' = NoAnswer
  /\ UNCHANGED <<list, sessions, stopping>>

StopLoop == pc = "count" /\ stopping /\ Leave

\* epoll_wait fails, or the tun device does: the other events are dropped.
FailLoop == Exits /\ (pc = "poll" \/ room > 0) /\ Leave

\* jni_clear, after the tunnel thread was joined; jni_start resets stopping.
Clear ==
  /\ pc = "down" /\ (list # <<>> \/ stopping)
  /\ list' = <<>> /\ stopping' = FALSE
  /\ UNCHANGED <<kernel, ready, room, sessions, pc>>

\* Time passes.
Tick ==
  /\ \E i \in DOMAIN list : list[i].age < 2 /\ list[i].state # "FINISHING"
  /\ list' = [i \in DOMAIN list |->
                [list[i] EXCEPT !.age = IF @ < 2 /\ list[i].state # "FINISHING"
                                        THEN @ + 1 ELSE @]]
  /\ UNCHANGED <<kernel, ready, room, loop>>

Init ==
  /\ list = <<>> /\ epoll = {} /\ ready = {} /\ room = 0
  /\ sessions = 0 /\ pc = "down" /\ stopping = FALSE /\ answer = NoAnswer

HandlePacket ==
  \/ DropPacket
  \/ \E f \in UdpFlows : handle_udp(f) \/ block_udp(f)
  \/ \E f \in IcmpFlows, id \in EchoIds : handle_icmp(f, id)
  \/ \E f \in TcpFlows : handle_tcp(f)

HandleEvent ==
  \E ev \in ready, i \in DOMAIN list :
    check_udp_socket(ev, i) \/ check_icmp_socket(ev, i) \/ check_tcp_socket(ev, i)

Next ==
  \/ StartLoop \/ CountSessions \/ CheckSessions \/ SkipChecks \/ Poll
  \/ ReadTun \/ HandlePacket \/ LeaveTun \/ HandleEvent \/ EndBatch
  \/ Stop \/ StopLoop \/ FailLoop \/ Clear \/ Tick

Spec == Init /\ [][Next]_vars

\* The loop keeps turning; the check is skipped only while EPOLL_MIN_CHECK has
\* not passed, so not for ever; and time passes.
Fairness ==
  /\ WF_vars(StartLoop) /\ WF_vars(CountSessions) /\ SF_vars(CheckSessions)
  /\ WF_vars(Poll) /\ WF_vars(ReadTun) /\ WF_vars(LeaveTun \/ HandlePacket)
  /\ WF_vars(HandleEvent) /\ WF_vars(EndBatch) /\ WF_vars(Tick)

FairSpec == Spec /\ Fairness

-----------------------------------------------------------------------------
(***************************************************************************)
(* Properties.                                                             *)
(***************************************************************************)
SessionType ==
  [ptr : Ptrs, flow : Flows \cup {NoFlow},
   state : {"ACTIVE", "FINISHING", "CLOSED", "BLOCKED"}, socket : BOOLEAN,
   age : 0..2, id : EchoIds \cup {0}, echo : SUBSET EchoIds]

\* Types, and a session is in the list once.
TypeOK ==
  /\ list \in Seq(SessionType) /\ Cardinality(PtrsOf(list)) = Len(list)
  /\ epoll \subseteq Ptrs
  /\ ready \subseteq [ptr : Ptrs, kind : {"in", "err"}] \cup {Tun}
  /\ room \in 0..TunYield /\ sessions \in 0..Cardinality(Ptrs)
  /\ pc \in {"down", "count", "check", "poll", "batch"} /\ stopping \in BOOLEAN
  /\ answer \in [of : EchoIds \cup {0}, as : EchoIds \cup {0}]

Owner(p) == {i \in DOMAIN list : list[i].ptr = p}

\* data.ptr of a registered socket, and of an event the batch has still to
\* handle, is a session of the list that owns a socket: handle_events never
\* dereferences a session that ng_free released.
NoDanglingEvent ==
  /\ \A p \in epoll : \E i \in Owner(p) : list[i].socket
  /\ \A ev \in ready \ {Tun} : \E i \in Owner(ev.ptr) : list[i].socket

\* A UDP or ICMP session owns a socket exactly until it is closed: neither
\* check_udp_session nor check_icmp_session closes descriptor -1.
SocketOwned ==
  \A i \in DOMAIN list :
    list[i].flow \notin TcpFlows =>
      (list[i].socket <=> list[i].state \in {"ACTIVE", "FINISHING"})

\* handle_udp opens no second socket for a flow that has one, though blocked
\* sessions of the same flow are put in front of the one it must find.
OneSocketPerFlow ==
  \A i, j \in DOMAIN list :
    list[i].flow = list[j].flow /\ list[i].flow \in UdpFlows
      /\ list[i].socket /\ list[j].socket => i = j

\* The limit of handle_ip is checked against the count made before the batch:
\* it is exceeded by at most the packets of one batch, and by DNS.
SessionBound ==
  Cardinality({i \in Active(list) : list[i].flow \notin DnsFlows})
    < MaxSessions + TunYield

\* A closed session hides its flow (handle_udp ignores the packets), but not
\* for ever, however often the app sends: ignored packets do not touch it.
ShadowEnds ==
  \A f \in UdpFlows :
    (\E i \in DOMAIN list : list[i].flow = f /\ list[i].state = "CLOSED")
      ~> ~(\E i \in DOMAIN list : list[i].flow = f /\ list[i].state = "CLOSED")

\* An echo reply gets the id of the request it answers.  False of the code with
\* two ids in EchoIds: handle_icmp stores the id of the first request only.
EchoIdRestored == answer.of = answer.as

=============================================================================
