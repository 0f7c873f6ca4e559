-------------------------- MODULE SessionListProofs --------------------------
(***************************************************************************)
(* The session list: no event of a batch finds a freed session, a socket   *)
(* has one owner, and the limit of handle_ip holds up to one batch, for    *)
(* every number of flows, sessions and packets.                            *)
(***************************************************************************)
EXTENDS SessionList, PositionProofs, FiniteSetTheorems, TLAPS

(***************************************************************************)
(* Sessions.  A session that is changed keeps its address, gains no socket *)
(* and does not become active again.                                       *)
(***************************************************************************)
Owned(e) ==
  /\ e.socket => e.state \in {"ACTIVE", "FINISHING"}
  /\ e.flow \notin TcpFlows /\ e.state \in {"ACTIVE", "FINISHING"} => e.socket

Becomes(e, r) ==
  /\ r \in SessionType /\ r.ptr = e.ptr
  /\ r.flow = e.flow \/ (e.flow \in DhcpFlows /\ r.flow = NoFlow)
  /\ r.socket => e.socket
  /\ r.state = "ACTIVE" => e.state = "ACTIVE"
  /\ Owned(e) => Owned(r)

\* Flows of one protocol are not of another.
LEMMA FlowFacts ==
  /\ NoFlow \notin TcpFlows /\ NoFlow \notin UdpFlows /\ NoFlow \notin IcmpFlows
  /\ \A f \in UdpFlows : f \notin TcpFlows /\ f \notin IcmpFlows /\ f \in Flows
  /\ \A f \in IcmpFlows : f \notin TcpFlows /\ f \in Flows
  /\ \A f \in TcpFlows : f \in Flows
  /\ DhcpFlows \subseteq UdpFlows /\ DnsFlows \subseteq UdpFlows
  BY ListAssumption DEF Flows

\* Sessions that are touched, finished or reach a new age.
LEMMA TouchFacts ==
  ASSUME NEW e \in SessionType
  PROVE  /\ Becomes(e, e)
         /\ Becomes(e, Touch(e)) /\ Touch(e).socket = e.socket
         /\ Finish(e) \in SessionType /\ Finish(e).socket = e.socket
         /\ e.socket \/ e.state = "ACTIVE" => Becomes(e, Finish(e))
         /\ \A a \in 0..2 : /\ Becomes(e, [e EXCEPT !.age = a])
                            /\ [e EXCEPT !.age = a].socket = e.socket
<1>1. Becomes(e, e)
  BY DEF Becomes
<1>2. Becomes(e, Touch(e)) /\ Touch(e).socket = e.socket
  BY DEF Becomes, Touch, SessionType, Owned
<1>3. /\ Finish(e) \in SessionType /\ Finish(e).socket = e.socket
      /\ Finish(e).ptr = e.ptr /\ Finish(e).flow = e.flow
      /\ Finish(e).state = "FINISHING"
  <2> DEFINE u == "FINISHING"
             z == 0
  <2>1. u \in {"ACTIVE", "FINISHING", "CLOSED", "BLOCKED"} /\ z \in 0..2
    OBVIOUS
  <2>2. Finish(e) = [e EXCEPT !.state = u, !.age = z]
    BY DEF Finish
  <2> HIDE DEF u, z
  <2>3. [e EXCEPT !.state = u, !.age = z] \in SessionType
    BY <2>1 DEF SessionType
  <2>4. LET f == [e EXCEPT !.state = u, !.age = z]
        IN  f.socket = e.socket /\ f.ptr = e.ptr /\ f.flow = e.flow /\ f.state = u
    BY DEF SessionType
  <2>5. QED
    BY <2>2, <2>3, <2>4 DEF u
<1>4. e.socket \/ e.state = "ACTIVE" => Becomes(e, Finish(e))
  BY <1>3 DEF Becomes, Owned
<1>5. ASSUME NEW a \in 0..2
      PROVE  /\ Becomes(e, [e EXCEPT !.age = a])
             /\ [e EXCEPT !.age = a].socket = e.socket
  BY DEF Becomes, SessionType, Owned
<1>6. QED
  BY <1>1, <1>2, <1>3, <1>4, <1>5

\* A change can be followed by another.
LEMMA BecomesChain ==
  ASSUME NEW e \in SessionType, NEW r \in SessionType, NEW s \in SessionType,
         Becomes(e, r), Becomes(r, s)
  PROVE  Becomes(e, s)
  BY FlowFacts DEF Becomes

\* The check of a session: only a timeout or a finished session closes it.
LEMMA CheckFacts ==
  ASSUME NEW e \in SessionType, NEW b \in BOOLEAN, b => e.state = "ACTIVE"
  PROVE  LET r == check_session(e, b)
         IN  Becomes(e, r) /\ (Owned(r) /\ r.socket => ~Deleted(r))
<1> DEFINE s == IF b THEN Finish(e) ELSE e
           c == [s EXCEPT !.state = "CLOSED", !.age = 0, !.socket = FALSE]
<1>1. s \in SessionType /\ Becomes(e, s)
  BY TouchFacts
<1>2. check_session(e, b) = IF s.state # "FINISHING" THEN s ELSE c
  BY DEF check_session, CloseSession
<1> HIDE DEF s
<1>3. /\ c \in SessionType /\ c.ptr = s.ptr /\ c.flow = s.flow /\ c.state = "CLOSED"
      /\ c.socket = FALSE
  <2> DEFINE u == "CLOSED"
             z == 0
             k == FALSE
  <2>1. u \in {"ACTIVE", "FINISHING", "CLOSED", "BLOCKED"} /\ z \in 0..2 /\ k \in BOOLEAN
    OBVIOUS
  <2>2. c = [s EXCEPT !.state = u, !.age = z, !.socket = k]
    OBVIOUS
  <2> HIDE DEF u, z, k, c
  <2>3. [s EXCEPT !.state = u, !.age = z, !.socket = k] \in SessionType
    BY <1>1, <2>1 DEF SessionType
  <2>4. LET f == [s EXCEPT !.state = u, !.age = z, !.socket = k]
        IN  f.socket = k /\ f.ptr = s.ptr /\ f.flow = s.flow /\ f.state = u
    BY <1>1 DEF SessionType
  <2>5. QED
    BY <2>2, <2>3, <2>4 DEF u, k
<1>4. Becomes(s, c)
  BY <1>3 DEF Becomes, Owned
<1> HIDE DEF c
<1>5. Becomes(e, c)
  BY <1>1, <1>3, <1>4, BecomesChain
<1>7. \A r : Owned(r) /\ r.socket => ~Deleted(r)
  BY DEF Owned, Deleted
<1>6. QED
  BY <1>1, <1>2, <1>5, <1>7

\* A session of a datagram: touched, finished, or with the DHCP reply's address.
LEMMA ForwardedFacts ==
  ASSUME NEW e \in SessionType, e.state = "ACTIVE", NEW r \in Forwarded(e)
  PROVE  Becomes(e, r) /\ r.socket = e.socket
<1>1. r \in {Touch(e), Finish(e), e} \/ (e.flow \in DhcpFlows /\ r = [e EXCEPT !.flow = NoFlow])
  BY DEF Forwarded
<1>2. CASE r \in {Touch(e), Finish(e), e}
  BY <1>2, TouchFacts
<1>3. CASE e.flow \in DhcpFlows /\ r = [e EXCEPT !.flow = NoFlow]
  <2>1. /\ r \in SessionType /\ r.ptr = e.ptr /\ r.flow = NoFlow
        /\ r.socket = e.socket /\ r.state = e.state
    BY <1>3 DEF SessionType
  <2>2. e.flow \notin TcpFlows
    BY <1>3, FlowFacts
  <2>3. QED
    BY <1>3, <2>1, <2>2 DEF Becomes, Owned
<1>4. QED
  BY <1>1, <1>2, <1>3

\* A session of an echo request, and one that a reply was read for.
LEMMA EchoFacts ==
  ASSUME NEW e \in SessionType, NEW S \in SUBSET EchoIds
  PROVE  LET r == [e EXCEPT !.echo = S]
         IN  /\ r \in SessionType /\ Becomes(e, r) /\ r.socket = e.socket
             /\ r.state = e.state /\ r.flow = e.flow /\ r.ptr = e.ptr
             /\ Touch(r) \in SessionType /\ Becomes(e, Touch(r))
             /\ Touch(r).socket = e.socket
<1> DEFINE r == [e EXCEPT !.echo = S]
<1>1. /\ r \in SessionType /\ r.ptr = e.ptr /\ r.flow = e.flow /\ r.socket = e.socket
      /\ r.state = e.state
  BY DEF SessionType
<1> HIDE DEF r
<1>2. Becomes(e, r)
  BY <1>1 DEF Becomes, Owned
<1>3. Becomes(r, Touch(r)) /\ Touch(r).socket = r.socket /\ Touch(r) \in SessionType
  BY <1>1, TouchFacts DEF Becomes
<1>4. Becomes(e, Touch(r))
  BY <1>1, <1>2, <1>3, BecomesChain
<1>5. QED
  BY <1>1, <1>2, <1>3, <1>4 DEF r

\* A TCP session whose socket is closed at the end of the stream.
LEMMA HalfClosedFacts ==
  ASSUME NEW e \in SessionType, e.flow \in TcpFlows
  PROVE  Becomes(e, [Touch(e) EXCEPT !.socket = FALSE])
<1> DEFINE u == Touch(e)
           k == FALSE
           r == [u EXCEPT !.socket = k]
<1>1. u \in SessionType /\ u.ptr = e.ptr /\ u.flow = e.flow /\ u.state = e.state
  BY DEF Touch, SessionType
<1>2. k \in BOOLEAN
  OBVIOUS
<1> HIDE DEF u, k
<1>3. /\ r \in SessionType /\ r.ptr = u.ptr /\ r.flow = u.flow /\ r.state = u.state
      /\ r.socket = k
  BY <1>1, <1>2 DEF SessionType
<1> HIDE DEF r
<1>4. Becomes(e, r)
  BY <1>1, <1>3 DEF Becomes, Owned, k
<1>5. QED
  BY <1>4 DEF r, u, k

\* A new session.
LEMMA SessionFacts ==
  ASSUME NEW p \in Ptrs, NEW f \in Flows, NEW s \in {"ACTIVE", "BLOCKED"}
  PROVE  LET e == Session(p, f, s)
         IN  /\ e \in SessionType /\ Owned(e)
             /\ e.ptr = p /\ e.flow = f /\ e.state = s /\ e.socket = (s # "BLOCKED")
<1> DEFINE k == s # "BLOCKED"
           e == Session(p, f, s)
<1>1. k \in BOOLEAN /\ (k <=> s = "ACTIVE")
  OBVIOUS
<1>2. e = [ptr |-> p, flow |-> f, state |-> s, socket |-> k, age |-> 0, id |-> 0, echo |-> {}]
  BY DEF Session
<1>3. f \in Flows \cup {NoFlow} /\ s \in {"ACTIVE", "FINISHING", "CLOSED", "BLOCKED"}
  OBVIOUS
<1> HIDE DEF k, e
<1>4. e \in SessionType /\ e.ptr = p /\ e.flow = f /\ e.state = s /\ e.socket = k
  BY <1>1, <1>2, <1>3 DEF SessionType
<1>5. Owned(e)
  BY <1>1, <1>4 DEF Owned
<1>6. QED
  BY <1>4, <1>5 DEF e, k

(***************************************************************************)
(* Steps of the list.  Either its sessions move, changed as above, from    *)
(* the places o; or a session is put in front.                             *)
(***************************************************************************)
Moves(o) ==
  /\ o \in [DOMAIN list' -> DOMAIN list]
  /\ \A i, j \in DOMAIN list' : o[i] = o[j] => i = j
  /\ \A i \in DOMAIN list' : Becomes(list[o[i]], list'[i])

\* A session keeps its socket while the kernel or the batch refers to it.
KeepsSockets ==
  \A i \in DOMAIN list :
    /\ list[i].socket
    /\ list[i].ptr \in epoll' \/ \E ev \in ready' : ev.ptr = list[i].ptr
    => \E j \in DOMAIN list' : list'[j].ptr = list[i].ptr /\ list'[j].socket

\* Nothing new is referred to.
WatchesLess ==
  /\ epoll' \subseteq epoll
  /\ \A ev \in ready' \ {Tun} : ev \in ready \/ ev.ptr \in epoll

Carries == list' \in Seq(SessionType) /\ (\E o : Moves(o)) /\ KeepsSockets /\ WatchesLess

Adds(e) ==
  /\ list' = <<e>> \o list
  /\ e \in SessionType /\ e.ptr \notin PtrsOf(list) /\ Owned(e)
  /\ e.flow \in UdpFlows /\ e.socket => \A i \in DOMAIN list : list[i].flow # e.flow
  /\ /\ DnsFlows \cap DhcpFlows = {}
     /\ e.state = "ACTIVE" /\ e.flow \notin DnsFlows
     => sessions < MaxSessions
  /\ epoll' = epoll \/ (epoll' = epoll \cup {e.ptr} /\ e.socket)
  /\ Packet

\* The list as it is.
LEMMA SameListMoves ==
  ASSUME list \in Seq(SessionType), list' = list
  PROVE  (\E o : Moves(o)) /\ KeepsSockets
<1> DEFINE o == [i \in DOMAIN list |-> i]
<1>1. \A i \in DOMAIN list : list[i] \in SessionType
  OBVIOUS
<1>2. Moves(o)
  BY <1>1, TouchFacts DEF Moves
<1>3. KeepsSockets
  BY DEF KeepsSockets
<1>4. QED
  BY <1>2, <1>3

\* One session replaced.
LEMMA ReplacedMoves ==
  ASSUME list \in Seq(SessionType), NEW i \in DOMAIN list, NEW e,
         Becomes(list[i], e), list' = [list EXCEPT ![i] = e]
  PROVE  /\ list' \in Seq(SessionType) /\ (\E o : Moves(o))
         /\ e.socket = list[i].socket => KeepsSockets
<1> DEFINE o == [j \in DOMAIN list |-> j]
<1>1. \A j \in DOMAIN list : list[j] \in SessionType
  OBVIOUS
<1>2. e \in SessionType /\ e.ptr = list[i].ptr
  BY DEF Becomes
<1>3. list' \in Seq(SessionType)
  BY <1>2
<1>4. DOMAIN list' = DOMAIN list
  OBVIOUS
<1>5. \A j \in DOMAIN list : list'[j] = IF j = i THEN e ELSE list[j]
  OBVIOUS
<1>6. ASSUME NEW j \in DOMAIN list PROVE Becomes(list[j], list'[j])
  BY <1>1, <1>5, TouchFacts
<1>7. Moves(o)
  BY <1>4, <1>6 DEF Moves
<1>8. e.socket = list[i].socket => KeepsSockets
  BY <1>2, <1>4, <1>5 DEF KeepsSockets
<1>9. QED
  BY <1>3, <1>7, <1>8

\* Every session changed, and some taken out.
LEMMA KeptMoves ==
  ASSUME list \in Seq(SessionType), NEW after \in [DOMAIN list -> SessionType],
         \A i \in DOMAIN list : Becomes(list[i], after[i]),
         NEW K \in SUBSET (DOMAIN list), list' = Keep(after, K)
  PROVE  /\ list' \in Seq(SessionType) /\ (\E o : Moves(o))
         /\ \A i \in K : \E j \in DOMAIN list' : list'[j] = after[i]
<1> DEFINE m == Len(list)
           c == Cardinality(K)
           o == [n \in 1..c |-> Nth(K, n)]
<1>1. m \in Nat /\ DOMAIN list = 1..m /\ K \in SUBSET (1..m)
  OBVIOUS
<1>2. c \in Nat /\ \A i \in K : Rank(K, i) \in 1..c
  BY <1>1, RankFacts
<1>3. /\ \A n \in 1..c : Nth(K, n) \in K /\ Rank(K, Nth(K, n)) = n
      /\ \A i \in K : Nth(K, Rank(K, i)) = i
  BY <1>1, NthFacts
<1>4. list' = [n \in 1..c |-> after[Nth(K, n)]]
  BY DEF Keep
<1> HIDE DEF c, m
<1>5. DOMAIN list' = 1..c /\ \A n \in 1..c : list'[n] = after[Nth(K, n)]
  BY <1>4
<1>6. list' \in Seq(SessionType)
  <2>1. \A n \in 1..c : after[Nth(K, n)] \in SessionType
    BY <1>3
  <2>2. list' \in [1..c -> SessionType]
    BY <1>4, <2>1
  <2>3. QED
    BY <1>2, <2>2
<1>7. Moves(o)
  <2>1. o \in [DOMAIN list' -> DOMAIN list]
    BY <1>3, <1>5
  <2>2. \A i, j \in DOMAIN list' : o[i] = o[j] => i = j
    BY <1>3, <1>5
  <2>3. \A i \in DOMAIN list' : Becomes(list[o[i]], list'[i])
    BY <1>3, <1>5
  <2>4. QED
    BY <2>1, <2>2, <2>3 DEF Moves
<1>8. ASSUME NEW i \in K PROVE \E j \in DOMAIN list' : list'[j] = after[i]
  BY <1>2, <1>3, <1>5
<1>9. QED
  BY <1>6, <1>7, <1>8

(***************************************************************************)
(* The inductive invariant.                                                *)
(***************************************************************************)
EventType == [ptr : Ptrs, kind : {"in", "err"}] \cup {Tun}

LoopTyped ==
  /\ ready \subseteq EventType
  /\ room \in 0..TunYield /\ sessions \in 0..Cardinality(Ptrs)
  /\ pc \in {"down", "count", "check", "poll", "batch"} /\ stopping \in BOOLEAN
  /\ answer \in [of : EchoIds \cup {0}, as : EchoIds \cup {0}]

\* Events are left only in a batch, one for a session, and packets to be read
\* only after the tun device's event; the epoll set lives as long as the loop.
Quiet ==
  /\ pc # "batch" => ready = {} /\ room = 0
  /\ pc = "down" => epoll = {}
  /\ room > 0 => Tun \notin ready
  /\ \A a, b \in ready : a.ptr = b.ptr => a = b

Distinct == \A i, j \in DOMAIN list : list[i].ptr = list[j].ptr => i = j

AllOwned == \A i \in DOMAIN list : Owned(list[i])

ListInv ==
  /\ list \in Seq(SessionType) /\ epoll \subseteq Ptrs /\ LoopTyped /\ Quiet
  /\ Distinct /\ AllOwned /\ NoDanglingEvent /\ OneSocketPerFlow

\* The tun device's event is not one of a session.
LEMMA TunFacts ==
  /\ Tun.ptr \notin Ptrs
  /\ \A ev \in EventType : ev # Tun => ev.ptr \in Ptrs /\ ev.kind \in {"in", "err"}
  BY ListAssumption DEF EventType, Tun

\* Steps that leave the list alone.
Idles ==
  \/ UNCHANGED vars \/ CountSessions \/ SkipChecks \/ Poll \/ ReadTun \/ DropPacket
  \/ LeaveTun \/ EndBatch \/ Stop \/ StopLoop \/ FailLoop

\* Such a step refers to nothing new.
LEMMA IdlesCarries ==
  ASSUME ListInv, Idles
  PROVE  Carries
<1>1. list' = list
  BY Zenon DEF Idles, vars, CountSessions, SkipChecks, Poll, ReadTun, DropPacket, LeaveTun,
         EndBatch, Stop, StopLoop, FailLoop, Leave
<1>2. list' \in Seq(SessionType) /\ (\E o : Moves(o)) /\ KeepsSockets
  BY <1>1, SameListMoves DEF ListInv
<1>3. WatchesLess
  <2>1. CASE Poll
    <3>1. epoll' = epoll
      BY <2>1 DEF Poll, kernel
    <3>2. ready' \subseteq [ptr : epoll, kind : {"in", "err"}] \cup {Tun}
      BY <2>1 DEF Poll
    <3>3. QED
      BY <3>1, <3>2 DEF WatchesLess
  <2>2. CASE StopLoop \/ FailLoop
    BY <2>2 DEF StopLoop, FailLoop, Leave, WatchesLess
  <2>3. CASE \/ UNCHANGED vars \/ CountSessions \/ SkipChecks \/ ReadTun \/ DropPacket
             \/ LeaveTun \/ EndBatch \/ Stop
    <3>1. epoll' = epoll /\ ready' \subseteq ready
      BY <2>3 DEF vars, kernel, CountSessions, SkipChecks, ReadTun, DropPacket, Packet,
                  LeaveTun, EndBatch, Stop
    <3>2. QED
      BY <3>1 DEF WatchesLess
  <2>4. QED
    BY <2>1, <2>2, <2>3 DEF Idles
<1>4. QED
  BY <1>2, <1>3 DEF Carries

\* The checks of a turn take out no session the kernel refers to.
LEMMA CheckCarries ==
  ASSUME ListInv, CheckSessions
  PROVE  Carries
<1>1. /\ list \in Seq(SessionType) /\ ready = {} /\ ready' = {} /\ AllOwned
      /\ \A i \in DOMAIN list : list[i] \in SessionType
  BY DEF ListInv, CheckSessions, Quiet
<1>2. PICK T \in SUBSET Active(list) :
        LET after  == [i \in DOMAIN list |-> check_session(list[i], i \in T)]
            closed == {list[i].ptr : i \in {j \in DOMAIN list :
                                              list[j].socket /\ ~after[j].socket}}
        IN  /\ list' = Keep(after, {i \in DOMAIN after : ~Deleted(after[i])})
            /\ epoll' = epoll \ closed
  BY DEF CheckSessions
<1> DEFINE after == [i \in DOMAIN list |-> check_session(list[i], i \in T)]
           closed == {list[i].ptr : i \in {j \in DOMAIN list :
                                             list[j].socket /\ ~after[j].socket}}
           K == {i \in DOMAIN after : ~Deleted(after[i])}
<1>3. list' = Keep(after, K) /\ epoll' = epoll \ closed
  BY <1>2
<1>4. ASSUME NEW i \in DOMAIN list
      PROVE  /\ Becomes(list[i], after[i])
             /\ after[i].socket => ~Deleted(after[i])
  <2> DEFINE b == i \in T
             r == check_session(list[i], b)
  <2>1. list[i] \in SessionType /\ b \in BOOLEAN /\ (b => list[i].state = "ACTIVE")
    BY <1>1 DEF Active
  <2>2. after[i] = r
    OBVIOUS
  <2> HIDE DEF b
  <2>3. Becomes(list[i], r) /\ (Owned(r) /\ r.socket => ~Deleted(r))
    BY <2>1, CheckFacts
  <2> HIDE DEF r, after
  <2>4. Owned(r)
    BY <1>1, <2>3 DEF Becomes, AllOwned
  <2>5. QED
    BY <2>2, <2>3, <2>4
<1>5. DOMAIN after = DOMAIN list /\ after \in [DOMAIN list -> SessionType]
  <2>1. \A i \in DOMAIN list : after[i] \in SessionType
    BY <1>4 DEF Becomes
  <2>2. QED
    BY <2>1
<1>6. K \in SUBSET (DOMAIN list)
  BY <1>5
<1> HIDE DEF after
<1>7. /\ list' \in Seq(SessionType) /\ (\E o : Moves(o))
      /\ \A i \in K : \E j \in DOMAIN list' : list'[j] = after[i]
  <2> HIDE DEF K
  <2> QED BY <1>1, <1>3, <1>4, <1>5, <1>6, KeptMoves
<1>8. KeepsSockets
  <2> SUFFICES ASSUME NEW i \in DOMAIN list, list[i].socket, list[i].ptr \in epoll'
               PROVE  \E j \in DOMAIN list' : list'[j].ptr = list[i].ptr /\ list'[j].socket
    BY <1>1 DEF KeepsSockets
  <2>1. after[i].socket
    BY <1>3
  <2>2. i \in K
    BY <1>4, <1>5, <2>1
  <2>3. after[i].ptr = list[i].ptr
    BY <1>4 DEF Becomes
  <2>4. QED
    BY <1>7, <2>1, <2>2, <2>3
<1>9. WatchesLess
  BY <1>1, <1>3 DEF WatchesLess
<1>10. QED
  BY <1>7, <1>8, <1>9 DEF Carries

\* The start of the loop forgets blocked sessions, and the epoll set is new.
LEMMA StartCarries ==
  ASSUME ListInv, StartLoop
  PROVE  Carries
<1>1. /\ list \in Seq(SessionType) /\ ready = {} /\ ready' = {} /\ epoll' = {}
      /\ \A i \in DOMAIN list : list[i] \in SessionType
  BY DEF ListInv, StartLoop, Quiet
<1>2. PICK D \in SUBSET DOMAIN list :
        LET after == [i \in DOMAIN list |-> IF i \in D THEN Disallowed(list[i]) ELSE list[i]]
        IN  list' = Keep(after, {i \in DOMAIN after : after[i].state # "BLOCKED"})
  BY DEF StartLoop
<1> DEFINE after == [i \in DOMAIN list |-> IF i \in D THEN Disallowed(list[i]) ELSE list[i]]
           K == {i \in DOMAIN after : after[i].state # "BLOCKED"}
<1>3. list' = Keep(after, K)
  BY <1>2
<1>4. ASSUME NEW i \in DOMAIN list
      PROVE  Becomes(list[i], after[i])
  BY <1>1, TouchFacts DEF Disallowed
<1>5. DOMAIN after = DOMAIN list /\ after \in [DOMAIN list -> SessionType]
  <2>1. \A i \in DOMAIN list : after[i] \in SessionType
    BY <1>4 DEF Becomes
  <2>2. QED
    BY <2>1
<1>6. K \in SUBSET (DOMAIN list)
  BY <1>5
<1> HIDE DEF after, K
<1>7. list' \in Seq(SessionType) /\ (\E o : Moves(o))
  BY <1>1, <1>3, <1>4, <1>5, <1>6, KeptMoves
<1>8. QED
  BY <1>1, <1>7 DEF Carries, KeepsSockets, WatchesLess

\* The list is cleared between two loops; time passes in it.
LEMMA ClearCarries ==
  ASSUME ListInv, Clear \/ Tick
  PROVE  Carries
<1>1. CASE Clear
  <2>1. list' = <<>> /\ epoll' = {} /\ ready' = {}
    BY <1>1 DEF Clear, ListInv, Quiet, kernel
  <2>2. Moves(<<>>) /\ list' \in Seq(SessionType)
    BY <2>1 DEF Moves
  <2>3. QED
    BY <2>1, <2>2 DEF Carries, KeepsSockets, WatchesLess
<1>2. CASE Tick
  <2>1. UNCHANGED <<epoll, ready>>
    BY <1>2 DEF Tick, kernel
  <2> DEFINE a(i) == IF list[i].age < 2 /\ list[i].state # "FINISHING"
                     THEN list[i].age + 1 ELSE list[i].age
             r(i) == [list[i] EXCEPT !.age = a(i)]
             o == [i \in DOMAIN list |-> i]
  <2>2. list' = [i \in DOMAIN list |-> r(i)]
    BY <1>2 DEF Tick
  <2>3. ASSUME NEW i \in DOMAIN list
        PROVE  Becomes(list[i], r(i)) /\ r(i).socket = list[i].socket
               /\ r(i) \in SessionType
    <3>1. list[i] \in SessionType
      BY DEF ListInv
    <3>2. list[i].age \in 0..2
      BY <3>1 DEF SessionType
    <3>3. a(i) \in 0..2
      BY <3>2
    <3> HIDE DEF a
    <3>4. QED
      BY <3>1, <3>3, TouchFacts DEF Becomes
  <2> HIDE DEF r
  <2>4. DOMAIN list' = DOMAIN list /\ \A i \in DOMAIN list : list'[i] = r(i)
    BY <2>2
  <2>5. list' \in Seq(SessionType)
    <3>1. DOMAIN list = 1..Len(list) /\ Len(list) \in Nat
      BY DEF ListInv
    <3>2. list' \in [1..Len(list) -> SessionType]
      BY <2>2, <2>3, <3>1
    <3>3. QED
      BY <3>1, <3>2
  <2>6. Moves(o)
    BY <2>3, <2>4 DEF Moves
  <2>7. KeepsSockets
    BY <2>3, <2>4 DEF KeepsSockets, Becomes
  <2>8. QED
    BY <2>1, <2>5, <2>6, <2>7 DEF Carries, WatchesLess
<1>3. QED
  BY <1>1, <1>2

\* The first of a set of places is one of them.
LEMMA FirstInList ==
  ASSUME list \in Seq(SessionType), NEW S \in SUBSET (DOMAIN list), S # {}
  PROVE  First(S) \in S
<1> DEFINE m == Len(list)
<1>1. m \in Nat /\ S \in SUBSET (1..m)
  OBVIOUS
<1> HIDE DEF m
<1>2. QED
  BY <1>1, FirstFacts

\* A session replaced by one with the same socket.
LEMMA ReplaceCarries ==
  ASSUME ListInv, NEW i \in DOMAIN list, NEW e, Becomes(list[i], e),
         e.socket = list[i].socket, Replace(i, e), ready' \subseteq ready
  PROVE  Carries
<1>1. list' = [list EXCEPT ![i] = e] /\ epoll' = epoll
  BY DEF Replace
<1>2. list' \in Seq(SessionType) /\ (\E o : Moves(o)) /\ KeepsSockets
  BY <1>1, ReplacedMoves DEF ListInv
<1>3. QED
  BY <1>1, <1>2 DEF Carries, WatchesLess

\* A new session, as it is left after its first packet.
LEMMA RegisterAdds ==
  ASSUME ListInv, Packet, NEW p \in FreePtrs, NEW f \in Flows,
         NEW s \in SessionType, s.ptr = p, s.flow = f, s.state = "ACTIVE", s.socket, Owned(s),
         NEW e, Becomes(s, e), e.socket = s.socket, Register(e),
         f \in UdpFlows => \A i \in DOMAIN list : list[i].flow # f,
         sessions >= MaxSessions => f \in DnsFlows
  PROVE  Adds(e)
<1>1. e \in SessionType /\ e.ptr = p /\ e.socket /\ Owned(e) /\ e.ptr \notin PtrsOf(list)
  BY DEF Becomes, FreePtrs
<1>2. e.flow = f \/ (f \in DhcpFlows /\ e.flow = NoFlow)
  BY DEF Becomes
<1>3. e.flow \in UdpFlows => \A i \in DOMAIN list : list[i].flow # e.flow
  BY <1>2, FlowFacts
<1>4. /\ DnsFlows \cap DhcpFlows = {}
      /\ e.state = "ACTIVE" /\ e.flow \notin DnsFlows
      => sessions < MaxSessions
  <2>1. sessions \in Nat /\ MaxSessions \in Nat
    <3>1. Cardinality(Ptrs) \in Nat
      BY ListAssumption, FS_CardinalityType
    <3>2. QED
      BY <3>1, ListAssumption DEF ListInv, LoopTyped
  <2>2. QED
    BY <1>2, <2>1
<1>5. list' = <<e>> \o list /\ epoll' \in {epoll \cup {e.ptr}, epoll}
  BY DEF Register
<1>6. QED
  BY <1>1, <1>3, <1>4, <1>5 DEF Adds

\* Packets of the tun device.
LEMMA PacketKind ==
  ASSUME ListInv, HandlePacket
  PROVE  Carries \/ \E e : Adds(e)
<1>1. list \in Seq(SessionType) /\ \A i \in DOMAIN list : list[i] \in SessionType
  BY DEF ListInv
<1>2. \A p \in FreePtrs : p \in Ptrs /\ p \notin PtrsOf(list)
  BY DEF FreePtrs
<1>3. ASSUME NEW p \in FreePtrs, NEW f \in Flows
      PROVE  LET s == Session(p, f, "ACTIVE")
             IN  /\ s \in SessionType /\ s.ptr = p /\ s.flow = f
                 /\ s.state = "ACTIVE" /\ s.socket /\ Owned(s)
  <2> DEFINE a == "ACTIVE"
             s == Session(p, f, a)
  <2>1. a \in {"ACTIVE", "BLOCKED"} /\ (a # "BLOCKED") = TRUE
    OBVIOUS
  <2> HIDE DEF a
  <2>2. /\ s \in SessionType /\ s.ptr = p /\ s.flow = f /\ s.state = a
        /\ s.socket = (a # "BLOCKED") /\ Owned(s)
    BY <1>2, <2>1, SessionFacts
  <2>3. QED
    BY <2>1, <2>2 DEF a
<1>4. CASE DropPacket
  BY <1>4, IdlesCarries DEF Idles
<1>5. ASSUME NEW f \in UdpFlows, handle_udp(f) PROVE Carries \/ \E e : Adds(e)
  <2>1. Packet /\ Admitted(f) /\ f \in Flows
    BY <1>5, FlowFacts DEF handle_udp
  <2>2. CASE /\ MatchingUdp(f) = {}
             /\ \E p \in FreePtrs : \E e \in Forwarded(Session(p, f, "ACTIVE")) : Register(e)
    <3>0. PICK p \in FreePtrs : \E e \in Forwarded(Session(p, f, "ACTIVE")) : Register(e)
      BY <2>2
    <3>1. PICK e \in Forwarded(Session(p, f, "ACTIVE")) : Register(e)
      BY <3>0
    <3> DEFINE s == Session(p, f, "ACTIVE")
    <3>2. /\ s \in SessionType /\ s.ptr = p /\ s.flow = f
          /\ s.state = "ACTIVE" /\ s.socket /\ Owned(s)
      BY <1>3, <2>1
    <3> HIDE DEF s
    <3>3. Becomes(s, e) /\ e.socket = s.socket
      BY <3>1, <3>2, ForwardedFacts DEF s
    <3>4. \A i \in DOMAIN list : list[i].flow # f
      BY <2>2 DEF MatchingUdp
    <3>5. sessions >= MaxSessions => f \in DnsFlows
      BY <2>1, <3>4 DEF Admitted, has_udp_session
    <3>6. Adds(e)
      BY <2>1, <3>1, <3>2, <3>3, <3>4, <3>5, RegisterAdds
    <3>7. QED
      BY <3>6
  <2>3. CASE /\ MatchingUdp(f) # {}
             /\ LET i == First(MatchingUdp(f))
                IN  /\ list[i].state = "ACTIVE"
                    /\ \E e \in Forwarded(list[i]) : Replace(i, e)
    <3> DEFINE i == First(MatchingUdp(f))
    <3>1. MatchingUdp(f) \in SUBSET (DOMAIN list)
      BY DEF MatchingUdp
    <3>2. i \in DOMAIN list
      BY <1>1, <2>3, <3>1, FirstInList
    <3>3. PICK e \in Forwarded(list[i]) : Replace(i, e)
      BY <2>3
    <3>4. Becomes(list[i], e) /\ e.socket = list[i].socket
      BY <1>1, <2>3, <3>2, ForwardedFacts
    <3>5. ready' \subseteq ready
      BY <2>1 DEF Packet
    <3> HIDE DEF i
    <3>6. QED
      BY <3>2, <3>3, <3>4, <3>5, ReplaceCarries
  <2>4. QED
    BY <1>5, <2>2, <2>3 DEF handle_udp
<1>6. ASSUME NEW f \in UdpFlows, block_udp(f) PROVE \E e : Adds(e)
  <2>1. PICK p \in FreePtrs : list' = <<Session(p, f, "BLOCKED")>> \o list
    BY <1>6 DEF block_udp
  <2> DEFINE e == Session(p, f, "BLOCKED")
  <2>2. /\ e \in SessionType /\ Owned(e) /\ e.ptr = p /\ e.state = "BLOCKED"
        /\ ~e.socket
    <3> DEFINE b == "BLOCKED"
               s == Session(p, f, b)
    <3>1. b \in {"ACTIVE", "BLOCKED"} /\ (b # "BLOCKED") = FALSE /\ p \in Ptrs /\ f \in Flows
      BY <1>2, FlowFacts
    <3> HIDE DEF b
    <3>2. /\ s \in SessionType /\ s.ptr = p /\ s.state = b
          /\ s.socket = (b # "BLOCKED") /\ Owned(s)
      BY <3>1, SessionFacts
    <3>3. QED
      BY <3>1, <3>2 DEF b
  <2> HIDE DEF e
  <2>3. Packet /\ epoll' = epoll /\ list' = <<e>> \o list
    BY <1>6, <2>1 DEF block_udp, e
  <2>4. Adds(e)
    BY <1>2, <2>2, <2>3 DEF Adds
  <2>5. QED
    BY <2>4
<1>7. ASSUME NEW f \in IcmpFlows, NEW id \in EchoIds, handle_icmp(f, id)
      PROVE  Carries \/ \E e : Adds(e)
  <2> DEFINE matching == {i \in Active(list) : list[i].flow = f}
             sent(e) == {Touch([e EXCEPT !.echo = @ \cup {id}]), Finish(e)}
  <2>1. Packet /\ Admitted(f) /\ f \in Flows /\ f \notin UdpFlows
    BY <1>7, FlowFacts DEF handle_icmp
  <2>2. ASSUME NEW s \in SessionType, s.state = "ACTIVE", NEW e \in sent(s)
        PROVE  Becomes(s, e) /\ e.socket = s.socket
    <3> DEFINE S == s.echo \cup {id}
    <3>1. S \in SUBSET EchoIds
      BY DEF SessionType
    <3>2. [s EXCEPT !.echo = @ \cup {id}] = [s EXCEPT !.echo = S]
      OBVIOUS
    <3> HIDE DEF S
    <3>3. CASE e = Touch([s EXCEPT !.echo = @ \cup {id}])
      <4> DEFINE r == [s EXCEPT !.echo = S]
      <4>1. e = Touch(r)
        BY <3>2, <3>3
      <4>2. Becomes(s, Touch(r)) /\ Touch(r).socket = s.socket
        BY <3>1, EchoFacts
      <4> HIDE DEF r
      <4>3. QED
        BY <4>1, <4>2
    <3>4. CASE e = Finish(s)
      BY <2>2, <3>4, TouchFacts
    <3>5. QED
      BY <2>2, <3>3, <3>4
  <2>3. CASE /\ matching = {}
             /\ \E p \in FreePtrs :
                  \E e \in sent([Session(p, f, "ACTIVE") EXCEPT !.id = id]) : Register(e)
    <3>0. PICK p \in FreePtrs :
            \E e \in sent([Session(p, f, "ACTIVE") EXCEPT !.id = id]) : Register(e)
      BY <2>3
    <3>1. PICK e \in sent([Session(p, f, "ACTIVE") EXCEPT !.id = id]) : Register(e)
      BY <3>0
    <3> DEFINE n == Session(p, f, "ACTIVE")
               s == [n EXCEPT !.id = id]
    <3>2. /\ n \in SessionType /\ n.ptr = p /\ n.flow = f
          /\ n.state = "ACTIVE" /\ n.socket /\ Owned(n)
      BY <1>3, <2>1
    <3> HIDE DEF n
    <3>3. /\ s \in SessionType /\ s.ptr = p /\ s.flow = f
          /\ s.state = "ACTIVE" /\ s.socket
      BY <3>2 DEF SessionType
    <3>4. e \in sent(s)
      BY <3>1 DEF n
    <3> HIDE DEF s
    <3>5. Owned(s)
      BY <3>3 DEF Owned
    <3>6. Becomes(s, e) /\ e.socket = s.socket
      BY <2>2, <3>3, <3>4
    <3>7. ~(sessions >= MaxSessions)
      BY <2>1 DEF Admitted
    <3>8. Adds(e)
      BY <2>1, <3>1, <3>3, <3>5, <3>6, <3>7, RegisterAdds
    <3>9. QED
      BY <3>8
  <2>4. CASE /\ matching # {}
             /\ \E e \in sent(list[First(matching)]) : Replace(First(matching), e)
    <3> DEFINE i == First(matching)
    <3>1. matching \in SUBSET (DOMAIN list)
      BY DEF Active
    <3>2. i \in matching
      <4> HIDE DEF matching
      <4> QED BY <1>1, <2>4, <3>1, FirstInList
    <3>3. i \in DOMAIN list /\ list[i].state = "ACTIVE"
      BY <3>2 DEF Active
    <3> HIDE DEF i
    <3>4. PICK e \in sent(list[i]) : Replace(i, e)
      BY <2>4 DEF i
    <3>5. Becomes(list[i], e) /\ e.socket = list[i].socket
      BY <1>1, <2>2, <3>3, <3>4
    <3>6. ready' \subseteq ready
      BY <2>1 DEF Packet
    <3>7. QED
      BY <3>3, <3>4, <3>5, <3>6, ReplaceCarries
  <2>5. QED
    BY <1>7, <2>3, <2>4 DEF handle_icmp
<1>8. ASSUME NEW f \in TcpFlows, handle_tcp(f) PROVE Carries \/ \E e : Adds(e)
  <2> DEFINE matching == {i \in DOMAIN list : list[i].flow = f}
             left(e) == {Touch(e), Finish(e)}
  <2>1. Packet /\ f \in Flows /\ f \notin UdpFlows
    BY <1>8, FlowFacts DEF handle_tcp
  <2>2. CASE /\ matching = {} /\ Admitted(f)
             /\ \E p \in FreePtrs : \E e \in left(Session(p, f, "ACTIVE")) : Register(e)
    <3>0. PICK p \in FreePtrs : \E e \in left(Session(p, f, "ACTIVE")) : Register(e)
      BY <2>2
    <3>1. PICK e \in left(Session(p, f, "ACTIVE")) : Register(e)
      BY <3>0
    <3> DEFINE s == Session(p, f, "ACTIVE")
    <3>2. /\ s \in SessionType /\ s.ptr = p /\ s.flow = f
          /\ s.state = "ACTIVE" /\ s.socket /\ Owned(s)
      BY <1>3, <2>1
    <3> HIDE DEF s
    <3>3. Becomes(s, e) /\ e.socket = s.socket
      BY <3>1, <3>2, TouchFacts DEF s
    <3>4. ~(sessions >= MaxSessions)
      BY <2>1, <2>2 DEF Admitted
    <3>5. Adds(e)
      BY <2>1, <3>1, <3>2, <3>3, <3>4, RegisterAdds
    <3>6. QED
      BY <3>5
  <2>3. CASE \E i \in matching :
               list[i].state = "ACTIVE" /\ \E e \in left(list[i]) : Replace(i, e)
    <3>1. PICK i \in matching :
            list[i].state = "ACTIVE" /\ \E e \in left(list[i]) : Replace(i, e)
      BY <2>3
    <3>2. PICK e \in left(list[i]) : Replace(i, e)
      BY <3>1
    <3>3. Becomes(list[i], e) /\ e.socket = list[i].socket
      BY <1>1, <3>1, <3>2, TouchFacts
    <3>4. ready' \subseteq ready
      BY <2>1 DEF Packet
    <3>5. QED
      BY <3>2, <3>3, <3>4, ReplaceCarries
  <2>4. QED
    BY <1>8, <2>2, <2>3 DEF handle_tcp
<1>9. QED
  BY <1>4, <1>5, <1>6, <1>7, <1>8 DEF HandlePacket

\* The session of an event owns a socket.
LEMMA HandledOwns ==
  ASSUME ListInv, NEW ev \in ready, NEW i \in DOMAIN list, Handle(ev, i)
  PROVE  /\ list[i].socket /\ list[i] \in SessionType
         /\ ready' \subseteq ready /\ (\A a \in ready' : a.ptr # ev.ptr)
<1>1. ev # Tun /\ list[i].ptr = ev.ptr /\ ready' = ready \ {ev}
  BY DEF Handle
<1>2. PICK j \in Owner(ev.ptr) : list[j].socket
  BY <1>1 DEF ListInv, NoDanglingEvent
<1>3. j = i
  BY <1>1, <1>2 DEF Owner, ListInv, Distinct
<1>4. list[i] \in SessionType
  BY DEF ListInv
<1>5. \A a \in ready' : a.ptr # ev.ptr
  BY <1>1 DEF ListInv, Quiet
<1>6. QED
  BY <1>1, <1>2, <1>3, <1>4, <1>5

\* Events of sockets: the sessions go on, are finished, or a TCP session gives
\* up its socket together with the event and the registration.
LEMMA EventKind ==
  ASSUME ListInv, HandleEvent
  PROVE  Carries
<1>1. PICK ev \in ready, i \in DOMAIN list :
        check_udp_socket(ev, i) \/ check_icmp_socket(ev, i) \/ check_tcp_socket(ev, i)
  BY DEF HandleEvent
<1>2. Handle(ev, i)
  BY <1>1 DEF check_udp_socket, check_icmp_socket, check_tcp_socket
<1>3. /\ list[i].socket /\ list[i] \in SessionType
      /\ ready' \subseteq ready /\ (\A a \in ready' : a.ptr # ev.ptr)
  BY <1>2, HandledOwns
<1>4. ASSUME NEW e \in {list[i], Touch(list[i]), Finish(list[i])}, Replace(i, e)
      PROVE  Carries
  <2>1. Becomes(list[i], e) /\ e.socket = list[i].socket
    BY <1>3, TouchFacts
  <2>2. QED
    BY <1>3, <1>4, <2>1, ReplaceCarries
<1>5. ASSUME UNCHANGED <<list, epoll>> PROVE Carries
  <2>1. list' \in Seq(SessionType) /\ (\E o : Moves(o)) /\ KeepsSockets
    BY <1>5, SameListMoves DEF ListInv
  <2>2. QED
    BY <1>3, <1>5, <2>1 DEF Carries, WatchesLess
<1>6. CASE check_udp_socket(ev, i)
  BY <1>4, <1>5, <1>6 DEF check_udp_socket
<1>7. CASE check_icmp_socket(ev, i)
  <2>1. ASSUME NEW r \in list[i].echo, Replace(i, Touch([list[i] EXCEPT !.echo = @ \ {r}]))
        PROVE  Carries
    <3> DEFINE S == list[i].echo \ {r}
               q == [list[i] EXCEPT !.echo = S]
    <3>1. S \in SUBSET EchoIds
      BY <1>3 DEF SessionType
    <3>2. Replace(i, Touch(q))
      BY <2>1
    <3> HIDE DEF S
    <3>3. Becomes(list[i], Touch(q)) /\ Touch(q).socket = list[i].socket
      BY <1>3, <3>1, EchoFacts
    <3> HIDE DEF q
    <3>4. QED
      BY <1>3, <3>2, <3>3, ReplaceCarries
  <2>2. QED
    BY <1>4, <1>7, <2>1 DEF check_icmp_socket
<1>8. CASE check_tcp_socket(ev, i)
  <2>1. CASE \E e \in {list[i], Touch(list[i]), Finish(list[i])} : Replace(i, e)
    BY <1>4, <2>1
  <2>2. CASE /\ list' = [list EXCEPT ![i] = [Touch(list[i]) EXCEPT !.socket = FALSE]]
             /\ epoll' = epoll \ {ev.ptr}
    <3> DEFINE e == [Touch(list[i]) EXCEPT !.socket = FALSE]
    <3>1. Becomes(list[i], e)
      BY <1>3, <1>8, HalfClosedFacts DEF check_tcp_socket
    <3>2. list' = [list EXCEPT ![i] = e]
      BY <2>2
    <3> HIDE DEF e
    <3>3. list' \in Seq(SessionType) /\ \E o : Moves(o)
      BY <3>1, <3>2, ReplacedMoves DEF ListInv
    <3>4. KeepsSockets
      <4> SUFFICES ASSUME NEW j \in DOMAIN list, list[j].socket,
                          list[j].ptr \in epoll' \/ \E a \in ready' : a.ptr = list[j].ptr
                   PROVE  \E k \in DOMAIN list' : list'[k].ptr = list[j].ptr /\ list'[k].socket
        BY DEF KeepsSockets
      <4>1. list[j].ptr # ev.ptr
        BY <1>3, <2>2
      <4>2. j # i
        BY <1>2, <4>1 DEF Handle
      <4>3. j \in DOMAIN list' /\ list'[j] = list[j]
        BY <3>2, <4>2
      <4>4. QED
        BY <4>3
    <3>5. QED
      BY <1>3, <2>2, <3>3, <3>4 DEF Carries, WatchesLess
  <2>3. QED
    BY <1>8, <2>1, <2>2 DEF check_tcp_socket
<1>9. QED
  BY <1>1, <1>6, <1>7, <1>8

\* Every step carries the list on or adds a session to it.
LEMMA StepKinds ==
  ASSUME ListInv, [Next]_vars
  PROVE  Carries \/ \E e : Adds(e)
<1>1. CASE Idles
  BY <1>1, IdlesCarries
<1>2. CASE CheckSessions
  BY <1>2, CheckCarries
<1>3. CASE StartLoop
  BY <1>3, StartCarries
<1>4. CASE Clear \/ Tick
  BY <1>4, ClearCarries
<1>5. CASE HandlePacket
  BY <1>5, PacketKind
<1>6. CASE HandleEvent
  BY <1>6, EventKind
<1>7. QED
  BY Zenon, <1>1, <1>2, <1>3, <1>4, <1>5, <1>6 DEF Next, Idles

\* The sessions with one property are at most as many as there are addresses.
LEMMA CountFacts ==
  ASSUME list \in Seq(SessionType), Distinct, NEW A \in SUBSET (DOMAIN list)
  PROVE  /\ IsFiniteSet(A) /\ Cardinality(A) \in Nat
         /\ Cardinality(A) <= Cardinality(Ptrs)
<1> DEFINE m == Len(list)
           f == [i \in A |-> list[i].ptr]
<1>1. m \in Nat /\ A \in SUBSET (1..m)
  OBVIOUS
<1> HIDE DEF m
<1>2. IsFiniteSet(A) /\ Cardinality(A) \in Nat
  BY <1>1, RankFacts
<1>3. \A i \in A : list[i] \in SessionType
  OBVIOUS
<1>4. f \in [A -> Ptrs]
  BY <1>3 DEF SessionType
<1>5. IsInjective(f)
  BY DEF Distinct, IsInjective
<1>6. f \in Injection(A, Ptrs)
  BY <1>4, <1>5 DEF Injection
<1> HIDE DEF f
<1>7. QED
  BY <1>2, <1>6, FS_Injection, ListAssumption

\* The addresses of the sessions are as many as the sessions.
LEMMA AddressFacts ==
  ASSUME list \in Seq(SessionType), Distinct
  PROVE  Cardinality(PtrsOf(list)) = Len(list)
<1> DEFINE m == Len(list)
           P == PtrsOf(list)
           f == [i \in 1..m |-> list[i].ptr]
<1>1. m \in Nat /\ DOMAIN list = 1..m
  OBVIOUS
<1> HIDE DEF m
<1>2. P = {list[i].ptr : i \in 1..m}
  BY <1>1 DEF PtrsOf
<1>3. f \in [1..m -> P] /\ \A t \in P : \E s \in 1..m : f[s] = t
  BY <1>2
<1>4. IsInjective(f)
  BY <1>1 DEF Distinct, IsInjective
<1>5. f \in Bijection(1..m, P)
  BY <1>3, <1>4 DEF Bijection, Injection, Surjection
<1> HIDE DEF f, P
<1>6. ExistsBijection(1..m, P)
  BY <1>5 DEF ExistsBijection
<1>7. Cardinality(P) = m
  BY <1>1, <1>6, FS_CountingElements
<1>8. QED
  BY <1>7 DEF m, P

\* epoll_wait returns at most one event for a socket.
LEMMA PollFacts ==
  ASSUME ListInv, Poll
  PROVE  /\ ready' \subseteq EventType
         /\ \A a, b \in ready' : a.ptr = b.ptr => a = b
<1>1. /\ ready' \subseteq [ptr : epoll, kind : {"in", "err"}] \cup {Tun}
      /\ \A p \in epoll : Cardinality({e \in ready' : e.ptr = p}) <= 1
  BY DEF Poll
<1>2. epoll \subseteq Ptrs
  BY DEF ListInv
<1>3. ready' \subseteq EventType
  BY <1>1, <1>2 DEF EventType
<1>4. ASSUME NEW a \in ready', NEW b \in ready', a.ptr = b.ptr PROVE a = b
  <2>1. CASE a = Tun \/ b = Tun
    BY <1>3, <1>4, <2>1, TunFacts
  <2>2. CASE a # Tun /\ b # Tun
    <3> DEFINE p == a.ptr
               in == [ptr |-> p, kind |-> "in"]
               err == [ptr |-> p, kind |-> "err"]
               S == {e \in ready' : e.ptr = p}
    <3>1. p \in epoll
      BY <1>1, <2>2
    <3>2. p # NoFlow
      BY <1>2, <3>1, ListAssumption
    <3>3. S \in SUBSET ({in} \cup {err})
      <4> SUFFICES ASSUME NEW e \in ready', e.ptr = p PROVE e = in \/ e = err
        OBVIOUS
      <4>1. e # Tun
        BY <3>2 DEF Tun
      <4>2. e \in [ptr : epoll, kind : {"in", "err"}]
        BY <1>1, <4>1
      <4>3. QED
        BY <4>2
    <3>4. a \in S /\ b \in S
      BY <1>4
    <3>5. Cardinality(S) <= 1
      BY <1>1, <3>1
    <3> HIDE DEF S, p, in, err
    <3>6. IsFiniteSet({in}) /\ IsFiniteSet({in} \cup {err})
      BY FS_Singleton, FS_AddElement
    <3>7. IsFiniteSet(S) /\ Cardinality(S) \in Nat
      BY <3>3, <3>6, FS_Subset, FS_CardinalityType
    <3>8. Cardinality(S) # 0
      BY <3>4, <3>7, FS_EmptySet
    <3>9. Cardinality(S) = 1
      BY <3>5, <3>7, <3>8
    <3>10. \E x : S = {x}
      BY <3>7, <3>9, FS_Singleton
    <3>11. QED
      BY <3>4, <3>10
  <2>3. QED
    BY <2>1, <2>2
<1>5. QED
  BY <1>3, <1>4

\* The loop's own state stays in order.
LEMMA LoopNext ==
  ASSUME ListInv, [Next]_vars
  PROVE  LoopTyped' /\ Quiet'
<1>0. /\ ready \subseteq EventType
      /\ room \in 0..TunYield /\ sessions \in 0..Cardinality(Ptrs)
      /\ pc \in {"down", "count", "check", "poll", "batch"} /\ stopping \in BOOLEAN
      /\ answer \in [of : EchoIds \cup {0}, as : EchoIds \cup {0}]
  BY DEF ListInv, LoopTyped
<1>1. /\ pc # "batch" => ready = {} /\ room = 0
      /\ pc = "down" => epoll = {}
      /\ room > 0 => Tun \notin ready
      /\ \A a, b \in ready : a.ptr = b.ptr => a = b
  BY DEF ListInv, Quiet
<1>2. TunYield \in Nat /\ TunYield > 0
  BY ListAssumption
<1>3. NoAnswer \in [of : EchoIds \cup {0}, as : EchoIds \cup {0}]
  BY DEF NoAnswer
<1>4. CASE UNCHANGED vars
  BY <1>0, <1>1, <1>4 DEF LoopTyped, Quiet, vars
<1>5. CASE StartLoop
  BY <1>0, <1>1, <1>5 DEF LoopTyped, Quiet, StartLoop
<1>6. CASE CountSessions
  <2>1. Cardinality(Active(list)) \in Nat /\ Cardinality(Active(list)) <= Cardinality(Ptrs)
    BY CountFacts DEF ListInv, Active
  <2>2. Cardinality(Ptrs) \in Nat
    BY ListAssumption, FS_CardinalityType
  <2>3. sessions' \in 0..Cardinality(Ptrs)
    BY <1>6, <2>1, <2>2 DEF CountSessions
  <2>4. /\ pc = "count" /\ pc' = "check" /\ UNCHANGED <<epoll, answer, ready, room, stopping>>
    BY <1>6 DEF CountSessions, kernel
  <2>5. QED
    BY <1>0, <1>1, <2>3, <2>4 DEF LoopTyped, Quiet
<1>7. CASE CheckSessions \/ SkipChecks
  <2>1. /\ pc = "check" /\ pc' = "poll" /\ UNCHANGED <<answer, ready, room, sessions, stopping>>
    BY <1>7 DEF CheckSessions, SkipChecks, kernel
  <2>2. QED
    BY <1>0, <1>1, <2>1 DEF LoopTyped, Quiet
<1>8. CASE Poll
  <2>1. /\ pc = "poll" /\ pc' = "batch" /\ UNCHANGED <<answer, room, sessions, stopping>>
    BY <1>8 DEF Poll, kernel
  <2>2. /\ ready' \subseteq EventType
        /\ \A a, b \in ready' : a.ptr = b.ptr => a = b
    BY <1>8, PollFacts
  <2>3. QED
    BY <1>0, <1>1, <2>1, <2>2 DEF LoopTyped, Quiet
<1>9. CASE ReadTun \/ LeaveTun
  <2>1. /\ ready' \subseteq ready /\ room' \in 0..TunYield
        /\ UNCHANGED <<epoll, answer, sessions, pc, stopping>>
        /\ room' > 0 => pc = "batch" /\ Tun \notin ready'
    BY <1>2, <1>9 DEF ReadTun, LeaveTun, kernel, loop
  <2>2. QED
    BY <1>0, <1>1, <2>1 DEF LoopTyped, Quiet
<1>10. CASE HandlePacket
  <2>1. Packet
    BY <1>10 DEF HandlePacket, DropPacket, handle_udp, block_udp, handle_icmp, handle_tcp
  <2>2. /\ room > 0 /\ room' = room - 1
        /\ UNCHANGED <<ready, answer, sessions, pc, stopping>>
    BY <2>1 DEF Packet, loop
  <2>3. room \in Nat /\ room' \in 0..TunYield
    BY <1>0, <1>2, <2>2
  <2>4. pc = "batch"
    BY <1>1, <2>2, <2>3
  <2>5. QED
    BY <1>0, <1>1, <2>2, <2>3, <2>4 DEF LoopTyped, Quiet
<1>11. CASE HandleEvent
  <2>1. PICK ev \in ready, i \in DOMAIN list :
          check_udp_socket(ev, i) \/ check_icmp_socket(ev, i) \/ check_tcp_socket(ev, i)
    BY <1>11 DEF HandleEvent
  <2>2. Handle(ev, i)
    BY <2>1 DEF check_udp_socket, check_icmp_socket, check_tcp_socket
  <2>3. /\ pc = "batch" /\ ready' \subseteq ready
        /\ UNCHANGED <<room, sessions, pc, stopping>>
    BY <2>2 DEF Handle, loop
  <2>4. answer' \in [of : EchoIds \cup {0}, as : EchoIds \cup {0}]
    <3>0. list[i] \in SessionType
      BY DEF ListInv
    <3>1. list[i].id \in EchoIds \cup {0} /\ list[i].echo \subseteq EchoIds
      BY <3>0 DEF SessionType
    <3>2. \/ answer' = answer
          \/ \E r \in list[i].echo : answer' = [of |-> r, as |-> list[i].id]
      BY <2>1 DEF check_udp_socket, check_icmp_socket, check_tcp_socket
    <3>3. QED
      BY <1>0, <3>1, <3>2
  <2>5. QED
    BY <1>0, <1>1, <2>3, <2>4 DEF LoopTyped, Quiet
<1>12. CASE EndBatch
  BY <1>0, <1>1, <1>3, <1>12 DEF LoopTyped, Quiet, EndBatch
<1>13. CASE Stop
  BY <1>0, <1>1, <1>13 DEF LoopTyped, Quiet, Stop, kernel
<1>14. CASE StopLoop \/ FailLoop
  <2>1. Leave
    BY <1>14 DEF StopLoop, FailLoop
  <2>2. QED
    BY <1>0, <1>2, <1>3, <2>1 DEF LoopTyped, Quiet, Leave
<1>15. CASE Clear
  BY <1>0, <1>1, <1>15 DEF LoopTyped, Quiet, Clear, kernel
<1>16. CASE Tick
  BY <1>0, <1>1, <1>16 DEF LoopTyped, Quiet, Tick, kernel, loop
<1>17. QED
  BY Zenon, <1>4, <1>5, <1>6, <1>7, <1>8, <1>9, <1>10, <1>11, <1>12, <1>13, <1>14, <1>15,
     <1>16 DEF Next

\* A list that is carried on keeps the invariant: a session the kernel or the
\* batch refers to is still there, with its socket.
LEMMA CarriesKeep ==
  ASSUME ListInv, Carries
  PROVE  Distinct' /\ AllOwned' /\ NoDanglingEvent' /\ OneSocketPerFlow'
<1>1. PICK o : Moves(o)
  BY DEF Carries
<1>2. ASSUME NEW i \in DOMAIN list' PROVE o[i] \in DOMAIN list /\ Becomes(list[o[i]], list'[i])
  BY <1>1 DEF Moves
<1>3. \A i, j \in DOMAIN list' : o[i] = o[j] => i = j
  BY <1>1 DEF Moves
<1>4. Distinct'
  BY <1>2, <1>3 DEF Distinct, Becomes, ListInv
<1>5. AllOwned'
  BY <1>2 DEF AllOwned, Becomes, ListInv
<1>6. ASSUME NEW p, NEW i \in Owner(p), list[i].socket,
             p \in epoll' \/ \E ev \in ready' : ev.ptr = p
      PROVE  \E j \in Owner(p)' : list'[j].socket
  BY <1>6 DEF Owner, Carries, KeepsSockets
<1>7. ASSUME NEW p \in epoll' PROVE \E j \in Owner(p)' : list'[j].socket
  <2>1. p \in epoll
    BY DEF Carries, WatchesLess
  <2>2. QED
    BY <1>6, <2>1 DEF ListInv, NoDanglingEvent
<1>8. ASSUME NEW ev \in ready' \ {Tun} PROVE \E j \in Owner(ev.ptr)' : list'[j].socket
  <2>1. ev \in ready \/ ev.ptr \in epoll
    BY DEF Carries, WatchesLess
  <2>2. \E i \in Owner(ev.ptr) : list[i].socket
    BY <2>1 DEF ListInv, NoDanglingEvent
  <2>3. QED
    BY <1>6, <2>2
<1>9. NoDanglingEvent'
  BY <1>7, <1>8 DEF NoDanglingEvent, Tun, Owner
<1>10. OneSocketPerFlow'
  <2> SUFFICES ASSUME NEW i \in DOMAIN list', NEW j \in DOMAIN list',
                      list'[i].flow = list'[j].flow, list'[i].flow \in UdpFlows,
                      list'[i].socket, list'[j].socket
               PROVE  i = j
    BY DEF OneSocketPerFlow
  <2>1. list[o[i]].flow = list[o[j]].flow /\ list[o[i]].flow \in UdpFlows
    BY <1>2, FlowFacts DEF Becomes
  <2>2. list[o[i]].socket /\ list[o[j]].socket
    BY <1>2 DEF Becomes
  <2>3. o[i] = o[j]
    BY <1>2, <2>1, <2>2 DEF ListInv, OneSocketPerFlow
  <2>4. QED
    BY <1>3, <2>3
<1>11. QED
  BY <1>4, <1>5, <1>9, <1>10

\* The list with a session in front.
LEMMA FrontFacts ==
  ASSUME list \in Seq(SessionType), NEW e \in SessionType, list' = <<e>> \o list
  PROVE  /\ list' \in Seq(SessionType) /\ 1 \in DOMAIN list' /\ list'[1] = e
         /\ \A i \in DOMAIN list' : i # 1 => i - 1 \in DOMAIN list /\ list'[i] = list[i - 1]
         /\ \A i \in DOMAIN list : i + 1 \in DOMAIN list' /\ list'[i + 1] = list[i] /\ i \in Nat
         /\ \A i \in DOMAIN list' : i \in Nat
<1> DEFINE m == Len(list)
<1>1. m \in Nat /\ DOMAIN list = 1..m
  OBVIOUS
<1>2. list' \in Seq(SessionType) /\ Len(list') = m + 1
  OBVIOUS
<1>3. DOMAIN list' = 1..(m + 1)
  BY <1>2
<1>4. \A i \in 1..(m + 1) : list'[i] = IF i = 1 THEN e ELSE list[i - 1]
  OBVIOUS
<1> HIDE DEF m
<1>5. \A i \in 1..(m + 1) : i # 1 => i - 1 \in 1..m
  BY <1>1
<1>6. \A i \in 1..m : i \in Nat /\ i + 1 \in 1..(m + 1) /\ i + 1 # 1 /\ (i + 1) - 1 = i
  BY <1>1
<1>7. 1 \in 1..(m + 1) /\ \A i \in 1..(m + 1) : i \in Nat
  BY <1>1
<1>8. QED
  BY <1>1, <1>2, <1>3, <1>4, <1>5, <1>6, <1>7

\* A new session has an address and, if it is a UDP session with a socket, a
\* flow of its own.
LEMMA AddsKeep ==
  ASSUME ListInv, NEW e, Adds(e)
  PROVE  /\ list' \in Seq(SessionType) /\ epoll' \subseteq Ptrs
         /\ Distinct' /\ AllOwned' /\ NoDanglingEvent' /\ OneSocketPerFlow'
<1>1. e \in SessionType /\ list' = <<e>> \o list /\ list \in Seq(SessionType)
  BY DEF Adds, ListInv
<1>2. /\ list' \in Seq(SessionType) /\ 1 \in DOMAIN list' /\ list'[1] = e
      /\ \A i \in DOMAIN list' : i # 1 => i - 1 \in DOMAIN list /\ list'[i] = list[i - 1]
      /\ \A i \in DOMAIN list : i + 1 \in DOMAIN list' /\ list'[i + 1] = list[i] /\ i \in Nat
      /\ \A i \in DOMAIN list' : i \in Nat
  BY <1>1, FrontFacts
<1>3. epoll' \subseteq Ptrs
  BY <1>1 DEF Adds, ListInv, SessionType
<1>4. \A i \in DOMAIN list : list[i].ptr # e.ptr
  BY DEF Adds, PtrsOf
<1>5. ready' = ready
  BY DEF Adds, Packet
<1>6. ASSUME NEW i \in DOMAIN list', NEW j \in DOMAIN list', i # j
      PROVE  list'[i].ptr # list'[j].ptr
  <2>1. CASE i = 1 \/ j = 1
    BY <1>2, <1>4, <1>6, <2>1
  <2>2. CASE i # 1 /\ j # 1
    <3>0. i \in Nat /\ j \in Nat
      BY <1>2
    <3>1. i - 1 # j - 1
      BY <1>6, <3>0
    <3> DEFINE a == i - 1
               b == j - 1
    <3>2. /\ a \in DOMAIN list /\ b \in DOMAIN list
          /\ list'[i] = list[a] /\ list'[j] = list[b]
      BY <1>2, <2>2
    <3> HIDE DEF a, b
    <3>3. a # b
      BY <3>1 DEF a, b
    <3>4. QED
      BY <3>2, <3>3 DEF ListInv, Distinct
  <2>3. QED
    BY <2>1, <2>2
<1>7. Distinct'
  BY <1>6 DEF Distinct
<1>8. AllOwned'
  BY <1>2 DEF AllOwned, Adds, ListInv
<1>9. ASSUME NEW p, NEW i \in Owner(p), list[i].socket
      PROVE  \E j \in Owner(p)' : list'[j].socket
  <2>1. i + 1 \in Owner(p)' /\ list'[i + 1].socket
    BY <1>2, <1>9 DEF Owner
  <2>2. QED
    BY <2>1
<1>10. ASSUME NEW p \in epoll' PROVE \E j \in Owner(p)' : list'[j].socket
  <2>1. CASE p \in epoll
    BY <1>9, <2>1 DEF ListInv, NoDanglingEvent
  <2>2. CASE p \notin epoll
    <3>1. p = e.ptr /\ e.socket
      BY <2>2 DEF Adds
    <3>2. 1 \in Owner(p)' /\ list'[1].socket
      BY <1>2, <3>1 DEF Owner
    <3>3. QED
      BY <3>2
  <2>3. QED
    BY <2>1, <2>2
<1>11. ASSUME NEW ev \in ready' \ {Tun} PROVE \E j \in Owner(ev.ptr)' : list'[j].socket
  BY <1>5, <1>9 DEF ListInv, NoDanglingEvent
<1>12. NoDanglingEvent'
  BY <1>10, <1>11 DEF NoDanglingEvent, Tun, Owner
<1>13. OneSocketPerFlow'
  <2> SUFFICES ASSUME NEW i \in DOMAIN list', NEW j \in DOMAIN list', i # j,
                      list'[i].flow = list'[j].flow, list'[i].flow \in UdpFlows,
                      list'[i].socket, list'[j].socket
               PROVE  FALSE
    BY DEF OneSocketPerFlow
  <2>1. e.flow \in UdpFlows /\ e.socket => \A k \in DOMAIN list : list[k].flow # e.flow
    BY DEF Adds
  <2>2. CASE i = 1 \/ j = 1
    BY <1>2, <2>1, <2>2
  <2>3. CASE i # 1 /\ j # 1
    <3>0. i \in Nat /\ j \in Nat
      BY <1>2
    <3>1. i - 1 # j - 1
      BY <3>0
    <3> DEFINE a == i - 1
               b == j - 1
    <3>2. /\ a \in DOMAIN list /\ b \in DOMAIN list
          /\ list'[i] = list[a] /\ list'[j] = list[b]
      BY <1>2, <2>3
    <3> HIDE DEF a, b
    <3>3. a # b
      BY <3>1 DEF a, b
    <3>4. QED
      BY <3>2, <3>3 DEF ListInv, OneSocketPerFlow
  <2>4. QED
    BY <2>2, <2>3
<1>14. QED
  BY <1>2, <1>3, <1>7, <1>8, <1>12, <1>13

\* The invariant holds initially and is kept by every step.
LEMMA ListInductive ==
  /\ Init => ListInv
  /\ ListInv /\ [Next]_vars => ListInv'
<1>1. ASSUME Init PROVE ListInv
  <2>1. list \in Seq(SessionType) /\ DOMAIN list = {}
    BY <1>1 DEF Init
  <2>2. Cardinality(Ptrs) \in Nat /\ TunYield \in Nat
    BY ListAssumption, FS_CardinalityType
  <2>3. LoopTyped /\ Quiet
    <3>1. 0 \in 0..TunYield /\ 0 \in 0..Cardinality(Ptrs) /\ ~(0 > 0)
      BY <2>2
    <3>2. NoAnswer \in [of : EchoIds \cup {0}, as : EchoIds \cup {0}]
      BY DEF NoAnswer
    <3>3. LoopTyped
      BY <1>1, <3>1, <3>2 DEF Init, LoopTyped
    <3>4. Quiet
      BY <1>1, <3>1 DEF Init, Quiet
    <3>5. QED
      BY <3>3, <3>4
  <2>4. Distinct /\ AllOwned /\ OneSocketPerFlow
    BY Zenon, <2>1 DEF Distinct, AllOwned, OneSocketPerFlow
  <2>5. NoDanglingEvent
    BY <1>1 DEF Init, NoDanglingEvent
  <2>6. QED
    BY <1>1, <2>1, <2>3, <2>4, <2>5 DEF Init, ListInv
<1>2. ASSUME ListInv, [Next]_vars PROVE ListInv'
  <2>1. LoopTyped' /\ Quiet'
    BY <1>2, LoopNext
  <2>2. CASE Carries
    <3>1. list' \in Seq(SessionType) /\ epoll' \subseteq Ptrs
      BY <1>2, <2>2 DEF Carries, WatchesLess, ListInv
    <3>2. Distinct' /\ AllOwned' /\ NoDanglingEvent' /\ OneSocketPerFlow'
      BY <1>2, <2>2, CarriesKeep
    <3>3. QED
      BY <2>1, <3>1, <3>2 DEF ListInv
  <2>3. CASE \E e : Adds(e)
    BY <1>2, <2>1, <2>3, AddsKeep DEF ListInv
  <2>4. QED
    BY <1>2, <2>2, <2>3, StepKinds
<1>3. QED
  BY <1>1, <1>2

\* Types, and a session is in the list once: no step links an address that the
\* list still holds, and handle_events and check_sessions lose none.
THEOREM ListTyped == Spec => []TypeOK
<1>1. ListInv => TypeOK
  <2> SUFFICES ASSUME ListInv PROVE TypeOK
    OBVIOUS
  <2>1. Cardinality(PtrsOf(list)) = Len(list)
    BY AddressFacts DEF ListInv
  <2>2. QED
    BY <2>1 DEF ListInv, LoopTyped, EventType, TypeOK
<1>2. QED
  BY <1>1, ListInductive, PTL DEF Spec

\* handle_events never dereferences a session that ng_free released, and every
\* registered socket belongs to a session of the list.
THEOREM EventsOwned == Spec => []NoDanglingEvent
<1>1. ListInv => NoDanglingEvent
  BY DEF ListInv
<1>2. QED
  BY <1>1, ListInductive, PTL DEF Spec

\* check_udp_session and check_icmp_session close the descriptor of a session
\* once, and a session that still has one is active or finishing.
THEOREM DescriptorOwned == Spec => []SocketOwned
<1>1. ListInv => SocketOwned
  BY DEF ListInv, AllOwned, Owned, SocketOwned, SessionType
<1>2. QED
  BY <1>1, ListInductive, PTL DEF Spec

\* handle_udp opens no second socket for a flow, whatever blocked sessions of
\* the flow are in front of the one it must find.
THEOREM FlowHasOneSocket == Spec => []OneSocketPerFlow
<1>1. ListInv => OneSocketPerFlow
  BY DEF ListInv
<1>2. QED
  BY <1>1, ListInductive, PTL DEF Spec

(***************************************************************************)
(* The limit on the number of sessions.                                    *)
(***************************************************************************)
Limited(l) == {i \in Active(l) : l[i].flow \notin DnsFlows}

\* The packets that the batch may have read so far.
Slack == IF Tun \in ready THEN 0 ELSE TunYield - room

\* The count of a turn bounds the sessions until the batch; in the batch each
\* packet adds at most one, and none if the count had reached the limit.
BoundInv ==
  /\ Cardinality(Limited(list)) < MaxSessions + TunYield
  /\ pc \in {"check", "poll"} => Cardinality(Limited(list)) <= sessions
  /\ pc = "batch" /\ sessions < MaxSessions =>
       Cardinality(Limited(list)) <= sessions + Slack

\* The sessions under the limit are finitely many.
LEMMA LimitedFacts ==
  ASSUME ListInv
  PROVE  /\ IsFiniteSet(Limited(list)) /\ Cardinality(Limited(list)) \in Nat
         /\ IsFiniteSet(Active(list)) /\ Cardinality(Active(list)) \in Nat
         /\ Cardinality(Limited(list)) <= Cardinality(Active(list))
<1>1. Limited(list) \in SUBSET Active(list) /\ Active(list) \in SUBSET (DOMAIN list)
  BY DEF Limited, Active
<1>2. IsFiniteSet(Active(list)) /\ Cardinality(Active(list)) \in Nat
  BY <1>1, CountFacts DEF ListInv
<1>3. IsFiniteSet(Limited(list)) /\ Cardinality(Limited(list)) <= Cardinality(Active(list))
  BY <1>1, <1>2, FS_Subset
<1>4. QED
  BY <1>2, <1>3, FS_CardinalityType

\* A list that is carried on has no more of them.
LEMMA LimitedCarries ==
  ASSUME ListInv, Carries, DnsFlows \cap DhcpFlows = {}
  PROVE  Cardinality(Limited(list')) <= Cardinality(Limited(list))
<1>1. PICK o : Moves(o)
  BY DEF Carries
<1> DEFINE A == Limited(list)
           B == Limited(list')
           g == [i \in B |-> o[i]]
<1>2. B \subseteq DOMAIN list'
  BY DEF Limited, Active
<1>3. ASSUME NEW i \in B PROVE o[i] \in A
  <2>1. o[i] \in DOMAIN list /\ Becomes(list[o[i]], list'[i])
    BY <1>1, <1>2 DEF Moves
  <2>2. list'[i].state = "ACTIVE" /\ list'[i].flow \notin DnsFlows
    BY DEF Limited, Active
  <2>3. list[o[i]].state = "ACTIVE" /\ list[o[i]].flow \notin DnsFlows
    BY <2>1, <2>2 DEF Becomes
  <2>4. QED
    BY <2>1, <2>3 DEF Limited, Active
<1>4. g \in [B -> A]
  BY <1>3
<1>5. IsInjective(g)
  BY <1>1, <1>2 DEF Moves, IsInjective
<1>6. g \in Injection(B, A)
  BY <1>4, <1>5 DEF Injection
<1>7. IsFiniteSet(A)
  BY LimitedFacts
<1> HIDE DEF A, B, g
<1>8. Cardinality(B) <= Cardinality(A)
  BY <1>6, <1>7, FS_Injection
<1>9. QED
  BY <1>8 DEF A, B

\* A new session is one more, and none once the count has reached the limit.
LEMMA LimitedAdds ==
  ASSUME ListInv, ListInv', NEW e, Adds(e), DnsFlows \cap DhcpFlows = {}
  PROVE  /\ Cardinality(Limited(list')) <= Cardinality(Limited(list)) + 1
         /\ ~(sessions < MaxSessions) =>
              Cardinality(Limited(list')) <= Cardinality(Limited(list))
<1> DEFINE A == Limited(list)
           B == Limited(list')
           C == B \ {1}
           g == [i \in C |-> i - 1]
<1>1. e \in SessionType /\ list' = <<e>> \o list /\ list \in Seq(SessionType)
  BY DEF Adds, ListInv
<1>2. /\ list'[1] = e
      /\ \A i \in DOMAIN list' : i # 1 => i - 1 \in DOMAIN list /\ list'[i] = list[i - 1]
      /\ \A i \in DOMAIN list' : i \in Nat
  BY <1>1, FrontFacts
<1>3. B \subseteq DOMAIN list' /\ C \subseteq Nat
  BY <1>2 DEF Limited, Active
<1>4. ASSUME NEW i \in C PROVE i - 1 \in A
  <2> DEFINE a == i - 1
  <2>1. a \in DOMAIN list /\ list'[i] = list[a]
    BY <1>2, <1>3
  <2>2. list'[i].state = "ACTIVE" /\ list'[i].flow \notin DnsFlows
    BY DEF Limited, Active
  <2> HIDE DEF a
  <2>3. a \in A
    BY <2>1, <2>2 DEF Limited, Active
  <2>4. QED
    BY <2>3 DEF a
<1>5. g \in [C -> A]
  BY <1>4
<1>6. IsInjective(g)
  <2> SUFFICES ASSUME NEW i \in C, NEW j \in C, i - 1 = j - 1 PROVE i = j
    BY DEF IsInjective
  <2>1. i \in Nat /\ j \in Nat
    BY <1>3
  <2>2. QED
    BY <2>1
<1>7. g \in Injection(C, A)
  BY <1>5, <1>6 DEF Injection
<1>8. IsFiniteSet(A) /\ Cardinality(A) \in Nat
  BY LimitedFacts
<1>9. IsFiniteSet(B) /\ Cardinality(B) \in Nat
  <2>1. list' \in Seq(SessionType) /\ Len(list') \in Nat /\ DOMAIN list' = 1..Len(list')
    BY DEF ListInv
  <2> DEFINE m == Len(list')
  <2>2. m \in Nat /\ B \in SUBSET (1..m)
    BY <1>3, <2>1
  <2> HIDE DEF m, B
  <2>3. QED
    BY <2>2, RankFacts
<1>10. ~(sessions < MaxSessions) => 1 \notin B
  BY <1>2 DEF Limited, Active, Adds
<1> HIDE DEF A, B, g
<1>11. Cardinality(C) <= Cardinality(A)
  BY <1>7, <1>8, FS_Injection
<1>12. Cardinality(C) = IF 1 \in B THEN Cardinality(B) - 1 ELSE Cardinality(B)
  BY <1>9, FS_RemoveElement
<1>13. /\ Cardinality(B) <= Cardinality(A) + 1
       /\ ~(sessions < MaxSessions) => Cardinality(B) <= Cardinality(A)
  <2> HIDE DEF C
  <2>1. CASE 1 \in B
    <3>1. Cardinality(C) = Cardinality(B) - 1
      BY <1>12, <2>1
    <3>2. QED
      BY <1>8, <1>9, <1>10, <1>11, <2>1, <3>1
  <2>2. CASE 1 \notin B
    <3>1. Cardinality(C) = Cardinality(B)
      BY <1>12, <2>2
    <3>2. QED
      BY <1>8, <1>9, <1>11, <3>1
  <2>3. QED
    BY <2>1, <2>2
<1>14. QED
  BY <1>13 DEF A, B

\* The turns of the loop: the count is renewed only before the checks, and in
\* a batch the slack never shrinks.
LEMMA TurnFacts ==
  ASSUME ListInv, ListInv', [Next]_vars
  PROVE  /\ Slack \in 0..TunYield /\ Slack' \in 0..TunYield
         /\ pc' \in {"check", "poll"} =>
              CountSessions \/ (pc \in {"check", "poll"} /\ sessions' = sessions)
         /\ pc' = "batch" => sessions' = sessions /\ (pc = "poll" \/ (pc = "batch" /\ Slack <= Slack'))
<1>1. /\ room \in 0..TunYield /\ room' \in 0..TunYield /\ TunYield \in Nat
  BY ListAssumption DEF ListInv, LoopTyped
<1>2. Slack \in 0..TunYield /\ Slack' \in 0..TunYield
  <2>1. \A r \in 0..TunYield : TunYield - r \in 0..TunYield
    BY <1>1
  <2>2. 0 \in 0..TunYield
    BY <1>1
  <2>3. Slack = 0 \/ Slack = TunYield - room
    BY DEF Slack
  <2>4. Slack' = 0 \/ Slack' = TunYield - room'
    BY DEF Slack
  <2>5. QED
    BY <1>1, <2>1, <2>2, <2>3, <2>4
<1>3. CASE UNCHANGED vars
  <2>1. Slack' = Slack /\ pc' = pc /\ sessions' = sessions
    BY <1>3 DEF vars, Slack
  <2>2. QED
    BY <1>2, <2>1
<1>4. CASE StartLoop \/ CountSessions
  BY <1>2, <1>4 DEF StartLoop, CountSessions
<1>5. CASE CheckSessions \/ SkipChecks
  BY <1>2, <1>5 DEF CheckSessions, SkipChecks
<1>6. CASE Poll
  BY <1>2, <1>6 DEF Poll
<1>7. CASE ReadTun
  <2>1. pc' = "batch" /\ pc = "batch" /\ sessions' = sessions /\ Tun \in ready
    BY <1>7 DEF ReadTun, loop
  <2>2. Slack = 0
    BY <2>1 DEF Slack
  <2>3. QED
    BY <1>1, <1>2, <2>1, <2>2
<1>8. CASE LeaveTun \/ HandlePacket
  <2>1. HandlePacket => Packet
    BY DEF HandlePacket, DropPacket, handle_udp, block_udp, handle_icmp, handle_tcp
  <2>2. /\ room > 0 /\ room' <= room /\ ready' = ready /\ pc' = pc /\ sessions' = sessions
    BY <1>1, <1>8, <2>1 DEF LeaveTun, Packet, loop
  <2>3. pc = "batch" /\ Tun \notin ready
    BY <1>1, <2>2 DEF ListInv, Quiet
  <2>4. Slack = TunYield - room /\ Slack' = TunYield - room'
    BY <2>2, <2>3 DEF Slack
  <2>5. Slack <= Slack'
    <3>0. \A q, r \in 0..TunYield : q <= r => TunYield - r <= TunYield - q
      BY <1>1
    <3>1. TunYield - room <= TunYield - room'
      BY <1>1, <2>2, <3>0
    <3>2. QED
      BY <2>4, <3>1
  <2>6. QED
    BY <1>2, <2>2, <2>3, <2>5
<1>9. CASE HandleEvent
  <2>1. PICK ev \in ready, i \in DOMAIN list : Handle(ev, i)
    BY <1>9 DEF HandleEvent, check_udp_socket, check_icmp_socket, check_tcp_socket
  <2>2. /\ pc = "batch" /\ pc' = "batch" /\ sessions' = sessions /\ room' = room
        /\ ev # Tun /\ ready' = ready \ {ev}
    BY <2>1 DEF Handle, loop
  <2>3. Slack' = Slack
    BY <2>2 DEF Slack
  <2>4. QED
    BY <1>1, <1>2, <2>2, <2>3
<1>10. CASE Stop \/ Tick
  <2>1. Slack' = Slack /\ pc' = pc /\ sessions' = sessions
    BY <1>10 DEF Stop, Tick, Slack, loop
  <2>2. QED
    BY <1>1, <1>2, <2>1
<1>11. CASE EndBatch \/ StopLoop \/ FailLoop
  BY <1>2, <1>11 DEF EndBatch, StopLoop, FailLoop, Leave
<1>12. CASE Clear
  BY <1>2, <1>12 DEF Clear
<1>13. QED
  BY Zenon, <1>3, <1>4, <1>5, <1>6, <1>7, <1>8, <1>9, <1>10, <1>11, <1>12 DEF Next

\* Each step keeps the bound.
LEMMA BoundNext ==
  ASSUME ListInv, ListInv', BoundInv, [Next]_vars, DnsFlows \cap DhcpFlows = {}
  PROVE  BoundInv'
<1> DEFINE a == Cardinality(Limited(list))
           b == Cardinality(Limited(list'))
<1>1. /\ a < MaxSessions + TunYield
      /\ pc \in {"check", "poll"} => a <= sessions
      /\ pc = "batch" /\ sessions < MaxSessions => a <= sessions + Slack
  BY DEF BoundInv
<1>2. a \in Nat /\ sessions \in Nat /\ MaxSessions \in Nat /\ TunYield \in Nat
  <2>1. Cardinality(Ptrs) \in Nat
    BY ListAssumption, FS_CardinalityType
  <2>2. QED
    BY <2>1, LimitedFacts, ListAssumption DEF ListInv, LoopTyped
<1>3. b \in Nat
  <2>1. Limited(list') \in SUBSET (DOMAIN list')
    BY DEF Limited, Active
  <2> DEFINE m == Len(list')
  <2>2. m \in Nat /\ Limited(list') \in SUBSET (1..m)
    BY <2>1 DEF ListInv
  <2> HIDE DEF m
  <2>3. QED
    BY <2>2, RankFacts
<1>4. /\ Slack \in 0..TunYield /\ Slack' \in 0..TunYield
      /\ pc' \in {"check", "poll"} =>
           CountSessions \/ (pc \in {"check", "poll"} /\ sessions' = sessions)
      /\ pc' = "batch" => sessions' = sessions /\ (pc = "poll" \/ (pc = "batch" /\ Slack <= Slack'))
  BY TurnFacts
<1>5. CASE Carries
  <2>1. b <= a
    BY <1>5, LimitedCarries
  <2>2. CountSessions => b <= sessions'
    <3>1. CountSessions => sessions' = Cardinality(Active(list)) /\ list' = list
      BY DEF CountSessions
    <3>2. QED
      BY <3>1, LimitedFacts
  <2> HIDE DEF a, b
  <2>3. b < MaxSessions + TunYield
    BY <1>1, <1>2, <1>3, <2>1
  <2>4. pc' \in {"check", "poll"} => b <= sessions'
    BY <1>1, <1>2, <1>3, <1>4, <2>1, <2>2
  <2>5. ASSUME pc' = "batch", sessions' < MaxSessions PROVE b <= sessions' + Slack'
    <3>1. sessions' = sessions /\ Slack \in Nat /\ Slack' \in Nat
      BY <1>2, <1>4, <2>5
    <3>2. PICK s \in Nat, t \in Nat : s = Slack /\ t = Slack'
      BY <3>1
    <3>3. CASE pc = "poll"
      <4>1. b <= sessions + t
        BY <1>1, <1>2, <1>3, <2>1, <3>3
      <4>2. QED
        BY <3>1, <3>2, <4>1
    <3>5. CASE pc = "batch" /\ Slack <= Slack'
      <4>1. a <= sessions + s /\ s <= t
        BY <1>1, <2>5, <3>1, <3>2, <3>5
      <4>2. b <= sessions + t
        BY <1>2, <1>3, <2>1, <4>1
      <4>3. QED
        BY <3>1, <3>2, <4>2
    <3>4. QED
      BY <1>4, <2>5, <3>3, <3>5
  <2>6. QED
    BY <2>3, <2>4, <2>5 DEF BoundInv, b
<1>6. ASSUME NEW e, Adds(e) PROVE BoundInv'
  <2>1. /\ b <= a + 1
        /\ ~(sessions < MaxSessions) => b <= a
    BY <1>6, LimitedAdds
  <2>2. /\ room > 0 /\ room' = room - 1 /\ ready' = ready /\ pc' = pc /\ sessions' = sessions
    BY <1>6 DEF Adds, Packet, loop
  <2>3. room \in 0..TunYield
    BY DEF ListInv, LoopTyped
  <2>4. pc = "batch" /\ Tun \notin ready
    BY <1>2, <2>2, <2>3 DEF ListInv, Quiet
  <2>5. Slack = TunYield - room /\ Slack' = TunYield - room'
    BY <2>2, <2>4 DEF Slack
  <2>6. Slack' = Slack + 1 /\ Slack \in Nat /\ Slack + 1 <= TunYield
    BY <1>2, <2>2, <2>3, <2>5
  <2> HIDE DEF a, b
  <2>7. sessions < MaxSessions => a <= sessions + Slack
    BY <1>1, <2>4
  <2>8. sessions < MaxSessions => b <= sessions + Slack'
    BY <1>2, <1>3, <2>1, <2>6, <2>7
  <2>9. b < MaxSessions + TunYield
    <3>1. CASE sessions < MaxSessions
      BY <1>2, <1>3, <2>6, <2>8, <3>1
    <3>2. CASE ~(sessions < MaxSessions)
      BY <1>1, <1>2, <1>3, <2>1, <3>2
    <3>3. QED
      BY <3>1, <3>2
  <2>10. QED
    BY <2>2, <2>4, <2>8, <2>9 DEF BoundInv, b
<1>7. QED
  BY <1>5, <1>6, StepKinds

\* The limit of handle_ip, checked against the count made before the batch, is
\* exceeded by less than the packets of one batch, not counting DNS: provided
\* that no DHCP request goes to port 53.  A session of such a flow would enter
\* as DNS and be counted once the DHCP reply replaced its address.
THEOREM SessionsLimited ==
  ASSUME DnsFlows \cap DhcpFlows = {}
  PROVE  Spec => []SessionBound
<1>1. Init => BoundInv
  <2> SUFFICES ASSUME Init PROVE BoundInv
    OBVIOUS
  <2>1. list = <<>> /\ pc = "down"
    BY DEF Init
  <2>2. Limited(list) = {}
    BY <2>1 DEF Limited, Active
  <2>3. Cardinality(Limited(list)) = 0
    BY <2>2, FS_EmptySet
  <2>4. 0 < MaxSessions + TunYield
    BY ListAssumption
  <2>5. QED
    BY <2>1, <2>3, <2>4 DEF BoundInv
<1>2. ListInv /\ ListInv' /\ BoundInv /\ [Next]_vars => BoundInv'
  BY BoundNext
<1>3. BoundInv => SessionBound
  BY DEF BoundInv, SessionBound, Limited
<1>4. QED
  BY <1>1, <1>2, <1>3, ListInductive, PTL DEF Spec
=============================================================================
