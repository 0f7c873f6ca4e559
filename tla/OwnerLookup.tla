----------------------------- MODULE OwnerLookup -----------------------------
(***************************************************************************)
(* Whose packet is it: handle_ip (ip.c) takes the uid of a session, or     *)
(* asks the kernel (up to Android 9 by reading /proc/net through a cache,  *)
(* later through getUidQ), or falls back on what MyVpnService remembers of *)
(* the destination.                                                        *)
(*                                                                         *)
(* The apps' sockets come and go beside the tunnel thread, and a port is   *)
(* used again by another app.  An IPv4 packet is looked up in the table of *)
(* IPv6 first, where sockets of both kinds may be listed.  A flow is the   *)
(* protocol, the port and the destination of a packet; a socket that is    *)
(* not connected has the destination Any.  Times are ages: 0 now, MaxAge   *)
(* the oldest a cached row may be, one more is too old.                    *)
(***************************************************************************)
EXTENDS Integers, Sequences, FiniteSets, Positions

CONSTANTS
  Sockets,   \* sockets the apps may open, as rows of the kernel's tables
  Flows,     \* flows of the packets
  Any,       \* the destination of a socket that is not connected
  MaxAge,    \* UID_MAX_AGE
  MaxRows,   \* bound: sockets open at a time
  MaxCache,  \* bound: entries of uid_cache
  MaxSessions

Unknown == -1
Failed == -2    \* a table could not be read

Protocol == {"tcp", "udp", "icmp"}

Socket == [version : {4, 6}, protocol : Protocol, port : Nat, dest : STRING, uid : Nat]
Flow == [protocol : Protocol, port : Nat, dest : STRING]

ASSUME OwnerAssumption ==
  /\ Sockets \subseteq Socket /\ Flows \subseteq Flow
  /\ Any \in STRING /\ \A f \in Flows : f.dest # Any
  /\ \A s \in Sockets : ~(s.protocol = "icmp" /\ s.version = 6)
  /\ MaxAge \in Nat /\ MaxRows \in Nat /\ MaxCache \in Nat /\ MaxSessions \in Nat

VARIABLES
  q,         \* BOOLEAN: the device runs Android 10 or later
  rows,      \* the kernel's tables: the open sockets
  gone,      \* sockets that were closed, with the time since
  uid_cache, \* rows read from /proc/net, with the time since
  sessions,  \* flow and uid of the sessions, the newest first
  map,       \* mapIPKeyUid
  last,      \* the packet in handle_ip and the owner found for it, or none
  seen       \* owners and destinations since the start, and since the sessions
             \* were cleared; the most entries of uid_cache that were not
             \* expired at a time

vars == <<q, rows, gone, uid_cache, sessions, map, last, seen>>

NoPacket == [by |-> "none"]

\* A socket that may have sent a packet of the flow.
Matches(s, f) ==
  s.protocol = f.protocol /\ s.port = f.port /\ s.dest \in {f.dest, Any}

(***************************************************************************)
(* The cache of /proc/net.                                                 *)
(***************************************************************************)
Expired(e) == e.age > MaxAge

\* Mutant: the age is not looked at.
Hits_any_age(version, f) ==
  {i \in DOMAIN uid_cache :
     uid_cache[i].row.version = version /\ Matches(uid_cache[i].row, f)}

Hits(version, f) ==
  {i \in DOMAIN uid_cache :
     /\ ~Expired(uid_cache[i])
     /\ uid_cache[i].row.version = version /\ Matches(uid_cache[i].row, f)}

\* Mutant: only the end of the cache is written.
FreeSlots_none(cache) == {}

FreeSlots(cache) == {i \in DOMAIN cache : Expired(cache[i])}

\* The slot of the i-th row: the i-th one that is expired, then a new one.
Slot(cache, i) ==
  LET free == FreeSlots(cache)
      n    == Cardinality(free)
  IN  IF i <= n THEN Nth(free, i) ELSE Len(cache) + (i - n)

\* The cache after the rows were read.
Filled(cache, table) ==
  LET slots == {Slot(cache, i) : i \in DOMAIN table}
      size  == Cardinality(DOMAIN cache \cup slots)
  IN  [k \in 1..size |->
         IF k \in slots
         THEN [row |-> table[CHOOSE i \in DOMAIN table : Slot(cache, i) = k], age |-> 0]
         ELSE cache[k]]

\* The rows of a table, in any order.
Orders(S) ==
  {o \in [1..Cardinality(S) -> S] : \A i, j \in DOMAIN o : o[i] = o[j] => i = j}

\* The last row of a table that matches decides.
LastMatch(table, f) ==
  LET m == {i \in DOMAIN table : Matches(table[i], f)}
  IN  IF m = {} THEN Unknown
      ELSE table[CHOOSE i \in m : \A j \in m : j <= i].uid

\* Outcomes of scanning a table: it cannot be opened, it is read, or a line of
\* it is not understood.
Scans(version, f, cache) ==
  LET table == {r \in rows : r.version = version /\ r.protocol = f.protocol}
  IN  {[uid |-> Failed, cache |-> cache]}
      \cup {[uid |-> LastMatch(o, f), cache |-> Filled(cache, o)] : o \in Orders(table)}
      \cup {[uid |-> Failed, cache |-> Filled(cache, SubSeq(o, 1, n))] :
              o \in Orders(table), n \in 0..Cardinality(table)}

\* There is no table of ICMP for IPv6: that is ICMPv6.
get_uid_sub(version, f, cache) ==
  CASE Hits(version, f) # {} ->
         {[uid |-> uid_cache[First(Hits(version, f))].row.uid, cache |-> cache]}
    [] Hits(version, f) = {} /\ f.protocol = "icmp" /\ version = 6 ->
         {[uid |-> Unknown, cache |-> cache]}
    [] OTHER -> Scans(version, f, cache)

\* Mutant: no fallback.
get_uid_v6_only(f) == get_uid_sub(6, f, uid_cache)

\* The table of IPv6 first, that of IPv4 only if nothing was found there.
get_uid(f) ==
  UNION {IF r.uid = Unknown THEN get_uid_sub(4, f, r.cache) ELSE {r} :
           r \in get_uid_sub(6, f, uid_cache)}

\* getConnectionOwnerUid (external), for TCP and UDP only; it may fail.
get_uid_q(f) ==
  {[uid |-> u, cache |-> uid_cache] :
     u \in {Unknown} \cup
           (IF f.protocol = "icmp" THEN {} ELSE {r.uid : r \in {s \in rows : Matches(s, f)}})}

(***************************************************************************)
(* Sessions and the map of MyVpnService.                                   *)
(***************************************************************************)
\* The protocol of the packet is not compared, and an ICMP session is found
\* for every packet to its destination.
SessionMatches(s, f) ==
  /\ s.flow.dest = f.dest
  /\ s.flow.protocol # "icmp" => f.protocol # "icmp" /\ s.flow.port = f.port

get_uid_from_session(f) ==
  LET m == {i \in DOMAIN sessions : SessionMatches(sessions[i], f)}
  IN  IF m = {} THEN Unknown ELSE sessions[First(m)].uid

\* An IPKey without source and uid.
Key(f) == <<f.protocol, f.dest>>
Keys == {Key(f) : f \in Flows}
NoUids == [k \in Keys |-> Unknown]

getUidCached(f) == map[Key(f)]

\* Mutant: a failure is not replaced by "unknown".
Fallback_failure(f, uid) == IF getUidCached(f) = Unknown THEN uid ELSE getUidCached(f)

Fallback(f, uid) == getUidCached(f)

\* The handler makes a session for a flow that has none.
Kept(f, uid) ==
  IF Len(sessions) < MaxSessions
     /\ ~\E i \in DOMAIN sessions :
           /\ sessions[i].flow.protocol = f.protocol /\ sessions[i].flow.dest = f.dest
           /\ f.protocol = "icmp" \/ sessions[i].flow.port = f.port
  THEN {sessions, <<[flow |-> f, uid |-> uid]>> \o sessions}
  ELSE {sessions}

(***************************************************************************)
(* handle_ip.                                                              *)
(***************************************************************************)
Packet(f) == last = NoPacket /\ f \in Flows /\ UNCHANGED <<q, rows, gone>>

OfSession(f) ==
  /\ Packet(f) /\ get_uid_from_session(f) >= 0
  /\ last' = [by |-> "session", flow |-> f, uid |-> get_uid_from_session(f)]
  /\ sessions' \in Kept(f, get_uid_from_session(f))
  /\ UNCHANGED <<uid_cache, map, seen>>

Current(cache) == Cardinality({i \in DOMAIN cache : ~Expired(cache[i])})

Counted(cache) ==
  seen' = [seen EXCEPT !.peak = IF Current(cache) > @ THEN Current(cache) ELSE @]

\* The kernel knows the owner, who is remembered for the destination.
OfKernel(f) ==
  /\ Packet(f) /\ get_uid_from_session(f) < 0
  /\ \E r \in IF q THEN get_uid_q(f) ELSE get_uid(f) :
       /\ r.uid >= 0 /\ Len(r.cache) <= MaxCache
       /\ uid_cache' = r.cache /\ Counted(r.cache)
       /\ map' = [map EXCEPT ![Key(f)] = r.uid]
       /\ last' = [by |-> "kernel", flow |-> f, uid |-> r.uid]
       /\ sessions' \in Kept(f, r.uid)

\* It does not, or could not be asked.
OfDestination(f) ==
  /\ Packet(f) /\ get_uid_from_session(f) < 0
  /\ \E r \in IF q THEN get_uid_q(f) ELSE get_uid(f) :
       /\ r.uid < 0 /\ Len(r.cache) <= MaxCache
       /\ uid_cache' = r.cache /\ Counted(r.cache)
       /\ last' = [by |-> "map", flow |-> f, uid |-> Fallback(f, r.uid),
                   failed |-> r.uid = Failed \/ q]
       /\ sessions' \in Kept(f, Fallback(f, r.uid))
  /\ UNCHANGED map

\* The packet is dispatched, and the next one read.
Dispatch ==
  /\ last # NoPacket /\ last' = NoPacket
  /\ UNCHANGED <<q, rows, gone, uid_cache, sessions, map, seen>>

EndSession(i) ==
  /\ last = NoPacket /\ i \in DOMAIN sessions
  /\ sessions' = SubSeq(sessions, 1, i - 1) \o SubSeq(sessions, i + 1, Len(sessions))
  /\ UNCHANGED <<q, rows, gone, uid_cache, map, last, seen>>

(***************************************************************************)
(* The tunnel's start and the service's end.                               *)
(***************************************************************************)
\* Owners a lookup may still find from now on.
Owning == {<<s.uid, s.dest>> : s \in rows \cup {g.row : g \in gone}}

\* Mutant: the owners are not forgotten.
prepareCacheMaps_keeps_uids == UNCHANGED map

prepareCacheMaps == map' = NoUids

\* stopNative, which joins the loop and calls jni_clear, and startNative;
\* uid_cache stays.
Restart ==
  /\ last = NoPacket
  /\ sessions' = <<>> /\ prepareCacheMaps
  /\ seen' = [seen EXCEPT !.owners = Owning, !.cleared = Owning]
  /\ UNCHANGED <<q, rows, gone, uid_cache, last>>

\* The loop had ended by itself: there is no thread any more, stopNative does
\* nothing, and the sessions are still there in the next loop.
RestartAfterExit ==
  /\ last = NoPacket
  /\ prepareCacheMaps
  /\ seen' = [seen EXCEPT !.owners = Owning]
  /\ UNCHANGED <<q, rows, gone, uid_cache, sessions, last>>

\* jni_done, and another MyVpnService.
Destroy ==
  /\ last = NoPacket
  /\ uid_cache' = <<>> /\ sessions' = <<>> /\ map' = NoUids
  /\ seen' = [owners |-> Owning, cleared |-> Owning, peak |-> 0]
  /\ UNCHANGED <<q, rows, gone, last>>

(***************************************************************************)
(* The apps and the clock (external).                                      *)
(***************************************************************************)
\* Two sockets of a protocol may not have the same port and destination.
Open(s) ==
  /\ last = NoPacket /\ Cardinality(rows) < MaxRows
  /\ \A r \in rows : ~(r.protocol = s.protocol /\ r.port = s.port /\ r.dest = s.dest)
  /\ rows' = rows \cup {s} /\ gone' = {g \in gone : g.row # s}
  /\ seen' = [seen EXCEPT !.owners = @ \cup {<<s.uid, s.dest>>},
                          !.cleared = @ \cup {<<s.uid, s.dest>>}]
  /\ UNCHANGED <<q, uid_cache, sessions, map, last>>

Close(s) ==
  /\ last = NoPacket /\ s \in rows
  /\ rows' = rows \ {s} /\ gone' = gone \cup {[row |-> s, age |-> 0]}
  /\ UNCHANGED <<q, uid_cache, sessions, map, last, seen>>

Tick ==
  /\ last = NoPacket
  /\ gone' = {[g EXCEPT !.age = @ + 1] : g \in {h \in gone : h.age < MaxAge}}
  /\ uid_cache' = [i \in DOMAIN uid_cache |->
                     [uid_cache[i] EXCEPT !.age = IF Expired(uid_cache[i]) THEN @ ELSE @ + 1]]
  /\ UNCHANGED <<q, rows, sessions, map, last, seen>>

Init ==
  /\ q \in BOOLEAN
  /\ rows = {} /\ gone = {} /\ uid_cache = <<>> /\ sessions = <<>>
  /\ map = NoUids /\ last = NoPacket
  /\ seen = [owners |-> {}, cleared |-> {}, peak |-> 0]

Next ==
  \/ \E f \in Flows : OfSession(f) \/ OfKernel(f) \/ OfDestination(f)
  \/ Dispatch
  \/ \E i \in DOMAIN sessions : EndSession(i)
  \/ \E s \in Sockets : Open(s) \/ Close(s)
  \/ Restart \/ RestartAfterExit \/ Destroy \/ Tick

Spec == Init /\ [][Next]_vars

-----------------------------------------------------------------------------
(***************************************************************************)
(* Properties.                                                             *)
(***************************************************************************)
Uids == {s.uid : s \in Sockets}

\* Types; handle_ip goes on with an app's uid or with -1, never with -2, and no
\* session keeps a -2.
TypeOK ==
  /\ q \in BOOLEAN
  /\ rows \subseteq Sockets /\ gone \subseteq [row : Sockets, age : 0..MaxAge]
  /\ uid_cache \in Seq([row : Sockets, age : 0..(MaxAge + 1)])
  /\ sessions \in Seq([flow : Flows, uid : Uids \cup {Unknown}])
  /\ map \in [Keys -> Uids \cup {Unknown}]
  /\ last # NoPacket => last.uid \in Uids \cup {Unknown}
  /\ seen.peak \in Nat

\* An owner found in /proc/net had a socket that matches the packet within the
\* last UID_MAX_AGE, though the port may have changed hands since and older
\* entries stay in the cache until their slots are needed.
KernelAnswerFresh ==
  last.by = "kernel" =>
    \E s \in rows \cup (IF q THEN {} ELSE {g.row : g \in gone}) :
      Matches(s, last.flow) /\ s.uid = last.uid

\* The owner of other connections to the destination is taken only if no open
\* socket matches the packet, in either table, or a table could not be read.
DestinationIsLast ==
  last.by = "map" /\ ~last.failed => ~\E s \in rows : Matches(s, last.flow)

\* One of the owners: the app with a socket that may have sent the packet.
HadSocket(owners, uid, f) == \E d \in {f.dest, Any} : <<uid, d>> \in owners

\* An owner from the kernel or the map had a socket for the destination since the
\* tunnel was started (or just before): neither the cache nor the map bring back
\* an app from before.  That of a session had one since the sessions were cleared,
\* which is at the start too, except after a loop that ended by itself: its
\* sessions stay, and give their packets to the apps of then.
OwnerHadSocket ==
  last # NoPacket /\ last.uid # Unknown =>
    HadSocket(IF last.by = "session" THEN seen.cleared ELSE seen.owners, last.uid, last.flow)

\* uid_cache never has more entries than were current at one time: slots of
\* expired rows are used before the cache grows.
CacheBounded == Len(uid_cache) <= seen.peak

=============================================================================
