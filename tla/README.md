# A TLA+ model of NetGuard for Flutter

The repository is a local VPN firewall for Android. Apps write their packets to
a tun device; a native engine (`android/app/src/main/jni/netguard`, C) reads
them, asks the Java service whether each is allowed, and carries the traffic of
the allowed ones over sockets of its own. The Java service
(`java/eu/flutter/netguard`) starts and stops the engine, holds the rules and
follows the network; a Flutter application (`lib/`) is the user interface and
owns the database.

This directory models the parts in which steps of several actors meet: a TCP
connection, the list of all sessions under the event loop, the firewall's
decision with its caches, the owner of a packet, and the life of the service;
and the algorithms that read and write bytes whose lengths others choose: DNS
answers, TLS client hellos, checksums, sequence numbers. Paths below are relative
to `src/android/app/src/main/`; `MV` is `MyVpnService.java`.

## 1. Inventory

| Component | State | Operations | Interacts with |
|---|---|---|---|
| TCP sessions (`tcp.c`) | state, socket, sequence numbers, windows, forward queue, SOCKS5 progress | packet from the app, event of the socket, timeout check, epoll interest | event loop, tun device, server or proxy |
| UDP and ICMP sessions (`udp.c`, `icmp.c`, `dhcp.c`) | state, socket, time, echo id | packet, datagram from the socket, timeout check, block | event loop, tun device |
| Session list and event loop (`session.c`) | list, epoll set, batch of events, count, stop flag | one turn: count, check, wait, handle; start, stop, clear | JNI bridge, all sessions |
| IP dispatch (`ip.c`) | none of its own | parse, find the owner, limit, decide, dispatch | sessions, Java callbacks |
| Firewall decision (`MV`, `DatabaseHelper`) | package rules, settings, global answers, names | `dnsResolved`, `sniResolved`, `isDomainBlocked`, `isAddressAllowed`, `isQuicBlocked`, the `prepare*` methods | called by the tunnel thread; reads the database the Flutter app writes |
| VPN service (`MV`, `CommandHandler`) | interface, tunnel thread, running flag, locks, wake lock | START, STOP, RELOAD, PUSH_STATS | JNI bridge, network monitor, Android |
| Network monitor (`network/`) | registered callback and the network it remembers | available, capabilities, link, lost | asks the service to reload |
| JNI bridge (`netguard.c`) | context, `stopping`, pipe | init, start, run, stop, clear, statistics | service and event loop |
| Owner lookup (`ip.c`, `netguard.c`, `MV`) | `uid_cache`, sessions, `mapIPKeyUid` | `get_uid_from_session`, `get_uid`, `get_uid_q`, `getUidCached` | the kernel's tables, which the apps change at any time |
| DNS parser (`dns.c`) | locals of a walk through one message | `get_qname`, `parse_dns_response` | reports names to the firewall decision |
| TLS parser (`tls.c`) | locals of a walk through one record | `parse_sni` | reports server names to the firewall decision |
| Numbers on the wire (`util.c`) | none | `calc_checksum`, `compare_u32` | every packet written, every comparison in `tcp.c` |
| Log queue, capture, notifications, Dart code | see `PROJECT.json` | | not modelled: pure input and output, or presentation |

Three threads meet: the command thread (one command at a time), the tunnel
thread (the whole native engine), and the main thread (network callbacks). The
native handlers run in one thread, but in any order the batch of events, the
app and the server choose.

**What is hard here.** Segments and retransmissions cut at different bytes while
`send` takes only a part; a FIN that overtakes data still in the queue; windows
that shrink below what is in flight; a count taken once and used for many
packets; raw session pointers in a batch of events; sessions that must die
though packets keep arriving for them; names resolved by several apps in any
order; a flag that survives the process; a command thread that joins a thread
which ends by itself; a network change in the middle of a start; a port that
changes its owner between two packets; compressed names that form loops; lengths
that end at or behind the end of a message; indices and sequence numbers that
wrap around. Each one is
listed in `PROJECT.json` under `hazards` with its line and the properties aimed
at it.

**What makes each part correct.** TCP: the server gets the app's bytes once and in
order, nothing is confirmed that was not forwarded, the app's window is
respected, every session ends and gives its descriptor back. List: no event
refers to a freed session, descriptors are owned by exactly one live session,
the limit holds. Decision: a forbidden name never passes, caches hold nothing
older than the last start, an app is judged by its own names. Owner: a packet is
attributed to an app that has, or just had, a socket for it. Parsers: nothing
outside the message or the buffer is touched, every walk ends, and what is
reported is what the message says. Service: after
START it runs, after STOP nothing runs, the device outlives its reader, every
command ends.

## 2. Modules

| Module | Models | Instance |
|---|---|---|
| `TcpSession` | one connection of `tcp.c` under the loop of `session.c` | `MCTcpSession` |
| `TcpLifecycle` | what a connection promises, which `TcpSession` implements | within `TcpSession` |
| `TcpSessionProofs`, `TcpStreamProofs` | theorems about `TcpSession`: types and descriptors; stream, window, acknowledgements, refinement | |
| `SessionList` | the list, the loop, UDP and ICMP sessions, TCP sessions from outside | `MCSessionList` |
| `SessionListProofs` | theorems about it | |
| `RuleCheck` | `MV`'s rules and caches and the decision part of `handle_ip` | `MCRuleCheck` |
| `RuleCheckProofs` | theorems about it | |
| `VpnService` | commands, tunnel thread, interface, network callbacks | `MCVpnService` |
| `VpnServiceProofs` | theorems about it | |
| `OwnerLookup` | whose packet it is: sessions, `/proc/net` with its cache, the system query, the destination | `MCOwnerLookup` |
| `OwnerLookupProofs` | theorems about it | |
| `Positions` | the loops over a list that `SessionList` and `OwnerLookup` share: the first match, the n-th, what is left after unlinking | |
| `PositionProofs` | lemmas about these operators; induction over the natural numbers and iteration of a rule | |
| `Bytes` | access to a buffer, shared by the next three | |
| `DnsAnswer` | `dns.c`, one step per iteration of its loops | `MCFormats` |
| `TlsHello` | `parse_sni` of `tls.c`, one step per part | `MCFormats` |
| `Wire` | checksums of the packets written, `compare_u32` | `MCFormats` |
| `FormatProofs` | theorems about these three: bounds and ends of the parsers, what they return, checksums, order of sequence numbers | |

The map in `PROJECT.json` gives for each definition the lines it stands for.

### TcpSession

`t` is `struct ng_session` with its `struct tcp_session`; `app` is what the
app's TCP stack has sent, so that its packets can be enumerated (external);
`pc` is the position of the one thread: `monitor` (`monitor_tcp_session`),
`check` (`check_tcp_session`), `batch` (the events `epoll_wait` returned), and
inside a socket event `forward`, `ack`, `receive`, the three parts of
`check_tcp_socket`. They are separate actions because a loop of `send` calls
lies in the first; packets from the tun device are handled between socket events
only, as in the code. `pending` is the mask of the session's event.

Every handler is a whole action: `RegisterSession`, `RefusePacket`, `RefuseData`
and the `Receive*` actions are the exits of `handle_tcp`, `SocketError`,
`SocketConnect` and the `Forward*` actions, `Acknowledge`, `Receive` those of
`check_tcp_socket`. Failing calls (writing to the tun device, `send`, `recv`,
the proxy's answers, opening the socket) are choices.

Abstractions. Sequence numbers are offsets from the initial ones and do not wrap
(`compare_u32` is then `<`). A byte of the app's stream is its offset, which is
what makes order and duplication visible; bytes from the server are counted.
The forward list, sorted by sequence number, is the set of its segments. Time is
one bit, `idle`: the timeout of the present state has passed. `stream` and
`confirmed` in `t` and `edge` in `app` are history: what was handed to `send`,
the highest acknowledgement written, the right edge of the advertised windows.

### TcpLifecycle

The abstract connection has a phase, a descriptor and the number of bytes
delivered; its nine actions leave out packets, windows, queues, timers and the
loop. `TcpSession` instantiates it (`Life`) with the length of the stream handed
to `send`, the open socket, and the phase of the state: `TCP_LISTEN` is
connecting, `SYN_RECV` answered, `ESTABLISHED` open, `CLOSE_WAIT` appClosed,
`FIN_WAIT1` serverClosed, `LAST_ACK` bothClosed, `CLOSING` closing, `CLOSE`
closed, and no session none. `ImplementsLifecycle` says in one formula that
states are left only in the order of a connection's life, that bytes go out only
after it was established and while the socket is open, that a descriptor is
never taken by a session that gave it back, and that only a closed session makes
room for another.

### SessionList

`list` is the linked list, newest first; `epoll` the kernel's set of
`data.ptr`; `ready` what `epoll_wait` returned and is not handled; `room` the
packets the tun loop may still read; `sessions` the count of this turn. A
session is identified by the address `ng_malloc` returned, and an address is
used again after `ng_free`: that is what lets a dangling pointer be seen. Ages 0, 1,
2 stand for the current second, something between, and beyond every timeout.
The timeouts are scaled by the number of sessions: below the limit age 1 may time out,
at it it must, above it even age 0 may (the scaled timeout is negative). The
loop can be stopped, or end with an error and leave its sessions; `StartLoop` is
`check_allowed` on the survivors with a new epoll set.

### RuleCheck

`db` is the database, edited by the Flutter app at any time; `svc` the maps of
`MyVpnService`; `last` the packet in `handle_ip` with its verdict; `seen` is
history. A decision is one step: all callbacks run on the tunnel thread and the
maps are filled while it is stopped. `IPKey` compares uid, protocol, destination
address and port, not the source (`IPKey.java`), so server names are kept per
uid, address and service. Names are those `cleanDomain` returns; UDP port 443 is
the service "quic". Each query to the database may fail, and then answers
"not listed", as `queryBoolean` does. Quirks of the code are kept: the lookup of
hosts in the table of addresses (`HostAsked`) and the unnegated return of
`isAddressAllowed`.

### VpnService

`queue` and `cmd` are the command thread: the waiting commands and the position
inside `startVpn`/`stopVpn`, with a step wherever another thread can come in
between. `running` is the shared preference and survives `Kill`. `tunnel` is the
tunnel thread, `thread` the field `tunnelThread`, `held` the write lock that an
exception leaves locked, `listener`, `events` and `net` the network callback,
the callbacks on their way, and the network.

### OwnerLookup

`rows` are the kernel's tables and `gone` the sockets closed within
`UID_MAX_AGE`, changed by the apps between any two packets; `uid_cache`,
`sessions` and `map` (`mapIPKeyUid`) are the three memories of the code; `q` is
the Android version, which selects `/proc/net` or the system query. A lookup is
one step (the tunnel thread does nothing else meanwhile) and its outcome a
choice: each table may be unreadable or have a line that is not understood, and
its rows come in any order, of which the last match counts. Times are ages.
A start after a stop finds no sessions (`Restart`: `stopNative` calls `jni_clear`);
after a loop that ended by itself `tunnelThread` is null, `stopNative` does
nothing, and the sessions with their owners are still there (`RestartAfterExit`).
`seen` is history: the owners of sockets since the start, and since the sessions
were cleared.

### DnsAnswer, TlsHello, Wire

A message is a sequence of bytes below `Radix`; the sizes of headers, buffers and
limits are constants, so that a message of some ten bytes has every part of a
real one. Fields of several bytes whose width no property is about are one byte
wide. `touched` and `tls.read` record the highest offsets read and written, which
is how reads outside the message can be seen; counters that are 8 bits wide in
the code wrap around at `QnameMax + 1` (`noff`) and `Radix` (`index` of `tls.c`).
Each is checked against a definition from the other side: `Decoded` and
`Addresses` read a DNS message after RFC 1035 (the name at an offset from the
names at all offsets, `Names`, one part after the other), `Encoded` writes a
client hello, `Accepts` is the receiver: the sum in network order (`Verifies`), while
the code sums in host order and in parts, and the rules for a UDP checksum of zero. The hellos are any with lengths that fit their
fields (`Hello`). In `Wire` an address is one word and the
remaining header fields are another.

## 3. Runs

Passing runs. The states are those TLC finds; all end within three minutes on two workers.

| Run | States | Bounds | Shows |
|---|---|---|---|
| `tcp_stream` | 228,000 | 2 bytes each way at most (`MaxSend` 2, `MaxRecv` 1), also with the SYN, one window, app repeats segments unchanged | `TypeOK`, `AckedWasForwarded`, `NothingStranded`, `QueuedIsForwarded` |
| `tcp_resegmented` | 62,000 | data with the SYN, retransmissions cut anywhere | `StreamInOrder`, `SocketReleased`, `ImplementsLifecycle` |
| `tcp_closing` | 130,000 | proxy, 6 bytes from the server, windows 0 and 4 | `WindowRespected`, `SynAckOnce`, `ClosingIsDeleted`, `ConnectEnds` |
| `list_sockets` | 1,660,000 | three addresses, limit 1, 2 packets a turn; a DHCP, an ICMP and a TCP flow; stops and failures | `TypeOK`, `NoDanglingEvent`, `SocketOwned`, `OneSocketPerFlow`, `SessionBound` |
| `list_shadow` | 943 | one DNS flow, two addresses | `ShadowEnds` |
| `rule_decisions` | 318,000 | an app and unowned packets, one address, two names, two services, one edit | `TypeOK`, `ForbiddenNameBlocked`, `NameDecides`, `CachedAnswerCurrent`, `NameOfTheApp` |
| `vpn_commands` | 352,000 | one network and its loss, START, STOP and PUSH_STATS, two waiting commands, a failing database, `establish` or preparation of the rules, kills | `TypeOK`, `TunOpenInLoop`, `StopObeyed`, `StartObeyed`, `CommandEnds` |
| `owner_lookup` | 930,000 | two open sockets, two cached rows, one session, one tick of age, restarts with and without the old sessions | `TypeOK`, `KernelAnswerFresh`, `DestinationIsLast`, `OwnerHadSocket`, `CacheBounded` |
| `formats` | 158,000 | names of up to four arbitrary bytes in a message with two answers, also cut short; hellos with up to two extensions, also with any one byte damaged; packets of up to three bytes; all pairs of 12 sequence numbers | `DnsInBounds`, `NameDecoded`, `AnswersReported`, `TlsInBounds`, `ServerNameFound`, `ChecksumsVerify`, `SerialOrder`, `MessageEnds` |

*Why the bounds are enough.* Two bytes are the least with which a segment can be
split, repeated in part, sent in part, overtaken by a FIN and acknowledged in
between; a third adds segments that are handled like the second. The window run
needs a window below and one above what is in flight, and more than one write.
Three addresses with a limit of one allow the limit to be passed by a turn, a
replaced session beside its successor and reuse of a freed address. Two names
allow one whitelisted among blacklisted ones and two apps that resolve the same
address differently. Two waiting commands and a network change cover a RELOAD
queued behind a STOP or START. Two sockets and two cached rows let a port change
its owner while the old row is cached and while a slot of an expired one is free.
Four bytes of a name hold two labels, a label and a pointer, a pointer to itself
or a pair of them that form a loop; a buffer of three bytes and three hops are
passed by them. `Radix` 16 lets the 8-bit index of `tls.c` wrap in a hello that
is damaged in one byte, and the words of a checksum carry twice.

*Symmetry.* `list_sockets` treats the addresses as interchangeable: no action
compares them, and the run has no temporal property.

*Deadlock* is checked in every run except `formats`, where an input that has been
handled to its end stops. There `MessageEnds` says that every input gets that far.

Each property has a mutant in `PROJECT.json`: a plausible slip in the code it is
about, written as an operator `<name>_<slip>` in front of the definition, that
the property catches.

### Disagreements the runs show

| Run | Property | What |
|---|---|---|
| `rule_inverted` | `RuleObeyed` | `isAddressAllowed` returns `result.blocked` as its own answer (MV:594): a blacklisted address is allowed and a whitelisted one refused, against MV:652. |
| `tcp_resegmented_ack` | `AckedWasForwarded` | `queue_tcp` drops the new bytes of a retransmission that starts before `remote_seq`, and a FIN is confirmed without looking at its number: a byte never forwarded is confirmed, against `netguard.h:164`. |
| `vpn_dns` | `RightDnsServers` | A change between `getBuilder` and the running flag is remembered by the callback but not acted on: the interface keeps the old DNS servers, against `NetworkChangeCallback.java:52`. |

`tcp_resegmented_ack` is the reason why `tcp_stream` has `Resegment = FALSE`:
what it shows about acknowledgements and progress holds for apps whose stack
repeats its segments unchanged. The order of the stream (`StreamInOrder`) and
the descriptors (`SocketReleased`) do not depend on it.

`QueuedIsForwarded` leaves out two cases in which the code leaves data in the
queue until the session ends. Data that comes with the SYN is queued under the
SYN's own number (`tcp.c:780`), and the SYN+ACK moves `remote_seq` behind it
(`tcp.c:461`): the segment stays the head of the queue, is never the next one, and
blocks what the app sends afterwards. The run has such SYNs (`SynData` is TRUE);
the property says nothing while such a segment is queued (`SynDataQueued`), and
the other properties of the run hold with it. And a retransmission that is cut
differently can be longer than a segment in the queue and overtake it, so the
shorter one stays behind `remote_seq` (hence `~Resegment`). No text of the
repository speaks of either.

Read in the code, kept in the models, and left without a run of their own:

- a whitelisted domain is still blocked if its address is in the global list
  (MV:605-607), though MV:690 says it is "automatically allowed";
- `hostBlockedGlobally` looks in the table of addresses (MV:619), so what it
  stores "for future lookups" (MV:623) is never found;
- `check_udp_socket` handles socket errors (`udp.c:86-99`), but `session.c:251`
  does not call it for them, so the event repeats until the timeout;
- the wake lock `startVpn` takes (MV:213, "Keep awake") is released by the same
  command's `finally` clause (`CommandHandler.java:63-66`);
- an exception in `preparePackageRules` leaves the write lock locked
  (MV:417-439). The tunnel thread then waits for it and a later STOP waits for
  the tunnel thread. The failure "rules" is in `vpn_commands`: what holds, holds
  with it, except that `StartObeyed` speaks of a lock that is free and
  `CommandEnds` of a tunnel thread that is not blocked;
- ICMP sessions are matched by address and the id is stored once (`icmp.c:221`),
  so with two ids later replies get the wrong one, against "restore original ID"
  (`icmp.c:122`). `SessionList!EchoIdRestored` states it and fails for
  `EchoIds = {1, 2}`;
- for labels followed by a compression pointer `get_qname` returns an offset two
  behind the start of the name, not behind the pointer (`dns.c:46-49`): the
  records that follow are misread, and addresses may be lost or invented. Of such a
  name (`Mixed`) `NameDecoded` claims the text, not the offset. `AnswersReported`
  claims that the addresses in front of the first such record are reported, and
  nothing about those behind it, nor anything if the name of the question is one;
  the same for a name beyond the limits of the next item. Only `DnsInBounds` and
  `MessageEnds` hold for every message;
- in `dns.c` one of the two bits is enough for a pointer (`:37`), a name of more
  than 26 parts is refused, `noff` is 8 bits wide and wraps when the buffer is
  full (`:53`), and the rdlength of an address is not compared with its size;
- in `tls.c` the index is 8 bits wide (`:49`), so a server name behind a longer
  header is not found, and a server name that is the last extension is refused by
  `>=` (`:130`, `:153`). `ServerNameFound` speaks of hellos whose header ends
  below `Radix`: the name of the first server name extension is found if another
  extension follows it and the name fits the buffer, and otherwise none is;
- `compare_u32` compares with 2^31 - 1 (`util.c:50`): at exactly that distance
  its answer depends on which number is the larger one;
- a UDP checksum of zero is written as zero (`udp.c:515`), where RFC 768 and 8200
  have 0xFFFF sent: over IPv4 it reads as "not computed", over IPv6 the kernel
  discards the packet. `Accepts` is such a receiver, the run has such packets, and
  `ChecksumsVerify` names them as the one exception. The pseudo header of ICMPv6, marked untested, has another
  length than the contents (`icmp.c:131`);
- a failure to read the IPv6 table (-2) also suppresses the IPv4 one
  (`ip.c:396`), and an ICMP session answers for every packet to its address
  (`netguard.c:801`).

### Fairness

- `TcpSession!LoopFairness`: the loop goes on (`epoll_wait` has a timeout, a
  batch ends after `TUN_YIELD` packets), and its check of the sessions is
  skipped only while less than `EPOLL_MIN_CHECK` ms have passed, so it runs
  infinitely often if it can (strong fairness). Time passes.
- `TcpSession!ForwardSpec` has no fairness of time: `QueuedIsForwarded` must not
  depend on a timeout. It assumes instead a server that keeps reading (the
  socket is reported writable and `send` takes the segment, again and again).
- `SessionList!Fairness`: the same for the list. Nothing is assumed about the
  app, which may keep sending.
- `VpnService!Fairness`: the command thread runs, callbacks are delivered, a loop
  that was told to stop leaves `epoll_wait` (`jni_stop` writes to the pipe the
  loop waits on) and the tunnel thread then ends. No fairness for the user, the
  network, failures or a loop that is not stopped.
- `MCFormats!Spec`: the tunnel thread goes on with the input it handles.

## 4. Proofs

`tlapm` checks the theorems; they hold for every value of the constants that
satisfies the named assumptions, so in particular for any number of bytes,
sessions, apps, sockets and commands. TLC also finds each inductive
invariant true on the component's passing runs (of those that quantify over
unbounded types, the parts it can evaluate).

**TcpSessionProofs**, from `ConstantsAssumption` (Boolean switches, natural
bounds, natural windows, a positive header size).

- `TypeCorrect`: `Spec => []TypeOK`.
- `SocketSafety`: `Spec => []SocketReleased`.

Both follow from `Inv == TypeOK /\ SocketReleased`, which is inductive: the
types are needed because the socket's fate hangs on the state's value, and the
second half of `SocketReleased` (a socket event is handled only while the socket is
open) is what lets the end-of-file exits conclude that they closed it. The
lemmas before it say what each operator on the session returns (`write_rst`,
`Written`, `queue_tcp`, `check_tcp_session`, ...), then one lemma per handler
(`HandleTcpInv`, `MonitorInv`, `CheckInv`, `ConnectInv`, `ForwardInv`,
`AcknowledgeInv`, `ReceiveInv`), combined in `NextInv`.

**TcpStreamProofs**, from the same assumption.

- `StreamOrder`: `Spec => []StreamInOrder`.
- `QueueEmptyAtEnd`: `Spec => []NothingStranded`.
- `OneSynAck`: `Spec => []SynAckOnce`.
- `WindowSafety`: `Spec => []WindowRespected`.
- `LifecycleRefined`: `Spec => ImplementsLifecycle`.
- `AckSafety`: `Spec => []AckedWasForwarded`, assuming `~Resegment`. Without the
  hypothesis it is false, as the run `tcp_resegmented_ack` shows.

The handlers have some forty exits, but they do one of eleven things to
the stream. `StepKinds` sorts every step into these kinds (a session is
registered, a packet is taken, a segment is forwarded in whole or in part, the
session rests, ...); each invariant is then proved from the kinds, not from the exits again.
`StreamInv` adds to `Inv` that an answered connection has counted its SYN
(`Handshake`, `Numbered`), that a queued segment holds the bytes of its number
and only the next one is sent in part (`QueueSound`), and that `remote_seq`
is the place in the stream (`StreamPosition`): order alone is not inductive,
because the bytes a segment adds are right only if it is the next one.
`WindowInv` relates what the session knows of the window to what the app
advertised. `LifecycleRefined` maps each kind to a step of `TcpLifecycle` or a
stutter; it needs `StreamInv` and that a socket event is handled with data or
end of file only behind the handshake. `AckInv` follows the app's segments: they
do not overlap (`Apart`), those not forwarded are all in the queue
(`Outstanding`), and a FIN is counted only behind a stream that was forwarded to
its end (`Counted`, `FinAhead`).

**PositionProofs** has lemmas only: `FirstFacts`, `NthFacts` and `RankFacts` say
that the n-th position of a finite set exists, is the only one, and grows with n.
They are why a list after unlinking is written `Keep(l, K)` and not with
`SelectSeq`, a recursive definition. `SetInduction` is induction without an operator
as parameter, which the provers cannot instantiate: a set that has 0 and the
successor of each of its members has every natural number. It follows from
`NatLeast`, and `Iteration` from it: a rule that gives the next value defines a
function on the natural numbers. The proofs about recursive functions rest on it.

**SessionListProofs**, from `ListAssumption` (flows of the three
protocols are disjoint, DNS and DHCP are UDP, finitely many addresses, positive
limits).

- `ListTyped`: `Spec => []TypeOK`.
- `EventsOwned`: `Spec => []NoDanglingEvent`.
- `DescriptorOwned`: `Spec => []SocketOwned`.
- `FlowHasOneSocket`: `Spec => []OneSocketPerFlow`.
- `SessionsLimited`: `Spec => []SessionBound`, assuming that no flow is both DNS
  and DHCP. The ports of the two (53 and 67) differ, so no packet of the code is
  both; the constants alone do not say so.

`ListInv` adds that the addresses in the list are distinct, that the events of a
batch are distinct by address and left only in a batch, and that the epoll set
lives as long as the loop: without it an address used again could inherit an
event of its predecessor. Checks, restarts and the batch rearrange the list;
`Moves` says that each session that remains is an old one that only grew older
or closed, and the lemmas on `Keep` provide it for the two unlinking loops. `BoundInv`
bounds the sessions by the count of the turn until the batch begins, and within
it by the count and the packets read so far.

**RuleCheckProofs**, from `RuleAssumption`.

- `MapsTyped`: `Spec => []TypeOK`.
- `NamesEnforced`: `Spec => []ForbiddenNameBlocked`.
- `NameIsDecisive`: `Spec => []NameDecides`.
- `AnswersCurrent`: `Spec => []CachedAnswerCurrent`.
- `OwnNameFirst`: `Spec => []NameOfTheApp`.

`RuleInv` says that the rules are those of the database at the last start
(`Loaded`), the names in the maps those shown since (`NamesShown`) and the
cached answers those the database gave since (`AnswersSeen`); `RulesKept` proves
it with the facts about the last verdict (`FullInv`). The lemmas before it
compute what the list of rules `getPackageRule` builds means for an address and
for a name: a blacklist, a whitelist and the final rule, in any combination.

**VpnServiceProofs**, from `VpnAssumption`.

- `TypeCorrect`, which includes that the wake lock is never counted twice.
- `TunSafety`: `Spec => []TunOpenInLoop`.
- `StopSafety`: `Spec => []StopObeyed`.
- `StartSafety`: `Spec => []StartObeyed`.

`Inv == TypeOK /\ Lifecycle /\ Walk`. `TunOpenInLoop` is not inductive: that
`CloseVpn` may close the interface follows only from the thread having ended
when the command arrives there, and this needs the field `tunnelThread` to agree
with the thread (`Lifecycle`). `StopObeyed` speaks of the end of a command; `Walk` says
where a STOP can be and that the VPN stays stopped until the next START, also
while statistics are pushed. `StartWalk` does the same for START and RELOAD: what
each position of `startVpn` has established, and that an interface left behind by
a stopped VPN goes with the lock an exception left locked.

**OwnerLookupProofs**, from `OwnerAssumption`.

- `OwnerTyped`: `Spec => []TypeOK`.
- `AnswersFresh`: `Spec => []KernelAnswerFresh`.
- `DestinationLast`: `Spec => []DestinationIsLast`.
- `OwnersHadSockets`: `Spec => []OwnerHadSocket`.
- `CacheLimited`: `Spec => []CacheBounded`.

`LookupInv` says that a cached row that is not expired is open or was closed
after it was read (`CacheKnown`, with its age no less than the time since), and
that the owners in the map had a socket since the start and those in the sessions
since these were cleared (`MapOwned`, `SessionsOwned`): a start after a loop that
ended by itself keeps the sessions, so one history does not do for both. What a scan leaves in the cache (`Refilled`) is the one hard
operator: new entries are rows just read, the others stay, and the cache grows
only if all its entries are current, whichever order the rows come in.

**FormatProofs**, from `RadixAssumption`, `DnsAssumption`, `TlsAssumption`,
`WireAssumption` (`Half` is positive; the modulus is 2 `Half` + 2).

- `DnsSafety`: `DnsSpec => []DnsInBounds`.
- `NameSafety`: `DnsSpec => []NameDecoded`.
- `AnswerSafety`: `DnsSpec => []AnswersReported`.
- `DnsProgress`: `DnsSpec => DnsAdvances`.
- `TlsSafety`: `TlsSpec => []TlsInBounds`.
- `ServerNameSafety`: `TlsSpec => []ServerNameFound`.
- `SniProgress`: `TlsSpec => SniAdvances`.
- `ChecksumSafety`: `WireSpec => []ChecksumsVerify`.
- `SerialSafety`: `WireSpec => []SerialOrder`.

The messages and records here are arbitrary sequences of bytes, not the ones of
the run, and packets have data of any length.

*Bounds.* `DnsInv` adds that `get_qname` stands inside the message whenever it
looks at a length; `TlsInv` that in the loop over the extensions the position and
the remaining length add up to the end of the record. The 8-bit offsets may wrap
to any smaller value and the bounds hold.

*Names and addresses.* `NameInv` says that what has been copied, followed by the
name at the place where `get_qname` stands, is the name at the offset it was
called for, with as many parts left as the limit on hops allows. The reference
reads a message by any number of parts; `NamesGrow` and `NamesKeep` show that a
name complete after n parts is the same after more, and `NamesEnd` that one that
is not complete after as many parts as the message has offsets never is, which is
how a loop of pointers is told from a long name. `AnswerInv` does the same for
the records: what has been reported, followed by the addresses of the remaining
records from the offset reached, are the addresses of the message; or a record
that is not clear has been read, and what has been reported starts with the
addresses in front of it (`Split`, `StartsWith`).

*Server names.* The claim is that of `ServerNameFound`, so a server name that is
the last extension is shown to be refused. `HelloLayout` computes where each part of an encoded hello lies,
by induction on its extensions (`EncodedFacts`, `RestsExist`). `SniInv` says that,
if the payload is a hello whose header ends below `Radix`, the index stands at the
part the position of the program names, and in the loop at the start of an
extension with no server name before it; the index does not wrap (`NoWrap`).

*Progress.* `DnsLeft` counts the names that may still be read, each with the parts
the limit on hops allows; `TlsLeft` the bytes of the extensions behind the
index. `DnsBudget` and `SniBudget` say that neither is negative. Each step
lowers a natural number, so no behaviour has infinitely many; this is the part of
`MessageEnds` that is about the code, without the fairness of the thread. The two
properties are stated with their proofs; TLC finds them true on the run
`formats`, too.

*Checksums.* `ChecksumIs`: the sum of the words is a function of the buffer (`LE`,
by induction on its length), and adding the carries until there are none leaves
the remainder modulo `M == U16 - 1`, with `M` in place of 0 for a sum that is not
0 (`Folded`; by well-foundedness, since a carry makes the number smaller).
`FoldedSum`: carries may be added between the parts, and `SumJoined`: all parts
but the last fill whole words. `OrdersAgree`: the sum in the other byte order
times `Radix` differs from it by a multiple of `M`, so the receiver's is a multiple
of `M` if the engine's is, and not 0 (`ReceiverAccepts`). `ZeroChecksum` says when the
checksum that was written is zero. `PseudoSum`: the pseudo
header of IPv6 has the receiver's words in another order.

*Sequence numbers.* `CompareOffsets` is the arithmetic of
`compare_u32`, for every width and every place where the numbers wrap;
`SerialInv` adds to `SerialOrder` that what waits to be compared are two numbers
of one connection.

**Model-checked only.** The liveness properties (`QueuedIsForwarded`,
`ClosingIsDeleted`, `ConnectEnds`, `ShadowEnds`, `CommandEnds`, `MessageEnds`)
need fairness and are beyond the prover. What
the three runs of section "Disagreements" refute is refuted by their
counterexamples. Every invariant and action property the runs check, and the
refinement, is proved.

Some definitions of the models have a form the provers can work with: an
alternative whose conditions overlap is an IF, not a CASE (a CASE with two true
conditions is a choice of either), and sequences that a loop builds are functions
of a position.

## 5. Limits of the models

- Sequence numbers of `TcpSession` are offsets that do not wrap around;
  `SerialOrder` says that `compare_u32` orders the real ones like the offsets, as
  long as they are less than 2^31 - 1 apart. Times are ages, not seconds.
- Left out because the outcome is covered or does not matter to the properties: in
  `TcpSession` the correction of a wrapped difference (`tcp.c:171`, offsets do not
  wrap), a failing `epoll_ctl` ADD, which is only logged (`tcp.c:806`), and the
  mask stored before a failing MOD (`tcp.c:155`, the session is then closing); in
  `SessionList`, which sees TCP sessions from outside, a session that begins to
  close while it is counted (`session.c:110`), the half-closed state after an end
  of file (`tcp.c:574`) and the direct close on the last acknowledgement
  (`tcp.c:918`); in `OwnerLookup` an IPv6 packet, for which one table is asked
  (`ip.c:401`); in `VpnService` an exception of `getBuilder`, the fallback when the
  callback cannot be registered (`NetworkMonitor.java:31`), and `connected` and
  `metered`, which are part of a network's identity.
- The second check of a label's end (`dns.c:56`) follows from the first one (`:50`) and
  is left out; the length of a TLS record is taken from a correct TCP header.
- `handle_tcp` takes the window of every packet, also of an old one; the model
  does too, and `WindowRespected` counts a stray packet's window as advertised.
- The parsing of packet headers in `handle_ip`, fragments, the meaning of options
  and the checksums of incoming packets are not modelled; a packet from the app is
  its flow, flags, offset and length. (The code looks at the checksum of the IPv4
  header only, at the lowest log levels, and there refuses a sum of zero where a
  valid header has the sum 0xFFFF: `ip.c:163-168`.)
- One package per uid; packages that share one overwrite each other's rules.
- `TcpSession` has one connection and `SessionList` sees TCP sessions from
  outside; that the two agree is not checked yet.
- Descriptors that belong to no session (an error after `socket()` in
  `open_tcp_socket`, `open_udp_socket` and `open_icmp_socket`, `/proc/net` after a
  line that is not understood) and the heap (the segment queued with a SYN whose
  socket cannot be opened, `tcp.c:791`) are outside the models.
- That reloads caused by the registration of a callback stop at some time
  (`NetworkMonitor.java:66`), and that no RELOAD follows a STOP, is not stated.
- The options of a DHCP reply, marked untested, are written at
  `response + sizeof(struct dhcp_packet)`, which counts structures, not bytes
  (`dhcp.c:84`); the bytes of the reply are not modelled.
- Not modelled: `onDestroy` beyond the end of the process it leads to, the legacy
  connectivity receiver and the probe of `NetworkMonitorCallback`, the log queue,
  packet capture, the contents of DHCP replies, notifications, the generated
  bridge and database code, the Dart application. The reasons are in
  `PROJECT.json`.

## 6. Plan

Done, in this order: `TcpSession`, `SessionList`, `RuleCheck`, `VpnService` and
the first proofs; then `TcpLifecycle` with its refinement, `OwnerLookup`,
`DnsAnswer`, `TlsHello` and `Wire`; then the proofs of all invariants that need no
induction over data, and of the refinement; then those of what the parsers
return, that they end, and the checksums. Next:

1. Action properties worth proving: that the sequence numbers of a connection
   and the ages of rows only grow, and that a session leaves the list only closed.
2. `VpnService` with `onDestroy` beside a command, and the legacy receiver.
3. The log queue between the tunnel thread and the main looper at its limit.
4. Dart: `SessionCubit` against the events of the native side, and the progress
   states that cross between an isolate and the user interface.
