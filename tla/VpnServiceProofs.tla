--------------------------- MODULE VpnServiceProofs ---------------------------
(***************************************************************************)
(* Proofs about VpnService, for any networks, commands, failures and       *)
(* bounds: its types, that the tunnel thread only runs on an open tun      *)
(* device, that a STOP leaves nothing behind and that a START leaves a VPN *)
(* that runs.                                                              *)
(***************************************************************************)
EXTENDS VpnService, TLAPS

Stopped ==
  ~running /\ iface = "null" /\ tunnel = "none" /\ ~listener.on /\ wake = 0

\* The thread field follows the thread, the interface is open where a step
\* relies on it, and the wake lock is held only inside startVpn.
Lifecycle ==
  /\ thread <=> tunnel # "none"
  /\ tunnel # "none" => iface # "null"
  /\ At("close") => tunnel = "none"
  /\ At("startNative") => iface # "null"
  /\ At("idle") \/ At("stopNative") \/ At("join") \/ At("close") \/ At("startVpn") => wake = 0

\* A STOP walks through stopVpn only; once it is through, and while statistics
\* are pushed, the VPN stays stopped.
Walk ==
  /\ cmd.action = "STOP" => cmd.at \in {"stopNative", "join", "close", "finally"}
  /\ cmd.action = "PUSH_STATS" => At("finally")
  /\ cmd.action = "STOP" /\ At("finally") => Stopped
  /\ (At("idle") \/ cmd.action = "PUSH_STATS") /\ last.action = "STOP" => Stopped

Inv == TypeOK /\ Lifecycle /\ Walk

\* The types of the records.
Places ==
  {"idle", "stopNative", "join", "close", "startVpn", "build", "establish",
   "startNative", "finally"}
CmdType == [at : Places, action : Commands \cup {"none"}, built : Known]
LastType == [action : Commands \cup {"none"}, ok : BOOLEAN, exited : BOOLEAN]
ListenerType == [on : BOOLEAN, active : Known, network : Known, dns : Known]
EventsType == Seq({"available", "capabilities", "link", "lost"})

\* A type of its own for each record makes the steps below small.
LEMMA TypeParts ==
  TypeOK <=>
    /\ queue \in Seq(Commands) /\ Len(queue) <= MaxQueue
    /\ cmd \in CmdType /\ last \in LastType
    /\ running \in BOOLEAN /\ iface \in Known \cup {"null"}
    /\ thread \in BOOLEAN /\ tunnel \in {"none", "loop", "blocked", "exit"}
    /\ stopping \in BOOLEAN /\ held \in 0..1 /\ wake \in 0..1
    /\ listener \in ListenerType /\ events \in EventsType
    /\ net \in [current : Known, changes : 0..MaxChanges]
  BY DEF TypeOK, CmdType, Places, LastType, ListenerType, EventsType

\* The same about the next state.
LEMMA NextTypeParts ==
  TypeOK' <=>
    /\ queue' \in Seq(Commands) /\ Len(queue') <= MaxQueue
    /\ cmd' \in CmdType /\ last' \in LastType
    /\ running' \in BOOLEAN /\ iface' \in Known \cup {"null"}
    /\ thread' \in BOOLEAN /\ tunnel' \in {"none", "loop", "blocked", "exit"}
    /\ stopping' \in BOOLEAN /\ held' \in 0..1 /\ wake' \in 0..1
    /\ listener' \in ListenerType /\ events' \in EventsType
    /\ net' \in [current : Known, changes : 0..MaxChanges]
  BY DEF TypeOK, CmdType, Places, LastType, ListenerType, EventsType

\* The records a fresh process starts with.
LEMMA FreshTypes ==
  /\ Idle \in CmdType /\ NoCommand \in LastType /\ NoListener \in ListenerType
  /\ <<>> \in EventsType /\ <<>> \in Seq(Commands) /\ Len(<<>>) <= MaxQueue
  /\ 0 \in 0..1 /\ 1 \in 0..1
  BY VpnAssumption DEF Idle, CmdType, Places, NoCommand, LastType, NoListener, ListenerType, EventsType,
     Known, Commands

\* The command thread moves on.
LEMMA GotoType ==
  ASSUME cmd \in CmdType, NEW place \in Places, Goto(place)
  PROVE  cmd' \in CmdType
  BY DEF CmdType, Goto

-----------------------------------------------------------------------------
\* The invariant holds when the service is created.
LEMMA InitInv == Init => Inv
  <1> SUFFICES ASSUME Init PROVE Inv
    OBVIOUS
  <1>1. net \in [current : Known, changes : 0..MaxChanges]
    BY VpnAssumption DEF Init, Known
  <1>2. TypeOK
    BY <1>1, FreshTypes, TypeParts DEF Init
  <1>3. Lifecycle /\ Walk
    BY DEF Init, Lifecycle, Walk, Stopped, Idle, At, NoCommand
  <1> QED  BY <1>2, <1>3 DEF Inv

\* Queueing a command (onStartCommand).
LEMMA UserInv == ASSUME Inv, NEW c \in UserCommands, User(c) PROVE Inv'
  <1>1. c \in Commands  BY VpnAssumption DEF Commands
  <1>2. TypeOK'
    BY <1>1, VpnAssumption DEF Inv, TypeOK, User, native, network
  <1> QED
    BY <1>2 DEF Inv, User, native, network, Lifecycle, Walk, Stopped, At

\* Taking a command from the queue.
LEMMA HandleIntentInv == ASSUME Inv, handleIntent PROVE Inv'
  <1>1. Head(queue) \in Commands /\ Tail(queue) \in Seq(Commands) /\ Len(Tail(queue)) <= MaxQueue
    BY VpnAssumption DEF Inv, TypeOK, handleIntent
  <1>2. TypeOK'
    <2>1. Entry(Head(queue)) \in Places
      BY DEF Entry, Places
    <2>2. cmd' \in CmdType
      BY <1>1, <2>1 DEF handleIntent, CmdType, Known
    <2>3. last' \in LastType
      BY TypeParts DEF Inv, handleIntent, LastType
    <2> QED
      BY <1>1, <2>2, <2>3, TypeParts, NextTypeParts DEF Inv, handleIntent, native, network
  <1>3. Lifecycle'
    BY DEF Inv, Lifecycle, handleIntent, Entry, native, network, At
  <1>4. Walk'
    BY DEF Inv, TypeOK, Walk, Stopped, handleIntent, Entry, native, network, At
  <1> QED  BY <1>2, <1>3, <1>4 DEF Inv

\* The steps of stopVpn.
LEMMA StopInv == ASSUME Inv, stopNative \/ JoinTunnel \/ CloseVpn PROVE Inv'
  <1>1. CASE stopNative
    <2>1. TypeOK'
      <3>1. cmd' \in CmdType
        BY <1>1, GotoType, TypeParts DEF Inv, stopNative, Places
      <3>2. stopping' \in BOOLEAN
        BY <1>1, TypeParts DEF Inv, stopNative, jni_stop
      <3> QED
        BY <1>1, <3>1, <3>2, TypeParts, NextTypeParts DEF Inv, stopNative, network
    <2>2. Lifecycle'
      BY <1>1 DEF Inv, TypeOK, Lifecycle, stopNative, jni_stop, Goto, At, network
    <2>3. Walk'
      BY <1>1 DEF Inv, TypeOK, Walk, Stopped, stopNative, jni_stop, Goto, At, network
    <2> QED  BY <2>1, <2>2, <2>3 DEF Inv
  <1>2. CASE JoinTunnel
    <2>1. TypeOK'
      BY <1>2 DEF Inv, TypeOK, JoinTunnel, Joined, Goto, At, network
    <2>2. Lifecycle'
      BY <1>2 DEF Inv, TypeOK, Lifecycle, JoinTunnel, Joined, Goto, At, network
    <2>3. Walk'
      BY <1>2 DEF Inv, TypeOK, Walk, Stopped, JoinTunnel, Joined, Goto, At, network
    <2> QED  BY <2>1, <2>2, <2>3 DEF Inv
  <1>3. CASE CloseVpn
    <2>1. TypeOK'
      <3>1. cmd' \in CmdType
        BY <1>3, GotoType, TypeParts DEF Inv, CloseVpn, Places
      <3> QED
        BY <1>3, <3>1, FreshTypes, TypeParts, NextTypeParts DEF Inv, CloseVpn, native
    <2>2. Lifecycle'
      BY <1>3 DEF Inv, TypeOK, Lifecycle, CloseVpn, Goto, At, native
    <2>3. Walk'
      BY <1>3 DEF Inv, TypeOK, Walk, Stopped, Lifecycle, CloseVpn, Goto, At, native, NoListener
    <2> QED  BY <2>1, <2>2, <2>3 DEF Inv
  <1> QED  BY <1>1, <1>2, <1>3

\* The steps of startVpn that end in an exception or an error.
LEMMA FailureInv == ASSUME Inv, DatabaseFails \/ EstablishFails \/ RulesFail PROVE Inv'
  <1>1. CASE DatabaseFails
    <2>1. TypeOK'
      BY <1>1 DEF Inv, TypeOK, DatabaseFails, Fail, Goto, At, native, network
    <2>2. Lifecycle'
      BY <1>1 DEF Inv, TypeOK, Lifecycle, DatabaseFails, Fail, Goto, At, native, network
    <2>3. Walk'
      BY <1>1 DEF Inv, TypeOK, Walk, Stopped, DatabaseFails, Fail, Goto, At, native, network
    <2> QED  BY <2>1, <2>2, <2>3 DEF Inv
  <1>2. CASE EstablishFails
    <2>1. TypeOK'
      BY <1>2 DEF Inv, TypeOK, EstablishFails, Fail, Goto, At, native, network
    <2>2. Lifecycle'
      BY <1>2 DEF Inv, TypeOK, Lifecycle, EstablishFails, Fail, Goto, At, native, network
    <2>3. Walk'
      BY <1>2 DEF Inv, TypeOK, Walk, Stopped, EstablishFails, Fail, Goto, At, native, network
    <2> QED  BY <2>1, <2>2, <2>3 DEF Inv
  <1>3. CASE RulesFail
    <2>1. TypeOK'
      <3>1. cmd' \in CmdType /\ last' \in LastType
        BY <1>3, GotoType, TypeParts DEF Inv, RulesFail, Fail, Places, LastType
      <3> QED
        BY <1>3, <3>1, FreshTypes, TypeParts, NextTypeParts DEF Inv, RulesFail, native, network
    <2>2. Lifecycle'
      BY <1>3 DEF Inv, TypeOK, Lifecycle, RulesFail, Fail, Goto, At, native, network
    <2>3. Walk'
      BY <1>3 DEF Inv, TypeOK, Walk, Stopped, RulesFail, Fail, Goto, At, native, network
    <2> QED  BY <2>1, <2>2, <2>3 DEF Inv
  <1> QED  BY <1>1, <1>2, <1>3

\* The steps of startVpn.
LEMMA StartInv == ASSUME Inv, startVpn \/ getBuilder \/ Establish \/ startNative PROVE Inv'
  <1>1. CASE startVpn
    <2>1. TypeOK'
      <3>1. cmd' \in CmdType
        BY <1>1, GotoType, TypeParts DEF Inv, startVpn, Places
      <3>2. wake' \in 0..1
        BY <1>1, TypeParts DEF Inv, Lifecycle, startVpn
      <3>3. [NoListener EXCEPT !.on = TRUE] \in ListenerType
        BY DEF NoListener, ListenerType, Known
      <3>4. <<"available", "capabilities", "link">> \in EventsType
        BY DEF EventsType
      <3>5. listener' \in ListenerType /\ events' \in EventsType
        BY <1>1, <3>3, <3>4, FreshTypes, TypeParts DEF Inv, startVpn
      <3> QED
        BY <1>1, <3>1, <3>2, <3>5, TypeParts, NextTypeParts DEF Inv, startVpn, native
    <2>2. Lifecycle'
      BY <1>1 DEF Inv, TypeOK, Lifecycle, startVpn, Goto, At, native
    <2>3. Walk'
      BY <1>1 DEF Inv, TypeOK, Walk, Stopped, startVpn, Goto, At, native
    <2> QED  BY <2>1, <2>2, <2>3 DEF Inv
  <1>2. CASE getBuilder
    <2>1. TypeOK'
      BY <1>2 DEF Inv, TypeOK, getBuilder, At, native, network
    <2>2. Lifecycle'
      BY <1>2 DEF Inv, TypeOK, Lifecycle, getBuilder, At, native, network
    <2>3. Walk'
      BY <1>2 DEF Inv, TypeOK, Walk, Stopped, getBuilder, At, native, network
    <2> QED  BY <2>1, <2>2, <2>3 DEF Inv
  <1>3. CASE Establish
    <2>1. TypeOK'
      BY <1>3 DEF Inv, TypeOK, Establish, Goto, At, native, network, Known
    <2>2. cmd.built # "null"
      BY VpnAssumption DEF Inv, TypeOK, Known
    <2>3. Lifecycle'
      BY <1>3, <2>2 DEF Inv, TypeOK, Lifecycle, Establish, Goto, At, native, network
    <2>4. Walk'
      BY <1>3 DEF Inv, TypeOK, Walk, Stopped, Establish, Goto, At, native, network
    <2> QED  BY <2>1, <2>3, <2>4 DEF Inv
  <1>4. CASE startNative
    <2>1. TypeOK'
      BY <1>4 DEF Inv, TypeOK, startNative, jni_start, Goto, At, native, network
    <2>2. Lifecycle'
      BY <1>4 DEF Inv, TypeOK, Lifecycle, startNative, jni_start, Goto, At, native, network
    <2>3. Walk'
      BY <1>4 DEF Inv, TypeOK, Walk, Stopped, startNative, jni_start, Goto, At, native, network
    <2> QED  BY <2>1, <2>2, <2>3 DEF Inv
  <1> QED  BY <1>1, <1>2, <1>3, <1>4

\* The finally clause.
LEMMA FinallyInv == ASSUME Inv, Finally PROVE Inv'
  <1>1. TypeOK'
    <2>1. last' \in LastType
      BY TypeParts DEF Inv, Finally, LastType, CmdType
    <2>2. wake' \in 0..1
      BY TypeParts DEF Inv, Finally
    <2> QED
      BY <2>1, <2>2, FreshTypes, TypeParts, NextTypeParts DEF Inv, Finally, native, network
  <1>2. Lifecycle'
    BY DEF Inv, TypeOK, Lifecycle, Finally, Idle, At, native, network
  <1>3. Walk'
    BY DEF Inv, TypeOK, Walk, Stopped, Finally, Idle, At, native, network
  <1> QED  BY <1>1, <1>2, <1>3 DEF Inv

\* The steps of the tunnel thread.
LEMMA TunnelInv == ASSUME Inv, LeaveLoop \/ EndTunnel \/ BlockTunnel PROVE Inv'
  <1>1. TypeOK'
    BY DEF Inv, TypeOK, LeaveLoop, EndTunnel, BlockTunnel, network
  <1>2. Lifecycle'
    BY DEF Inv, TypeOK, Lifecycle, LeaveLoop, EndTunnel, BlockTunnel, At, network
  <1>3. Walk'
    BY DEF Inv, TypeOK, Walk, Stopped, LeaveLoop, EndTunnel, BlockTunnel, At, network
  <1> QED  BY <1>1, <1>2, <1>3 DEF Inv

\* A change of the network and its callbacks.
LEMMA NetworkInv == ASSUME Inv, ChangeNetwork \/ NetworkCallback PROVE Inv'
  <1>1. CASE ChangeNetwork
    <2>1. PICK n \in (Networks \cup {NoNetwork}) \ {net.current} :
            /\ net' = [current |-> n, changes |-> net.changes + 1]
            /\ events' = IF ~listener.on THEN events
                         ELSE events \o (IF n = NoNetwork THEN <<"lost">>
                                         ELSE <<"available", "capabilities", "link">>)
      BY <1>1 DEF ChangeNetwork
    <2>2. net' \in [current : Known, changes : 0..MaxChanges]
      BY <1>1, <2>1, VpnAssumption DEF Inv, TypeOK, ChangeNetwork, Known
    <2>3. events' \in Seq({"available", "capabilities", "link", "lost"})
      <3>1. <<"lost">> \in Seq({"available", "capabilities", "link", "lost"})
        OBVIOUS
      <3>2. <<"available", "capabilities", "link">> \in
              Seq({"available", "capabilities", "link", "lost"})
        OBVIOUS
      <3>3. events \in Seq({"available", "capabilities", "link", "lost"})
        BY DEF Inv, TypeOK
      <3>4. \A e \in Seq({"available", "capabilities", "link", "lost"}) :
              events \o e \in Seq({"available", "capabilities", "link", "lost"})
        BY <3>3
      <3> QED  BY <2>1, <3>1, <3>2, <3>3, <3>4
    <2>4. TypeOK'
      BY <1>1, <2>2, <2>3 DEF Inv, TypeOK, ChangeNetwork, native
    <2> QED
      BY <1>1, <2>4 DEF Inv, Lifecycle, Walk, Stopped, ChangeNetwork, At, native
  <1>2. CASE NetworkCallback
    <2>1. events \in Seq({"available", "capabilities", "link", "lost"}) /\ events # <<>>
      BY <1>2 DEF Inv, TypeOK, NetworkCallback
    <2>2. Head(events) \in {"available", "capabilities", "link", "lost"}
          /\ Tail(events) \in Seq({"available", "capabilities", "link", "lost"})
      BY <2>1
    <2>3. Remembered(Head(events)) \in [on : {listener.on}, active : Known, network : Known, dns : Known]
      BY <2>2 DEF Inv, TypeOK, Remembered, Known
    <2>4. queue' \in Seq(Commands) /\ Len(queue') <= MaxQueue
      BY <1>2, VpnAssumption DEF Inv, TypeOK, NetworkCallback, Commands
    <2>5. listener' \in [on : BOOLEAN, active : Known, network : Known, dns : Known]
          /\ listener'.on = listener.on
      BY <1>2, <2>3 DEF Inv, TypeOK, NetworkCallback
    <2>6. TypeOK'
      BY <1>2, <2>2, <2>4, <2>5 DEF Inv, TypeOK, NetworkCallback, native
    <2> QED
      BY <1>2, <2>5, <2>6 DEF Inv, Lifecycle, Walk, Stopped, NetworkCallback, At, native
  <1> QED  BY <1>1, <1>2

\* The death of the process.
LEMMA KillInv == ASSUME Inv, Kill PROVE Inv'
  <1>1. TypeOK'
    BY FreshTypes, TypeParts, NextTypeParts DEF Inv, Kill
  <1>2. Lifecycle' /\ Walk'
    BY DEF Kill, Lifecycle, Walk, Stopped, Idle, At, NoCommand
  <1> QED  BY <1>1, <1>2 DEF Inv

\* Every step preserves the invariant.
LEMMA NextInv == ASSUME Inv, [Next]_vars PROVE Inv'
  <1>1. CASE CommandStep
    BY <1>1, HandleIntentInv, StopInv, FailureInv, StartInv, FinallyInv DEF CommandStep
  <1>2. CASE \E c \in UserCommands : User(c)
    BY <1>2, UserInv
  <1>3. CASE LeaveLoop \/ EndTunnel \/ BlockTunnel
    BY <1>3, TunnelInv
  <1>4. CASE ChangeNetwork \/ NetworkCallback
    BY <1>4, NetworkInv
  <1>5. CASE Kill
    BY <1>5, KillInv
  <1>6. CASE UNCHANGED vars
    BY <1>6 DEF Inv, TypeOK, Lifecycle, Walk, Stopped, At, vars
  <1> QED
    BY <1>1, <1>2, <1>3, <1>4, <1>5, <1>6 DEF Next

\* The invariant holds in every behaviour.
LEMMA Invariance == Spec => []Inv
  BY InitInv, NextInv, PTL DEF Spec

\* The state of the service keeps its types; the wake lock is held at most once
\* and no more than MaxQueue commands wait, whichever step of a start fails.
THEOREM TypeCorrect == Spec => []TypeOK
  <1>1. Inv => TypeOK  BY DEF Inv
  <1> QED  BY <1>1, Invariance, PTL

\* handle_events never runs on a closed tun device: stopVpn, reloadVpn, a
\* failing start and a tunnel thread that ends by itself keep that order.
THEOREM TunSafety == Spec => []TunOpenInLoop
  <1>1. Inv => TunOpenInLoop  BY DEF Inv, Lifecycle, TunOpenInLoop
  <1> QED  BY <1>1, Invariance, PTL

\* After a STOP was handled nothing of the VPN is left, until the next START.
THEOREM StopSafety == Spec => []StopObeyed
  <1>1. Inv => StopObeyed  BY DEF Inv, Walk, Stopped, StopObeyed
  <1> QED  BY <1>1, Invariance, PTL

-----------------------------------------------------------------------------
(***************************************************************************)
(* A START or RELOAD that succeeded leaves a VPN that runs.                *)
(***************************************************************************)
Serving ==
  running /\ iface # "null" /\ listener.on /\ (tunnel = "none" => last.exited)

\* startVpn is entered with the flag cleared; an interface without the flag is
\* the one a failing preparePackageRules left, with its lock.  Between startVpn
\* and startNative the interface is the builder's and the callback is
\* registered.  Outside of the join nobody stops the loop, so that a thread that
\* leaves it failed.
StartWalk ==
  /\ At("startVpn") => ~running
  /\ ~running /\ iface # "null" => held = 1
  /\ At("build") \/ At("establish") => iface = "null" /\ listener.on
  /\ At("startNative") => running /\ listener.on
  /\ tunnel # "none" /\ ~At("join") => ~stopping /\ (tunnel = "exit" => last.exited)
  /\ cmd.action \in {"START", "RELOAD"} /\ At("finally") /\ held = 0 /\ last.ok => Serving
  /\ (At("idle") \/ cmd.action = "PUSH_STATS") /\ held = 0 /\ last.ok
       /\ last.action \in {"START", "RELOAD"} => Serving

\* It holds when the service is created, and in a new process.
LEMMA StartInit == (Init => StartWalk) /\ (Kill => StartWalk')
  BY DEF Init, Kill, StartWalk, Serving, Idle, At, NoCommand

\* Commands are queued and taken from the queue.
LEMMA StartQueued ==
  ASSUME Inv, StartWalk, handleIntent \/ \E c \in UserCommands : User(c)
  PROVE  StartWalk'
  <1>1. CASE \E c \in UserCommands : User(c)
    BY <1>1 DEF User, StartWalk, Serving, At, native, network
  <1>2. CASE handleIntent
    <2>1. Head(queue) \in Commands
      BY <1>2 DEF Inv, TypeOK, handleIntent
    <2>2. /\ cmd.at = "idle" /\ cmd'.at = Entry(Head(queue)) /\ cmd'.action = Head(queue)
          /\ last'.action = last.action /\ last'.exited = last.exited
          /\ last'.ok = (Head(queue) # "PUSH_STATS" \/ last.ok)
          /\ running' = running /\ iface' = iface /\ tunnel' = tunnel /\ stopping' = stopping
          /\ held' = held /\ listener' = listener
      BY <1>2 DEF Inv, TypeOK, handleIntent, At, native, network
    <2>3. CASE Head(queue) = "PUSH_STATS"
      BY <2>2, <2>3 DEF Inv, TypeOK, StartWalk, Serving, Entry, At
    <2>4. CASE Head(queue) # "PUSH_STATS"
      BY <2>1, <2>2, <2>4 DEF Inv, TypeOK, Commands, StartWalk, Serving, Entry, At
    <2> QED  BY <2>3, <2>4
  <1> QED  BY <1>1, <1>2

\* stopVpn.
LEMMA StartStopped ==
  ASSUME Inv, StartWalk, stopNative \/ JoinTunnel \/ CloseVpn
  PROVE  StartWalk'
  <1>1. CASE stopNative
    BY <1>1 DEF Inv, TypeOK, Lifecycle, Walk, StartWalk, Serving, stopNative, jni_stop, Goto, At, network
  <1>2. CASE JoinTunnel
    BY <1>2 DEF Inv, TypeOK, Walk, StartWalk, Serving, JoinTunnel, Joined, Goto, At, network
  <1>3. CASE CloseVpn
    BY <1>3 DEF Inv, TypeOK, Lifecycle, Walk, StartWalk, Serving, CloseVpn, Goto, At, native
  <1> QED  BY <1>1, <1>2, <1>3

\* startVpn fails.
LEMMA StartFails ==
  ASSUME Inv, StartWalk, DatabaseFails \/ EstablishFails \/ RulesFail
  PROVE  StartWalk'
  <1>1. CASE DatabaseFails
    BY <1>1 DEF Inv, TypeOK, Walk, StartWalk, Serving, DatabaseFails, Fail, Goto, At, native, network
  <1>2. CASE EstablishFails
    BY <1>2 DEF Inv, TypeOK, Walk, StartWalk, Serving, EstablishFails, Fail, Goto, At, native, network
  <1>3. CASE RulesFail
    BY <1>3 DEF Inv, TypeOK, Walk, StartWalk, Serving, RulesFail, Fail, Goto, At, native, network
  <1> QED  BY <1>1, <1>2, <1>3

\* The steps of startVpn, and the end of the command.
LEMMA StartGoes ==
  ASSUME Inv, StartWalk, startVpn \/ getBuilder \/ Establish \/ startNative \/ Finally
  PROVE  StartWalk'
  <1>1. CASE startVpn
    BY <1>1 DEF Inv, TypeOK, Lifecycle, Walk, StartWalk, Serving, startVpn, NoListener, Goto, At, native
  <1>2. CASE getBuilder
    BY <1>2 DEF Inv, TypeOK, Walk, StartWalk, Serving, getBuilder, At, native, network
  <1>3. CASE Establish
    <2>1. cmd.built # "null"
      BY VpnAssumption DEF Inv, TypeOK, Known
    <2> QED
      BY <1>3, <2>1 DEF Inv, TypeOK, Walk, StartWalk, Serving, Establish, Goto, At, native, network
  <1>4. CASE startNative
    BY <1>4 DEF Inv, TypeOK, Lifecycle, Walk, StartWalk, Serving, startNative, jni_start, Goto, At,
         native, network
  <1>5. CASE Finally
    BY <1>5 DEF Inv, TypeOK, Walk, StartWalk, Serving, Finally, Idle, At, native, network
  <1> QED  BY <1>1, <1>2, <1>3, <1>4, <1>5

\* The tunnel thread, the network and its callbacks run beside the command.
LEMMA StartBeside ==
  ASSUME Inv, StartWalk,
         LeaveLoop \/ EndTunnel \/ BlockTunnel \/ ChangeNetwork \/ NetworkCallback
  PROVE  StartWalk'
  <1>1. CASE LeaveLoop
    BY <1>1 DEF Inv, TypeOK, StartWalk, Serving, LeaveLoop, At, network
  <1>2. CASE EndTunnel
    BY <1>2 DEF Inv, TypeOK, Walk, StartWalk, Serving, EndTunnel, At, network
  <1>3. CASE BlockTunnel
    BY <1>3 DEF Inv, TypeOK, StartWalk, Serving, BlockTunnel, At, network
  <1>4. CASE ChangeNetwork
    BY <1>4 DEF StartWalk, Serving, ChangeNetwork, At, native
  <1>5. CASE NetworkCallback
    <2>1. events \in Seq({"available", "capabilities", "link", "lost"}) /\ events # <<>>
      BY <1>5 DEF Inv, TypeOK, NetworkCallback
    <2>2. Head(events) \in {"available", "capabilities", "link", "lost"}
      BY <2>1
    <2>3. Remembered(Head(events)).on = listener.on
      BY <2>2 DEF Inv, TypeOK, Remembered
    <2>4. listener'.on = listener.on
      BY <1>5, <2>3 DEF NetworkCallback
    <2> QED
      BY <1>5, <2>4 DEF StartWalk, Serving, NetworkCallback, At, native
  <1> QED  BY <1>1, <1>2, <1>3, <1>4, <1>5

\* After a START or RELOAD that succeeded the VPN runs, whatever the flag in the
\* preferences and an earlier failed start left behind.
THEOREM StartSafety == Spec => []StartObeyed
  <1>1. Init => Inv /\ StartWalk
    BY InitInv, StartInit
  <1>2. Inv /\ StartWalk /\ [Next]_vars => (Inv /\ StartWalk)'
    <2> SUFFICES ASSUME Inv, StartWalk, [Next]_vars PROVE StartWalk'
      BY NextInv
    <2>1. CASE UNCHANGED vars
      BY <2>1 DEF StartWalk, Serving, At, vars
    <2> QED
      BY <2>1, StartInit, StartQueued, StartStopped, StartFails, StartGoes, StartBeside, Zenon
         DEF Next, CommandStep
  <1>3. Inv /\ StartWalk => StartObeyed
    BY DEF StartWalk, Serving, StartObeyed
  <1> QED  BY <1>1, <1>2, <1>3, PTL DEF Spec
=============================================================================
