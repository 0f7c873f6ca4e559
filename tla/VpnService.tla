------------------------------ MODULE VpnService ------------------------------
(***************************************************************************)
(* The life of the VPN: MyVpnService driven by its command thread          *)
(* (CommandHandler), the tunnel thread that runs handle_events, and the    *)
(* network callbacks (NetworkMonitor, NetworkChangeCallback) that ask for  *)
(* a reload.                                                               *)
(*                                                                         *)
(* One command is handled at a time, in steps between which the tunnel     *)
(* thread and the callbacks run.  The flag "running" is a shared           *)
(* preference: it survives the process.  A network stands for its          *)
(* identity, capabilities and DNS servers.                                 *)
(***************************************************************************)
EXTENDS Naturals, Sequences

CONSTANTS
  Networks,      \* networks the device may be connected to
  NoNetwork,     \* it is connected to none, or a callback knows of none
  UserCommands,  \* the commands of the user interface
  Failures,      \* subset of {"database", "establish", "rules"}
  SelfExits,     \* BOOLEAN: handle_events may end with an error
  Kills,         \* BOOLEAN: the process may be killed
  MaxQueue,      \* bound: commands that wait
  MaxChanges     \* bound: changes of the network

ASSUME VpnAssumption ==
  /\ NoNetwork \notin Networks /\ "null" \notin Networks \cup {NoNetwork}
  /\ UserCommands \subseteq {"START", "STOP", "PUSH_STATS"}
  /\ Failures \subseteq {"database", "establish", "rules"}
  /\ SelfExits \in BOOLEAN /\ Kills \in BOOLEAN
  /\ MaxQueue \in Nat /\ MaxChanges \in Nat

VARIABLES
  queue,     \* messages of the command thread
  cmd,       \* the command it handles, its position, the network of the builder
  running,   \* PREF_SERVICE_RUNNING
  iface,     \* vpnInterface: the network it was built for, or "null"
  thread,    \* tunnelThread # null
  tunnel,    \* what the tunnel thread does: none, loop, blocked, exit
  stopping,  \* ctx->stopping
  held,      \* holds of lock.writeLock that were not given back
  wake,      \* count of the wake lock
  listener,  \* the registered network callback and what it remembers
  events,    \* callbacks that were not yet delivered
  net,       \* the active network, and how often it changed
  last       \* the last command, whether it succeeded, the thread's fate

vars == <<queue, cmd, running, iface, thread, tunnel, stopping, held, wake,
          listener, events, net, last>>

native == <<thread, tunnel, stopping>>
network == <<listener, events, net>>

NoListener ==
  [on |-> FALSE, active |-> NoNetwork, network |-> NoNetwork, dns |-> NoNetwork]

Idle == [at |-> "idle", action |-> "none", built |-> NoNetwork]

At(place) == cmd.at = place
Goto(place) == cmd' = [cmd EXCEPT !.at = place]

(***************************************************************************)
(* Commands.                                                               *)
(***************************************************************************)
\* onStartCommand.
User(c) ==
  /\ Len(queue) < MaxQueue
  /\ queue' = Append(queue, c)
  /\ UNCHANGED <<cmd, running, iface, native, held, wake, network, last>>

Entry(action) ==
  CASE action = "STOP"       -> "stopNative"
    [] action = "PUSH_STATS" -> "finally"
    [] OTHER                 -> IF running THEN "stopNative" ELSE "startVpn"

handleIntent ==
  /\ At("idle") /\ queue # <<>>
  /\ queue' = Tail(queue)
  /\ cmd' = [at |-> Entry(Head(queue)), action |-> Head(queue), built |-> NoNetwork]
  /\ last' = [last EXCEPT !.ok = Head(queue) # "PUSH_STATS" \/ @]
  /\ UNCHANGED <<running, iface, native, held, wake, network>>

\* Mutant: the wake lock is not released.
Finally_awake ==
  /\ At("finally")
  /\ cmd' = Idle
  /\ last' = IF cmd.action = "PUSH_STATS" THEN last ELSE [last EXCEPT !.action = cmd.action]
  /\ UNCHANGED <<queue, running, iface, native, held, wake, network>>

\* The finally clause of handleMessage releases the wake lock once.
Finally ==
  /\ At("finally")
  /\ cmd' = Idle
  /\ wake' = IF wake > 0 THEN wake - 1 ELSE 0
  /\ last' = IF cmd.action = "PUSH_STATS" THEN last ELSE [last EXCEPT !.action = cmd.action]
  /\ UNCHANGED <<queue, running, iface, native, held, network>>

(***************************************************************************)
(* stopVpn.                                                                *)
(***************************************************************************)
\* Mutant: the flag is not set.
jni_stop_flag_lost == UNCHANGED stopping

jni_stop == stopping' = TRUE

stopNative ==
  /\ At("stopNative")
  /\ \/ thread /\ jni_stop /\ Goto("join")
     \/ ~thread /\ Goto("close") /\ UNCHANGED stopping
  /\ UNCHANGED <<queue, running, iface, thread, tunnel, held, wake, network, last>>

\* Mutant: the tunnel thread is not waited for.
Joined_at_once == TRUE

Joined == tunnel = "none"

\* join and jni_clear.
JoinTunnel ==
  /\ At("join") /\ Joined
  /\ thread' = FALSE /\ Goto("close")
  /\ UNCHANGED <<queue, running, iface, tunnel, stopping, held, wake, network, last>>

\* Mutant: the callback stays registered.
CloseVpn_listening ==
  /\ At("close")
  /\ iface' = "null" /\ running' = FALSE /\ wake' = 0
  /\ Goto(IF cmd.action = "STOP" THEN "finally" ELSE "startVpn")
  /\ UNCHANGED <<queue, native, held, network, last>>

\* The rest of stopVpn; reloadVpn goes on with startVpn.
CloseVpn ==
  /\ At("close")
  /\ iface' = "null" /\ running' = FALSE /\ wake' = 0
  /\ listener' = NoListener /\ events' = <<>>
  /\ Goto(IF cmd.action = "STOP" THEN "finally" ELSE "startVpn")
  /\ UNCHANGED <<queue, native, held, net, last>>

(***************************************************************************)
(* startVpn.                                                               *)
(***************************************************************************)
Fail(failure) == failure \in Failures /\ last' = [last EXCEPT !.ok = FALSE] /\ Goto("finally")

\* The database cannot be opened or read: the exception leaves startVpn.
DatabaseFails ==
  /\ At("startVpn") /\ iface = "null" /\ Fail("database")
  /\ UNCHANGED <<queue, running, iface, native, held, wake, network>>

\* A callback reports the networks that are there when it is registered.
startVpn ==
  /\ At("startVpn")
  /\ \/ iface # "null" /\ Goto("finally") /\ UNCHANGED <<wake, listener, events>>
     \/ /\ iface = "null"
        /\ wake' = wake + 1
        /\ listener' = [NoListener EXCEPT !.on = TRUE]
        /\ events' = IF net.current = NoNetwork THEN <<>>
                     ELSE <<"available", "capabilities", "link">>
        /\ Goto("build")
  /\ UNCHANGED <<queue, running, iface, native, held, net, last>>

\* The builder takes the DNS servers of the active network.
getBuilder ==
  /\ At("build")
  /\ cmd' = [cmd EXCEPT !.at = "establish", !.built = net.current]
  /\ UNCHANGED <<queue, running, iface, native, held, wake, network, last>>

EstablishFails ==
  /\ At("establish") /\ Fail("establish") /\ running' = FALSE
  /\ UNCHANGED <<queue, iface, native, held, wake, network>>

Establish ==
  /\ At("establish")
  /\ iface' = cmd.built /\ running' = TRUE
  /\ Goto("startNative")
  /\ UNCHANGED <<queue, native, held, wake, network, last>>

\* preparePackageRules throws: its write lock stays locked, the interface open.
RulesFail ==
  /\ At("startNative") /\ Fail("rules")
  /\ running' = FALSE /\ held' = 1
  /\ UNCHANGED <<queue, iface, native, wake, network>>

\* Mutant: the flag of the last stop remains.
jni_start_stopped == UNCHANGED stopping

jni_start == stopping' = FALSE

startNative ==
  /\ At("startNative") /\ Goto("finally")
  /\ \/ /\ ~thread /\ jni_start
        /\ thread' = TRUE /\ tunnel' = "loop"
        /\ last' = [last EXCEPT !.exited = FALSE]
     \/ thread /\ UNCHANGED <<native, last>>
  /\ UNCHANGED <<queue, running, iface, held, wake, network>>

(***************************************************************************)
(* The tunnel thread.                                                      *)
(***************************************************************************)
\* jni_run returns: the loop is being stopped, or it failed.
LeaveLoop ==
  /\ tunnel = "loop" /\ (stopping \/ SelfExits)
  /\ tunnel' = "exit"
  /\ last' = [last EXCEPT !.exited = ~stopping]
  /\ UNCHANGED <<queue, cmd, running, iface, thread, stopping, held, wake, network>>

EndTunnel ==
  /\ tunnel = "exit"
  /\ tunnel' = "none" /\ thread' = FALSE
  /\ UNCHANGED <<queue, cmd, running, iface, stopping, held, wake, network, last>>

\* A packet needs lock.readLock (isAddressAllowed).
BlockTunnel ==
  /\ tunnel = "loop" /\ held > 0
  /\ tunnel' = "blocked"
  /\ UNCHANGED <<queue, cmd, running, iface, thread, stopping, held, wake, network, last>>

(***************************************************************************)
(* The network.                                                            *)
(***************************************************************************)
\* The device changes its network; the callbacks follow.
ChangeNetwork ==
  /\ net.changes < MaxChanges
  /\ \E n \in (Networks \cup {NoNetwork}) \ {net.current} :
       /\ net' = [current |-> n, changes |-> net.changes + 1]
       /\ events' = IF ~listener.on THEN events
                    ELSE events \o (IF n = NoNetwork THEN <<"lost">>
                                    ELSE <<"available", "capabilities", "link">>)
  /\ UNCHANGED <<queue, cmd, running, iface, native, held, wake, listener, last>>

\* Whether the callback asks for a reload.
WantsReload(event) ==
  CASE event = "available"    -> net.current # NoNetwork
    [] event = "capabilities" -> net.current # NoNetwork /\ listener.network # net.current
    [] event = "link"         -> net.current # NoNetwork /\ listener.dns # net.current
    [] event = "lost"         -> listener.active # NoNetwork /\ listener.active # net.current

\* What it remembers.
Remembered(event) ==
  IF event = "lost"
  THEN IF WantsReload(event) THEN [listener EXCEPT !.active = NoNetwork] ELSE listener
  ELSE IF net.current = NoNetwork THEN listener
  ELSE CASE event = "available"    -> [listener EXCEPT !.active = net.current]
         [] event = "capabilities" -> [listener EXCEPT !.network = net.current]
         [] event = "link"         -> [listener EXCEPT !.dns = net.current]

\* MyVpnService.reload does nothing while the VPN is not running.
NetworkCallback ==
  /\ events # <<>> /\ Len(queue) < MaxQueue
  /\ queue' = IF WantsReload(Head(events)) /\ running THEN Append(queue, "RELOAD") ELSE queue
  /\ listener' = Remembered(Head(events))
  /\ events' = Tail(events)
  /\ UNCHANGED <<cmd, running, iface, native, held, wake, net, last>>

(***************************************************************************)
(* The process is killed and created again (START_STICKY, without intent). *)
(***************************************************************************)
NoCommand == [action |-> "none", ok |-> TRUE, exited |-> FALSE]

Kill ==
  /\ Kills
  /\ queue' = <<>> /\ cmd' = Idle /\ iface' = "null" /\ thread' = FALSE
  /\ tunnel' = "none" /\ stopping' = FALSE /\ held' = 0 /\ wake' = 0
  /\ listener' = NoListener /\ events' = <<>> /\ last' = NoCommand
  /\ UNCHANGED <<running, net>>

Init ==
  /\ queue = <<>> /\ cmd = Idle /\ iface = "null" /\ thread = FALSE
  /\ tunnel = "none" /\ stopping = FALSE /\ held = 0 /\ wake = 0
  /\ listener = NoListener /\ events = <<>> /\ last = NoCommand
  /\ running = FALSE
  /\ net \in [current : Networks \cup {NoNetwork}, changes : {0}]

CommandStep ==
  \/ handleIntent \/ stopNative \/ JoinTunnel \/ CloseVpn
  \/ DatabaseFails \/ startVpn \/ getBuilder \/ EstablishFails \/ Establish
  \/ RulesFail \/ startNative \/ Finally

Next ==
  \/ CommandStep
  \/ \E c \in UserCommands : User(c)
  \/ LeaveLoop \/ EndTunnel \/ BlockTunnel
  \/ ChangeNetwork \/ NetworkCallback
  \/ Kill

Spec == Init /\ [][Next]_vars

\* The threads run, callbacks are delivered, and a stopped loop is left: the
\* pipe wakes epoll_wait.
Fairness ==
  /\ WF_vars(CommandStep) /\ WF_vars(NetworkCallback)
  /\ WF_vars(stopping /\ LeaveLoop) /\ WF_vars(EndTunnel)

FairSpec == Spec /\ Fairness

-----------------------------------------------------------------------------
(***************************************************************************)
(* Properties.                                                             *)
(***************************************************************************)
Commands == {"START", "STOP", "PUSH_STATS", "RELOAD"}
Known == Networks \cup {NoNetwork}

\* Types; the wake lock is never counted twice.
TypeOK ==
  /\ queue \in Seq(Commands) /\ Len(queue) <= MaxQueue
  /\ cmd \in [at : {"idle", "stopNative", "join", "close", "startVpn", "build",
                    "establish", "startNative", "finally"},
              action : Commands \cup {"none"}, built : Known]
  /\ running \in BOOLEAN /\ iface \in Known \cup {"null"}
  /\ thread \in BOOLEAN /\ tunnel \in {"none", "loop", "blocked", "exit"}
  /\ stopping \in BOOLEAN /\ held \in 0..1 /\ wake \in 0..1
  /\ listener \in [on : BOOLEAN, active : Known, network : Known, dns : Known]
  /\ events \in Seq({"available", "capabilities", "link", "lost"})
  /\ net \in [current : Known, changes : 0..MaxChanges]
  /\ last \in [action : Commands \cup {"none"}, ok : BOOLEAN, exited : BOOLEAN]

\* handle_events runs only on an open tun device: stopVpn closes the interface
\* after the thread that reads it has ended, whatever ended it.
TunOpenInLoop == tunnel # "none" => iface # "null"

\* After a START or RELOAD that succeeded the VPN runs, whatever the flag said
\* before (it survives a killed process) and whatever a failed start left: the
\* tunnel thread serves the interface unless handle_events failed.  The one
\* failure a START does not repair is that of preparePackageRules.
StartObeyed ==
  At("idle") /\ held = 0 /\ last.ok /\ last.action \in {"START", "RELOAD"} =>
    running /\ iface # "null" /\ listener.on /\ (tunnel = "none" => last.exited)

\* After a STOP nothing is left of the VPN: no flag, interface, thread,
\* callback or wake lock, whichever step of the start before it failed.
StopObeyed ==
  At("idle") /\ last.action = "STOP" =>
    ~running /\ iface = "null" /\ tunnel = "none" /\ ~listener.on /\ wake = 0

\* Every command ends and the commands behind it are handled: the command
\* thread waits for ever only for a tunnel thread that waits itself, for the
\* lock a failed preparePackageRules left locked.
CommandEnds == ~At("idle") ~> (At("idle") \/ tunnel = "blocked")

\* An interface built for another network is replaced.
RightDnsServers ==
  (iface # "null" /\ iface # net.current) ~> (iface = "null" \/ iface = net.current)

=============================================================================
