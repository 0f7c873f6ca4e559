---------------------------- MODULE TcpLifecycle ----------------------------
(***************************************************************************)
(* What a TCP session promises, without packets, windows, queues, timers   *)
(* or the event loop: the life of one connection between an app and a      *)
(* server, the descriptor that serves it, and the number of bytes of the   *)
(* app's stream that were delivered.  TcpSession implements it.            *)
(***************************************************************************)
EXTENDS Naturals

VARIABLES
  phase,       \* how far the connection's life is
  descriptor,  \* BOOLEAN: a socket to the server is open
  delivered    \* bytes handed to the server

vars == <<phase, descriptor, delivered>>

Init == phase = "none" /\ descriptor = FALSE /\ delivered = 0

\* An attempt starts with a socket and a stream of its own; one that is not
\* allowed is closing from the start.
Connect ==
  /\ phase = "none"
  /\ phase' \in {"connecting", "closing"}
  /\ descriptor' = TRUE
  /\ delivered' = 0

\* The server (or the proxy in front of it) took the connection, the app is
\* told, and says that it knows.
Answer ==
  /\ phase = "connecting" /\ phase' = "answered"
  /\ UNCHANGED <<descriptor, delivered>>

Establish ==
  /\ phase = "answered" /\ phase' = "open"
  /\ UNCHANGED <<descriptor, delivered>>

\* Bytes go to the server only once the connection was established, and only
\* while the socket is open.
Deliver ==
  /\ descriptor
  /\ phase \in {"open", "appClosed", "closing"}
  /\ delivered' \in Nat /\ delivered' > delivered
  /\ UNCHANGED <<phase, descriptor>>

AppCloses ==
  /\ phase = "open" /\ phase' = "appClosed"
  /\ UNCHANGED <<descriptor, delivered>>

\* The end of the server's stream gives the descriptor back.
ServerCloses ==
  /\ \/ phase = "open" /\ phase' = "serverClosed"
     \/ phase = "appClosed" /\ phase' = "bothClosed"
  /\ descriptor /\ descriptor' = FALSE
  /\ UNCHANGED delivered

\* Resets, errors and timeouts end any connection; the descriptor is given
\* back then or when the session is closed.
GiveUp ==
  /\ phase \notin {"none", "closed"}
  /\ phase' = "closing"
  /\ descriptor' => descriptor
  /\ UNCHANGED delivered

Close ==
  /\ phase \notin {"none", "closed"}
  /\ phase' = "closed"
  /\ descriptor' = FALSE
  /\ UNCHANGED delivered

\* Only a closed connection makes room for the next one on its addresses.
Remove ==
  /\ phase = "closed" /\ phase' = "none"
  /\ ~descriptor /\ UNCHANGED descriptor
  /\ delivered' = 0

Next ==
  \/ Connect \/ Answer \/ Establish \/ Deliver
  \/ AppCloses \/ ServerCloses \/ GiveUp \/ Close \/ Remove

Spec == Init /\ [][Next]_vars
=============================================================================
