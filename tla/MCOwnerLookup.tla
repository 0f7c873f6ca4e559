---------------------------- MODULE MCOwnerLookup ----------------------------
(* Sockets and packets for OwnerLookup. *)
EXTENDS OwnerLookup

Row(version, protocol, port, dest, uid) ==
  [version |-> version, protocol |-> protocol, port |-> port, dest |-> dest, uid |-> uid]

\* A port two apps use in turn, with sockets of either version, and a socket for
\* echo requests, which is not connected.
SmallSockets ==
  {Row(6, "tcp", 1, "d1", 1), Row(4, "tcp", 1, "d1", 2), Row(4, "icmp", 1, "*", 1)}

SmallFlows ==
  {[protocol |-> "tcp", port |-> 1, dest |-> "d1"],
   [protocol |-> "tcp", port |-> 1, dest |-> "d2"],
   [protocol |-> "icmp", port |-> 1, dest |-> "d1"]}
=============================================================================
