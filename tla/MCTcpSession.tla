---------------------------- MODULE MCTcpSession ----------------------------
(* Model values for TcpSession. *)
EXTENDS TcpSession

OneWindow == {3}
TwoWindows == {0, 4}
=============================================================================
