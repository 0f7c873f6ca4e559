---------------------------- MODULE MCSessionList ----------------------------
(* Small instances of SessionList: the flows of the apps. *)
EXTENDS SessionList, TLC

CONSTANTS dns, dhcp, web, ping, tcp, p1, p2, p3

ThreePtrs == {p1, p2, p3}
PtrSymmetry == Permutations(ThreePtrs)
=============================================================================
