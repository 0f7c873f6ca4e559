---------------------------- MODULE MCVpnService ----------------------------
(* Small instances of VpnService. *)
EXTENDS VpnService

CONSTANTS wifi, mobile
=============================================================================
