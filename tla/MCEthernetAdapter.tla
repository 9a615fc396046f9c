-------------------------- MODULE MCEthernetAdapter --------------------------
(***************************************************************************)
(* EthernetAdapter for TLC: the remote hosts share a port, or an address.  *)
(***************************************************************************)
EXTENDS EthernetAdapter

CONSTANTS near, far

ThreePeers == {[ip |-> near, port |-> 1], [ip |-> near, port |-> 2], [ip |-> far, port |-> 1]}
=============================================================================
