-------------------------- MODULE MCPairingWindow --------------------------
(* Instances of BtService, and so of PairingWindow, for TLC, a tick standing  *)
(* for half a minute.                                                      *)
EXTENDS BtService
=============================================================================
