---------------------------- MODULE MCBtDevices ----------------------------
(* Instances of BtDevices for TLC.                                         *)
EXTENDS BtDevices
=============================================================================
