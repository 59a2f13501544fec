---------------------------- MODULE MCEqRouting ----------------------------
(* Instances of EqRouting for TLC, small enough for its liveness.           *)
EXTENDS EqRouting
=============================================================================
