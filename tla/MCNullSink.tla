----------------------------- MODULE MCNullSink -----------------------------
(* Instances of NullSink for TLC.                                           *)
EXTENDS NullSink
=============================================================================
