---------------------------- MODULE MCAudioHost ----------------------------
(***************************************************************************)
(* Instances of EqRouting and of Installation for TLC: a behaviour is one of  *)
(* the daemon that routes the audio of a host, or one of the subcommands that *)
(* configure the host for it.                                               *)
(***************************************************************************)
EXTENDS EqRouting, Installation

CONSTANT Parts  \* which of the two an instance is about

VARIABLE part

(* The names of adapters do not sort as their numbers do.                    *)
MCSysOrder == <<"hci0", "hci10", "hci2">>

MCInit ==
  /\ part \in Parts
  /\ Init
  /\ part # "routing" => faults = {}
  /\ InstallInit
  /\ hcis = {"hci2"}
  /\ part # "install" => reads = "Lua" /\ accidents = {}

MCNext ==
  /\ UNCHANGED part
  /\ \/ part = "routing" /\ Next /\ UNCHANGED installVars
     \/ part = "install" /\ InstallNext /\ UNCHANGED vars

MCSpec == MCInit /\ [][MCNext]_<<vars, installVars, part>>
=============================================================================
