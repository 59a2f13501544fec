------------------------ MODULE MCOutputs --------------------------------
(***************************************************************************)
(* Instances of OutputController and of Discovery for TLC: a behaviour is one *)
(* of either.                                                              *)
(***************************************************************************)
EXTENDS OutputController, Discovery

VARIABLE part

Line(proto, addr, port, id) ==
  [resolved |-> TRUE, proto |-> proto, addr |-> addr, port |-> port,
   name |-> "TV", id |-> id]

(* A device with addresses of both kinds, one of its lines with a port that is *)
(* none, a device that has only IPv6, and a line that is not resolved.        *)
MCLines ==
  {Line("IPv6", "fe80::1", 8009, "tv"), Line("IPv4", "10.0.0.1", 8009, "tv"),
   Line("IPv4", "10.0.0.9", 65536, "tv"), Line("IPv6", "fe80::2", 8009, "hall"),
   [Line("IPv4", "10.0.0.2", 8009, "hall") EXCEPT !.resolved = FALSE]}

MCSinkNames ==
  {<<"alsa_output">>, <<"soundsync", "capture">>,
   <<"raop_sink.", "Gym", ".local", "ip1">>, <<"raop_sink.", "Gym", ".local", "ip2">>,
   <<"raop_sink.", "a", ".local", "b", ".local", "ip1">>}

MCHosts ==
  {<<<<169, 254, 3, 1>>, <<127, 0, 0, 1>>>>,
   <<<<>>, <<203, 0, 113, 5>>, <<172, 16, 0, 2>>>>}

(* A probe replaces all that the last one found: a behaviour has one that finds *)
(* anything.                                                               *)
NoneYet == printed = [avahi |-> <<>>, sinks |-> <<>>]

MCInit ==
  /\ part \in {"controller", "discovery"}
  /\ Init
  /\ DiscoveryInit
  /\ part # "discovery" => lanIp = NoDevice

MCNext ==
  /\ UNCHANGED part
  /\ \/ part = "controller" /\ Next /\ UNCHANGED discoveryVars
     \/ part = "discovery" /\ (probing \/ NoneYet) /\ DiscoveryNext /\ UNCHANGED vars

MCSpec ==
  /\ MCInit
  /\ [][MCNext]_<<vars, discoveryVars, part>>
  /\ WF_vars(part = "controller" /\ Controller)
=============================================================================
