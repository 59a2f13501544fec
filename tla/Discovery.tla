----------------------------- MODULE Discovery -----------------------------
(***************************************************************************)
(* What the output controller can offer: probe_outputs runs avahi-browse and  *)
(* then `pactl list short sinks`, parses what each prints and merges the       *)
(* lines of one device (output/discovery.rs). A choice of the user is looked   *)
(* up in the last probe (controller.rs 281-330), and the Chromecast is told to *)
(* pull from the address main read once (cast/client.rs server_lan_ip).       *)
(*                                                                         *)
(* A sink's name is the sequence of its parts, an avahi line a record of its   *)
(* fields, None where a field is missing, empty or does not parse.           *)
(***************************************************************************)
EXTENDS Integers, Sequences, FiniteSets, SequencesExt

CONSTANTS
  Lines,     \* lines avahi-browse may print
  SinkNames, \* sinks PipeWire may list
  Hosts,     \* outputs of `hostname -I`: IPv4 addresses by their octets
  PORTS,     \* u16::MAX
  NoDevice,  \* Option::None
  MaxListed  \* bound: lines, and sinks, that are there at one time

ASSUME DiscoveryAssumption ==
  /\ PORTS \in Nat /\ MaxListed \in Nat
  /\ Hosts \subseteq Seq(Seq(0 .. 255))

VARIABLES
  probing,     \* probe_outputs has yet to list the sinks
  chromecasts, \* what it has of Chromecasts
  offered,     \* AvailableOutputs of the last probe
  printed,     \* history: what the commands printed
  lanIp        \* read at startup

discoveryVars == <<probing, chromecasts, offered, printed, lanIp>>

-----------------------------------------------------------------------------
(* Merging. What is kept of a sequence is said by the positions kept.         *)

InOrder(P) ==
  CHOOSE g \in [1 .. Cardinality(P) -> P] : \A i, j \in DOMAIN g : i < j => g[i] < g[j]

Kept(s, P) == [i \in 1 .. Cardinality(P) |-> s[InOrder(P)[i]]]

(* The first of each key.                                                    *)
DedupBy(devices, field) ==
  Kept(devices, {i \in DOMAIN devices :
                   \A j \in 1 .. i - 1 : devices[j][field] # devices[i][field]})

Parsed(line) ==
  /\ line.resolved
  /\ line.port \in 0 .. PORTS
  /\ NoDevice \notin {line.name, line.id}

(* Variant: the order avahi printed them in.                                *)
AsPrinted(lines) == lines

(* A stable sort by protocol.                                              *)
Ipv4First(lines) ==
  LET ipv4 == {i \in DOMAIN lines : lines[i].proto = "IPv4"}
  IN Kept(lines, ipv4) \o Kept(lines, DOMAIN lines \ ipv4)

ParseChromecasts(lines) ==
  LET parsed == Ipv4First(Kept(lines, {i \in DOMAIN lines : Parsed(lines[i])}))
  IN [i \in DOMAIN parsed |-> [id |-> parsed[i].id, name |-> parsed[i].name,
                               addr |-> parsed[i].addr, port |-> parsed[i].port]]

(* What is between "raop_sink." and the last ".local", or all that follows.    *)
Friendly(sink) ==
  LET rest == Tail(sink)
      cuts == {i \in DOMAIN rest : rest[i] = ".local"}
  IN IF cuts = {} THEN rest
     ELSE SubSeq(rest, 1, Max(cuts) - 1)

IsRaop(sink) == sink[1] = "raop_sink."

IsHardware(sink) ==
  /\ sink[1] # "soundsync"
  /\ ~IsRaop(sink)
  /\ "effect_" \notin Range(sink)
  /\ Last(sink) # ".monitor"

ParseRaopSinks(sinks) ==
  LET raop == Kept(sinks, {i \in DOMAIN sinks : IsRaop(sinks[i])})
  IN [i \in DOMAIN raop |-> [id |-> raop[i], name |-> Friendly(raop[i])]]

ParseSoundcardSinks(sinks) ==
  LET cards == Kept(sinks, {i \in DOMAIN sinks : IsHardware(sinks[i])})
  IN [i \in DOMAIN cards |-> [id |-> cards[i], name |-> cards[i]]]

(* The first private address, else the first that is neither loopback nor     *)
(* link-local; anything else that is printed (IPv6) has no octets here.       *)
Usable(a) == Len(a) = 4 /\ a[1] # 127 /\ ~(a[1] = 169 /\ a[2] = 254)

Private(a) ==
  \/ a[1] = 192 /\ a[2] = 168
  \/ a[1] = 10
  \/ a[1] = 172 /\ a[2] \in 16 .. 31

ServerLanIp(host) ==
  LET usable  == {i \in DOMAIN host : Usable(host[i])}
      private == {i \in usable : Private(host[i])}
  IN IF private # {} THEN host[Min(private)]
     ELSE IF usable # {} THEN host[Min(usable)] ELSE NoDevice

-----------------------------------------------------------------------------
(* probe_outputs. Devices come and go from one probe to the next, and a command *)
(* that fails counts as one that printed nothing.                           *)

Printouts(lines) == UNION {[1 .. n -> lines] : n \in 0 .. MaxListed}

Browse ==
  /\ ~probing
  /\ \E out \in Printouts(Lines) :
       /\ chromecasts' = DedupBy(ParseChromecasts(out), "id")
       /\ printed' = [printed EXCEPT !.avahi = out]
  /\ probing' = TRUE
  /\ UNCHANGED <<offered, lanIp>>

ListSinks ==
  /\ probing
  /\ \E out \in Printouts(SinkNames) :
       /\ offered' =
            [soundcard  |-> DedupBy(ParseSoundcardSinks(out), "id"),
             airplay    |-> DedupBy(ParseRaopSinks(out), "name"),
             chromecast |-> chromecasts]
       /\ printed' = [printed EXCEPT !.sinks = out]
  /\ probing' = FALSE
  /\ UNCHANGED <<chromecasts, lanIp>>

(* Where start_cast goes for a Chromecast chosen by its id from whatever list   *)
(* the user still had, and what it is told to pull.                         *)
CastTo(id) ==
  LET matching == {i \in DOMAIN offered.chromecast : offered.chromecast[i].id = id}
  IN IF lanIp = NoDevice \/ matching = {} THEN NoDevice
     ELSE [device |-> offered.chromecast[Min(matching)], pull |-> lanIp]

DiscoveryInit ==
  /\ probing = FALSE
  /\ chromecasts = <<>>
  /\ offered = [soundcard |-> <<>>, airplay |-> <<>>, chromecast |-> <<>>]
  /\ printed = [avahi |-> <<>>, sinks |-> <<>>]
  /\ \E host \in Hosts : lanIp = ServerLanIp(host)

DiscoveryNext == Browse \/ ListSinks

DiscoverySpec == DiscoveryInit /\ [][DiscoveryNext]_discoveryVars

-----------------------------------------------------------------------------
(* However often and in whatever order avahi printed its lines, a Chromecast   *)
(* is offered once if one of them parses, and is cast to at an address it      *)
(* announced: by IPv4 if any of its lines that parse is IPv4 (discovery.rs     *)
(* 86-89, 298-308). Receivers of one friendly name are offered once, by the     *)
(* sink that was there first, and never as a sound card; our own sinks are not  *)
(* offered at all. And what is to be pulled is never loopback or link-local     *)
(* (client.rs 36-41).                                                      *)
OnceEach(devices, field, keys) ==
  /\ {devices[i][field] : i \in DOMAIN devices} = keys
  /\ \A i, j \in DOMAIN devices : devices[i][field] = devices[j][field] => i = j

(* d has an address of a line of its own, an IPv4 line's if there is one.      *)
BestAddress(d, lines) ==
  LET of == {l \in lines : l.id = d.id}
      ipv4 == {l \in of : l.proto = "IPv4"}
  IN \E l \in IF ipv4 # {} THEN ipv4 ELSE of : d.addr = l.addr /\ d.port = l.port

ChromecastsMerged ==
  LET lines == {l \in Range(printed.avahi) : Parsed(l)}
  IN /\ OnceEach(offered.chromecast, "id", {l.id : l \in lines})
     /\ \A l \in lines : CastTo(l.id) # NoDevice =>
          /\ BestAddress(CastTo(l.id).device, lines)
          /\ CastTo(l.id).pull[1] # 127
          /\ SubSeq(CastTo(l.id).pull, 1, 2) # <<169, 254>>

SinksMerged ==
  LET raop == {s \in Range(printed.sinks) : s[1] = "raop_sink."}
      airplay == offered.airplay
      place(s) == Min({i \in DOMAIN printed.sinks : printed.sinks[i] = s})
  IN /\ OnceEach(airplay, "name", {Friendly(s) : s \in raop})
     /\ \A i \in DOMAIN airplay : \A s \in raop :
          Friendly(s) = airplay[i].name => place(airplay[i].id) <= place(s)
     /\ \A i \in DOMAIN offered.soundcard :
          offered.soundcard[i].id \in
            {s \in Range(printed.sinks) : s[1] \notin {"raop_sink.", "soundsync"}}

MergedOnce == ~probing => ChromecastsMerged /\ SinksMerged
=============================================================================
