-------------------------- MODULE BtDevicesProofs --------------------------
(***************************************************************************)
(* Bluetooth devices, for any set of them, any capacity of the channel, and    *)
(* any faults where a theorem does not exclude them.                        *)
(***************************************************************************)
EXTENDS BtDevices, SequenceTheorems, TLAPS

Known == {"unknown", "disconnected", "discovered", "connected", "audio_active"}

(* No device is ever in "connecting".                                        *)
DeviceTypes ==
  /\ bluez \in [Devices -> {"absent", "seen", "paired", "connected"}]
  /\ told \in [Devices -> Seq(BOOLEAN)]
  /\ adapterTold \in Seq(Events)
  /\ dPc \in {"list", "seed", "seedSend", "subscribe", "follow", "read", "send",
              "ended"}
  /\ todo \in SUBSET Devices
  /\ cur \in Devices \cup {NoDevice}
  /\ got \in {"seen", "paired", "connected"}
  /\ events \in Seq(Events)
  /\ devices \in [Devices -> Known]

(* The discovery task holds a device between reading and acting on it, and has *)
(* seeded all it listed before it follows the adapter.                       *)
Holding ==
  /\ (dPc \in {"seedSend", "read", "send"}) <=> (cur # NoDevice)
  /\ dPc \in {"follow", "read", "send"} => todo = {}

-----------------------------------------------------------------------------
(* Events that have yet to be taken: a state among `states` lasts through them, *)
(* or one of `kinds` brings one, unless one of `until` comes later.           *)
Lasting(q, d, s, states, kinds, until) ==
  \E i \in 0 .. Len(q) :
    /\ IF i = 0 THEN s \in states ELSE q[i][1] \in kinds /\ q[i][2] = d
    /\ \A j \in i + 1 .. Len(q) : ~(q[j][1] \in until /\ q[j][2] = d)

UpStates == {"connected", "audio_active"}

UpAfter(q, d) ==
  Lasting(q, d, devices[d], UpStates, {"connected"}, {"disconnected", "removed"})

ThereAfter(q, d) ==
  Lasting(q, d, devices[d], Known \ {"unknown"},
          {"added", "connected", "disconnected"}, {"removed"})

Up(d) == UpAfter(events, d)

There(d) == ThereAfter(events, d)

(* The adapter has said e, and discovery has yet to hear it.                  *)
ToHear(e) == \E i \in DOMAIN adapterTold : adapterTold[i] = e

(* Any removal of d that it said, it took back.                               *)
Readded(d) ==
  \A i \in DOMAIN adapterTold : adapterTold[i] = <<"removed", d>> =>
    \E j \in DOMAIN adapterTold : j > i /\ adapterTold[j] = <<"added", d>>

(* Discovery will read d, or has read that it is connected.                   *)
WillSurface(d) ==
  \/ dPc = "list" \/ d \in todo
  \/ cur = d /\ (dPc = "read" \/ got = "connected")
  \/ ToHear(<<"added", d>>)

(* Whatever a device was last, somebody has said it or will.                  *)
UpInv ==
  \A d \in Devices :
    /\ told[d] # <<>> => (told[d][Len(told[d])] <=> bluez[d] = "connected")
    /\ told[d] = <<>> /\ Up(d) => bluez[d] = "connected"
    /\ told[d] = <<>> /\ bluez[d] = "connected" => Up(d) \/ WillSurface(d)

(* Nothing changes while discovery acts on what it read, and nobody reports    *)
(* on a device that is not there.                                           *)
HeldInv ==
  \A d \in Devices :
    /\ cur = d /\ dPc \in {"seedSend", "send"} => got = bluez[d]
    /\ bluez[d] = "absent" => told[d] = <<>>

GoneInv ==
  \A d \in Devices :
    /\ bluez[d] = "absent" /\ There(d) => ToHear(<<"removed", d>>)
    /\ bluez[d] # "absent" => Readded(d)

Faithful == HeldInv /\ UpInv /\ GoneInv

DevicesInv == DeviceTypes /\ Holding /\ (faults \subseteq {"removed"} => Faithful)

-----------------------------------------------------------------------------
(* What the channel does to what lasts.                                      *)

LEMMA LastingNow ==
  ASSUME NEW d, NEW s, NEW states, NEW kinds, NEW until
  PROVE  Lasting(<<>>, d, s, states, kinds, until) <=> s \in states
BY DEF Lasting

LEMMA LastingSent ==
  ASSUME NEW q \in Seq(Events), NEW e \in Events,
         NEW d, NEW s, NEW states, NEW kinds, NEW until
  PROVE  Lasting(Append(q, e), d, s, states, kinds, until) <=>
           \/ e[1] \in kinds /\ e[2] = d
           \/ ~(e[1] \in until /\ e[2] = d) /\ Lasting(q, d, s, states, kinds, until)
<1> DEFINE r == Append(q, e)
           n == Len(q)
           Brings(p, i) == IF i = 0 THEN s \in states
                           ELSE p[i][1] \in kinds /\ p[i][2] = d
           Ends(p, j) == p[j][1] \in until /\ p[j][2] = d
<1>1. n \in Nat /\ Len(r) = n + 1 /\ r[n + 1] = e /\ \A i \in 1 .. n : r[i] = q[i]
  BY AppendProperties, LenProperties
<1>2. \A i \in 0 .. n : Brings(r, i) <=> Brings(q, i)
  BY <1>1
<1>3. \A j \in 1 .. n : Ends(r, j) <=> Ends(q, j)
  BY <1>1
<1>4. Brings(r, n + 1) <=> e[1] \in kinds /\ e[2] = d
  BY <1>1
<1>5. Ends(r, n + 1) <=> e[1] \in until /\ e[2] = d
  BY <1>1
<1>6. Lasting(r, d, s, states, kinds, until) <=>
        \E i \in 0 .. n + 1 : Brings(r, i) /\ \A j \in i + 1 .. n + 1 : ~Ends(r, j)
  BY <1>1 DEF Lasting
<1>7. Lasting(q, d, s, states, kinds, until) <=>
        \E i \in 0 .. n : Brings(q, i) /\ \A j \in i + 1 .. n : ~Ends(q, j)
  BY DEF Lasting
<1> HIDE DEF r, Brings, Ends
<1>8. ASSUME Lasting(r, d, s, states, kinds, until)
      PROVE  \/ Brings(r, n + 1)
             \/ ~Ends(r, n + 1) /\ Lasting(q, d, s, states, kinds, until)
  <2>1. PICK i \in 0 .. n + 1 : Brings(r, i) /\ \A j \in i + 1 .. n + 1 : ~Ends(r, j)
    BY <1>6, <1>8
  <2>2. CASE i = n + 1
    BY <2>1, <2>2
  <2>3. CASE i \in 0 .. n
    BY <2>1, <2>3, <1>1, <1>2, <1>3, <1>7
  <2> QED BY <2>2, <2>3, <1>1
<1>9. ASSUME \/ Brings(r, n + 1)
             \/ ~Ends(r, n + 1) /\ Lasting(q, d, s, states, kinds, until)
      PROVE  Lasting(r, d, s, states, kinds, until)
  <2>1. CASE Brings(r, n + 1)
    BY <2>1, <1>1, <1>6
  <2>2. CASE ~Ends(r, n + 1) /\ Lasting(q, d, s, states, kinds, until)
    <3>1. PICK i \in 0 .. n : Brings(q, i) /\ \A j \in i + 1 .. n : ~Ends(q, j)
      BY <2>2, <1>7
    <3>2. \A j \in i + 1 .. n + 1 : j = n + 1 \/ j \in i + 1 .. n
      BY <1>1
    <3> QED BY <2>2, <3>1, <3>2, <1>1, <1>2, <1>3, <1>6
  <2> QED BY <1>9, <2>1, <2>2
<1> QED BY <1>4, <1>5, <1>8, <1>9 DEF r

LEMMA LastingTaken ==
  ASSUME NEW q \in Seq(Events), q # <<>>,
         NEW d, NEW s, NEW t, NEW states, NEW kinds, NEW until,
         t \in states <=> \/ Head(q)[1] \in kinds /\ Head(q)[2] = d
                          \/ ~(Head(q)[1] \in until /\ Head(q)[2] = d) /\ s \in states
  PROVE  Lasting(Tail(q), d, t, states, kinds, until) <=>
           Lasting(q, d, s, states, kinds, until)
<1> DEFINE r == Tail(q)
           n == Len(r)
           Brings(p, v, i) == IF i = 0 THEN v \in states
                              ELSE p[i][1] \in kinds /\ p[i][2] = d
           Ends(p, j) == p[j][1] \in until /\ p[j][2] = d
<1>1. n \in Nat /\ Len(q) = n + 1 /\ Head(q) = q[1] /\ \A i \in 1 .. n : r[i] = q[i + 1]
  BY HeadTailProperties, LenProperties, EmptySeq
<1>2. \A i \in 1 .. n : Brings(r, t, i) <=> Brings(q, s, i + 1)
  BY <1>1
<1>3. \A j \in 1 .. n : Ends(r, j) <=> Ends(q, j + 1)
  BY <1>1
<1>4. Brings(r, t, 0) <=> Brings(q, s, 1) \/ (~Ends(q, 1) /\ Brings(q, s, 0))
  BY <1>1
<1>5. Lasting(q, d, s, states, kinds, until) <=>
        \E i \in 0 .. n + 1 : Brings(q, s, i) /\ \A j \in i + 1 .. n + 1 : ~Ends(q, j)
  BY <1>1 DEF Lasting
<1>6. Lasting(r, d, t, states, kinds, until) <=>
        \E i \in 0 .. n : Brings(r, t, i) /\ \A j \in i + 1 .. n : ~Ends(r, j)
  BY DEF Lasting
<1> HIDE DEF r, n, Brings, Ends
<1>7. ASSUME Lasting(q, d, s, states, kinds, until)
      PROVE  Lasting(r, d, t, states, kinds, until)
  <2>1. PICK i \in 0 .. n + 1 :
          Brings(q, s, i) /\ \A j \in i + 1 .. n + 1 : ~Ends(q, j)
    BY <1>5, <1>7
  <2>2. CASE i \in {0, 1}
    <3>1. Brings(r, t, 0)
      BY <2>1, <2>2, <1>1, <1>4
    <3>2. \A j \in 1 .. n : ~Ends(r, j)
      BY <2>1, <2>2, <1>1, <1>3
    <3> QED BY <3>1, <3>2, <1>1, <1>6
  <2>3. CASE i \notin {0, 1}
    <3>1. i - 1 \in 1 .. n /\ Brings(r, t, i - 1)
      BY <2>1, <2>3, <1>1, <1>2
    <3>2. \A j \in i .. n : ~Ends(r, j)
      BY <2>1, <2>3, <1>1, <1>3
    <3> QED BY <3>1, <3>2, <1>1, <1>6
  <2> QED BY <2>2, <2>3
<1>8. ASSUME Lasting(r, d, t, states, kinds, until)
      PROVE  Lasting(q, d, s, states, kinds, until)
  <2>1. PICK i \in 0 .. n : Brings(r, t, i) /\ \A j \in i + 1 .. n : ~Ends(r, j)
    BY <1>6, <1>8
  <2>2. \A j \in i + 2 .. n + 1 : ~Ends(q, j)
    <3> SUFFICES ASSUME NEW j \in i + 2 .. n + 1
                 PROVE  ~Ends(q, j)
      OBVIOUS
    <3>1. j - 1 \in i + 1 .. n /\ j - 1 \in 1 .. n /\ (j - 1) + 1 = j
      BY <1>1
    <3> QED BY <3>1, <2>1, <1>3
  <2>3. CASE i = 0 /\ ~Brings(q, s, 1)
    <3>1. \A j \in 1 .. n + 1 : j = 1 \/ j \in 2 .. n + 1
      BY <1>1
    <3> QED BY <2>1, <2>2, <2>3, <3>1, <1>1, <1>4, <1>5
  <2>4. CASE i = 0 /\ Brings(q, s, 1)
    BY <2>2, <2>4, <1>1, <1>5
  <2>5. CASE i # 0
    BY <2>1, <2>2, <2>5, <1>1, <1>2, <1>5
  <2> QED BY <2>3, <2>4, <2>5
<1> QED BY <1>7, <1>8 DEF r

(* What a sender adds, where no event is lost.                               *)
LEMMA SentWhole ==
  ASSUME NEW s, Send(s), "burst" \notin faults
  PROVE  events' = events \o s
BY DEF Send, Newest

LEMMA SentEvents ==
  ASSUME DeviceTypes, NEW s \in Seq(Events), Send(s)
  PROVE  events' \in Seq(Events)
<1> DEFINE q == events \o s
<1>1. q \in Seq(Events) /\ Len(q) \in Nat
  BY ConcatProperties, LenProperties DEF DeviceTypes
<1>2. CASE Len(q) <= EventCap
  BY <1>1, <1>2 DEF Send, Newest
<1>3. CASE ~(Len(q) <= EventCap)
  <2> DEFINE m == Len(q) - EventCap + 1
             n == Len(q)
  <2>1. m \in 1 .. n + 1 /\ n \in m - 1 .. n
    BY <1>1, <1>3, DevicesAssumption
  <2>2. SubSeq(q, m, n) \in Seq(Events)
    BY <1>1, <2>1, SubSeqProperties
  <2> QED BY <1>3, <2>2 DEF Send, Newest
<1> QED BY <1>2, <1>3

LEMMA SentOne ==
  ASSUME NEW q \in Seq(Events), NEW e \in Events
  PROVE  q \o <<e>> = Append(q, e) /\ Append(q, e) \in Seq(Events)
BY AppendProperties, AppendIsConcat

LEMMA EventsAre ==
  ASSUME NEW d \in Devices, NEW kind \in {"added", "removed", "connected", "disconnected"}
  PROVE  /\ <<kind, d>> \in Events
         /\ <<kind, d>>[1] = kind
         /\ <<kind, d>>[2] = d
BY DEF Events

LEMMA SurfacedIs ==
  ASSUME NEW d \in Devices, NEW s, NEW q \in Seq(Events)
  PROVE  /\ Surfaced(d, s) \in Seq(Events)
         /\ s = "connected" => q \o Surfaced(d, s) =
                                 Append(Append(q, <<"added", d>>), <<"connected", d>>)
         /\ s # "connected" => q \o Surfaced(d, s) = Append(q, <<"added", d>>)
<1> DEFINE a == <<"added", d>>
           c == <<"connected", d>>
<1>1. a \in Events /\ c \in Events
  BY DEF Events
<1> HIDE DEF a, c
<1>2. <<a>> \in Seq(Events) /\ <<a, c>> \in Seq(Events)
  BY <1>1
<1>3. q \o <<a>> = Append(q, a) /\ q \o <<a, c>> = Append(Append(q, a), c)
  BY <1>1
<1> QED BY <1>2, <1>3 DEF Surfaced, a, c

LEMMA UpSent ==
  ASSUME NEW q \in Seq(Events), NEW d, NEW x \in Devices,
         NEW kind \in {"added", "removed", "connected", "disconnected"}
  PROVE  /\ UpAfter(Append(q, <<kind, x>>), d) <=>
              \/ kind = "connected" /\ x = d
              \/ ~(kind \in {"disconnected", "removed"} /\ x = d) /\ UpAfter(q, d)
         /\ ThereAfter(Append(q, <<kind, x>>), d) <=>
              \/ kind # "removed" /\ x = d
              \/ ~(kind = "removed" /\ x = d) /\ ThereAfter(q, d)
<1> DEFINE e == <<kind, x>>
<1>1. e \in Events /\ e[1] = kind /\ e[2] = x
  BY EventsAre
<1> HIDE DEF e
<1>2. UpAfter(Append(q, e), d) <=>
        \/ e[1] \in {"connected"} /\ e[2] = d
        \/ ~(e[1] \in {"disconnected", "removed"} /\ e[2] = d) /\ UpAfter(q, d)
  BY <1>1, LastingSent DEF UpAfter
<1>3. ThereAfter(Append(q, e), d) <=>
        \/ e[1] \in {"added", "connected", "disconnected"} /\ e[2] = d
        \/ ~(e[1] \in {"removed"} /\ e[2] = d) /\ ThereAfter(q, d)
  BY <1>1, LastingSent DEF ThereAfter
<1> QED BY <1>1, <1>2, <1>3 DEF e

(* A device surfaced.                                                        *)
LEMMA SurfacedSent ==
  ASSUME DeviceTypes, "burst" \notin faults, UNCHANGED devices,
         NEW x \in Devices, NEW s, Send(Surfaced(x, s)), NEW d
  PROVE  /\ Up(d)' <=> Up(d) \/ (d = x /\ s = "connected")
         /\ There(d)' <=> There(d) \/ d = x
<1> DEFINE q == Append(events, <<"added", x>>)
<1>1. events \in Seq(Events) /\ q \in Seq(Events)
  BY EventsAre, SentOne DEF DeviceTypes
<1>3. /\ Up(d)' <=> UpAfter(events', d)
      /\ There(d)' <=> ThereAfter(events', d)
  BY DEF Up, There, UpAfter, ThereAfter
<1>4. events' = events \o Surfaced(x, s)
  BY SentWhole
<1>5. /\ UpAfter(q, d) <=> Up(d)
      /\ ThereAfter(q, d) <=> There(d) \/ d = x
  BY <1>1, UpSent DEF Up, There
<1>6. CASE s = "connected"
  <2>1. events' = Append(q, <<"connected", x>>)
    BY <1>1, <1>4, <1>6, SurfacedIs
  <2> HIDE DEF q
  <2>2. /\ UpAfter(Append(q, <<"connected", x>>), d) <=> x = d \/ UpAfter(q, d)
        /\ ThereAfter(Append(q, <<"connected", x>>), d) <=> x = d \/ ThereAfter(q, d)
    BY <1>1, UpSent
  <2> QED BY <1>3, <1>5, <1>6, <2>1, <2>2
<1>7. CASE s # "connected"
  <2>1. events' = q
    BY <1>1, <1>4, <1>7, SurfacedIs
  <2> QED BY <1>3, <1>5, <1>7, <2>1
<1> QED BY <1>6, <1>7

(* Another event sent.                                                       *)
LEMMA EventSent ==
  ASSUME DeviceTypes, "burst" \notin faults, UNCHANGED devices, NEW x \in Devices,
         NEW kind \in {"removed", "disconnected"}, Send(<<<<kind, x>>>>), NEW d
  PROVE  /\ Up(d)' <=> Up(d) /\ d # x
         /\ There(d)' <=> IF d = x THEN kind = "disconnected" ELSE There(d)
<1>1. events \in Seq(Events)
  BY DEF DeviceTypes
<1>2. events' = Append(events, <<kind, x>>)
  <2> DEFINE e == <<kind, x>>
  <2>1. e \in Events
    BY EventsAre
  <2>2. events' = events \o <<e>>
    BY SentWhole
  <2> HIDE DEF e
  <2>3. events \o <<e>> = Append(events, e)
    BY <1>1, <2>1, SentOne
  <2> QED BY <2>2, <2>3 DEF e
<1>3. /\ Up(d)' <=> UpAfter(events', d)
      /\ There(d)' <=> ThereAfter(events', d)
  BY DEF Up, There, UpAfter, ThereAfter
<1> QED BY <1>1, <1>2, <1>3, UpSent DEF Up, There

(* The manager takes an event.                                               *)
LEMMA EventTaken ==
  ASSUME DeviceTypes, HandleEvent
  PROVE  /\ DeviceTypes'
         /\ \A d \in Devices : (Up(d)' <=> Up(d)) /\ (There(d)' <=> There(d))
<1> DEFINE e == Head(events)
           r == Tail(events)
<1>1. events # <<>> /\ events \in Seq(Events) /\ events' = r
  BY DEF HandleEvent, DeviceTypes
<1>2. e \in Events /\ r \in Seq(Events)
  BY <1>1, HeadTailProperties
<1>3. devices' = [devices EXCEPT ![e[2]] = OnEvent(e[1], @)]
  BY DEF HandleEvent
<1> HIDE DEF e, r
<1>4. /\ e[1] \in {"added", "removed", "connected", "disconnected"}
      /\ e[2] \in Devices
  BY <1>2 DEF Events
<1>5. \A s \in Known :
        /\ OnEvent(e[1], s) \in Known
        /\ OnEvent(e[1], s) \in UpStates <=>
              \/ e[1] \in {"connected"}
              \/ ~(e[1] \in {"disconnected", "removed"}) /\ s \in UpStates
        /\ OnEvent(e[1], s) \in Known \ {"unknown"} <=>
              \/ e[1] \in {"added", "connected", "disconnected"}
              \/ ~(e[1] \in {"removed"}) /\ s \in Known \ {"unknown"}
  BY <1>4 DEF Known, UpStates, OnEvent, OnAdded, OnConnected, OnRemoved
<1>6. devices \in [Devices -> Known]
  BY DEF DeviceTypes
<1>7. devices' \in [Devices -> Known]
  BY <1>3, <1>4, <1>5, <1>6
<1>8. DeviceTypes'
  BY <1>1, <1>2, <1>7 DEF DeviceTypes, HandleEvent, world, discovery
<1>9. ASSUME NEW d \in Devices
      PROVE  (Up(d)' <=> Up(d)) /\ (There(d)' <=> There(d))
  <2>1. devices[d] \in Known
    BY <1>6
  <2>2. devices'[d] = IF d = e[2] THEN OnEvent(e[1], devices[d]) ELSE devices[d]
    BY <1>3, <1>4, <1>6
  <2>3. devices'[d] \in UpStates <=>
          \/ e[1] \in {"connected"} /\ e[2] = d
          \/ ~(e[1] \in {"disconnected", "removed"} /\ e[2] = d)
             /\ devices[d] \in UpStates
    BY <1>5, <2>1, <2>2
  <2>4. devices'[d] \in Known \ {"unknown"} <=>
          \/ e[1] \in {"added", "connected", "disconnected"} /\ e[2] = d
          \/ ~(e[1] \in {"removed"} /\ e[2] = d)
             /\ devices[d] \in Known \ {"unknown"}
    BY <1>5, <2>1, <2>2
  <2>5. Lasting(r, d, devices'[d], UpStates, {"connected"}, {"disconnected", "removed"})
          <=> UpAfter(events, d)
    BY <1>1, <2>3, LastingTaken DEF UpAfter, e, r
  <2>6. Lasting(r, d, devices'[d], Known \ {"unknown"},
                {"added", "connected", "disconnected"}, {"removed"})
          <=> ThereAfter(events, d)
    BY <1>1, <2>4, LastingTaken DEF ThereAfter, e, r
  <2> QED BY <1>1, <2>5, <2>6 DEF Up, There, UpAfter, ThereAfter
<1> QED BY <1>8, <1>9

(* A probe moves devices only among those that are up.                        *)
LEMMA Probed ==
  ASSUME DeviceTypes, Probe
  PROVE  /\ DeviceTypes'
         /\ \A d \in Devices : (Up(d)' <=> Up(d)) /\ (There(d)' <=> There(d))
<1>1. \A d \in Devices :
        /\ devices[d] \in Known /\ devices'[d] \in Known
        /\ devices'[d] \in UpStates <=> devices[d] \in UpStates
        /\ devices'[d] = "unknown" <=> devices[d] = "unknown"
  BY DEF DeviceTypes, Known, UpStates, Probe, ApplyEvent, ProbeTarget, CanTransitionTo
<1>2. devices' \in [Devices -> Known]
  BY <1>1 DEF Probe
<1>3. DeviceTypes'
  BY <1>2 DEF DeviceTypes, Probe, world, discovery
<1>4. events = <<>> /\ events' = <<>>
  BY DEF Probe
<1>5. ASSUME NEW d \in Devices
      PROVE  /\ Up(d) <=> devices[d] \in UpStates
             /\ Up(d)' <=> devices'[d] \in UpStates
             /\ There(d) <=> devices[d] \in Known \ {"unknown"}
             /\ There(d)' <=> devices'[d] \in Known \ {"unknown"}
  BY <1>4, LastingNow DEF Up, There, UpAfter, ThereAfter
<1> QED BY <1>1, <1>3, <1>5

LEMMA Unheard ==
  ASSUME UNCHANGED <<events, devices>>, NEW d
  PROVE  (Up(d)' <=> Up(d)) /\ (There(d)' <=> There(d))
BY DEF Up, There, UpAfter, ThereAfter

(* The adapter's stream grows by e.                                          *)
LEMMA AdapterSays ==
  ASSUME adapterTold \in Seq(Events), NEW e \in Events,
         adapterTold' = Append(adapterTold, e)
  PROVE  /\ adapterTold' \in Seq(Events)
         /\ \A f : ToHear(f)' <=> ToHear(f) \/ f = e
         /\ \A d : e = <<"added", d>> => Readded(d)'
         /\ \A d : Readded(d) /\ e # <<"removed", d>> => Readded(d)'
<1> DEFINE n == Len(adapterTold)
<1>1. /\ n \in Nat /\ DOMAIN adapterTold = 1 .. n /\ DOMAIN adapterTold' = 1 .. n + 1
      /\ adapterTold'[n + 1] = e
      /\ \A i \in 1 .. n : adapterTold'[i] = adapterTold[i]
      /\ adapterTold' \in Seq(Events)
  BY AppendProperties, LenProperties
<1> HIDE DEF n
<1>2. ASSUME NEW f
      PROVE  ToHear(f)' <=> ToHear(f) \/ f = e
  <2>1. (\E i \in 1 .. n + 1 : adapterTold'[i] = f) <=>
          (\E i \in 1 .. n : adapterTold[i] = f) \/ f = e
    BY <1>1
  <2> QED BY <1>1, <2>1 DEF ToHear
<1>3. ASSUME NEW d, e = <<"added", d>>
      PROVE  Readded(d)'
  <2>1. adapterTold'[n + 1] # <<"removed", d>>
    BY <1>1, <1>3
  <2>2. \A i \in 1 .. n + 1 : i = n + 1 \/ n + 1 > i
    BY <1>1
  <2>3. n + 1 \in 1 .. n + 1
    BY <1>1
  <2> QED BY <1>1, <1>3, <2>1, <2>2, <2>3 DEF Readded
<1>4. ASSUME NEW d, Readded(d), e # <<"removed", d>>
      PROVE  Readded(d)'
  <2>1. ASSUME NEW i \in 1 .. n + 1, adapterTold'[i] = <<"removed", d>>
        PROVE  \E j \in 1 .. n + 1 : j > i /\ adapterTold'[j] = <<"added", d>>
    <3>1. i # n + 1
      BY <1>1, <1>4, <2>1
    <3>2. i \in 1 .. n
      BY <1>1, <3>1
    <3>3. adapterTold[i] = <<"removed", d>>
      BY <1>1, <2>1, <3>2
    <3>4. PICK j \in 1 .. n : j > i /\ adapterTold[j] = <<"added", d>>
      BY <1>1, <1>4, <3>2, <3>3 DEF Readded
    <3>5. j \in 1 .. n + 1
      BY <1>1
    <3> QED BY <1>1, <3>4, <3>5
  <2> QED BY <1>1, <2>1 DEF Readded
<1> QED BY <1>1, <1>2, <1>3, <1>4

(* Discovery takes its first event.                                          *)
LEMMA AdapterHeard ==
  ASSUME adapterTold \in Seq(Events), adapterTold # <<>>,
         adapterTold' = Tail(adapterTold)
  PROVE  /\ adapterTold' \in Seq(Events)
         /\ \A f : ToHear(f) => ToHear(f)' \/ f = Head(adapterTold)
         /\ \A d : Readded(d) => Readded(d)'
         /\ \A d : Readded(d) /\ Head(adapterTold) = <<"removed", d>> =>
              ToHear(<<"added", d>>)'
<1> DEFINE n == Len(adapterTold')
<1>1. /\ n \in Nat /\ DOMAIN adapterTold' = 1 .. n /\ DOMAIN adapterTold = 1 .. n + 1
      /\ adapterTold[1] = Head(adapterTold)
      /\ \A i \in 1 .. n : adapterTold'[i] = adapterTold[i + 1]
      /\ adapterTold' \in Seq(Events)
  BY HeadTailProperties, LenProperties, EmptySeq
<1> HIDE DEF n
<1>2. \A i \in 2 .. n + 1 : i - 1 \in 1 .. n /\ adapterTold'[i - 1] = adapterTold[i]
  <2> SUFFICES ASSUME NEW i \in 2 .. n + 1
               PROVE  i - 1 \in 1 .. n /\ adapterTold'[i - 1] = adapterTold[i]
    OBVIOUS
  <2>1. i - 1 \in 1 .. n /\ (i - 1) + 1 = i
    BY <1>1
  <2> QED BY <1>1, <2>1
<1>3. ASSUME NEW f, ToHear(f), f # Head(adapterTold)
      PROVE  ToHear(f)'
  <2>1. PICK i \in 1 .. n + 1 : adapterTold[i] = f
    BY <1>1, <1>3 DEF ToHear
  <2>2. i \in 2 .. n + 1
    BY <1>1, <1>3, <2>1
  <2> QED BY <1>1, <1>2, <2>1, <2>2 DEF ToHear
<1>4. ASSUME NEW d, Readded(d)
      PROVE  Readded(d)'
  <2>1. ASSUME NEW i \in 1 .. n, adapterTold'[i] = <<"removed", d>>
        PROVE  \E j \in 1 .. n : j > i /\ adapterTold'[j] = <<"added", d>>
    <3>1. i + 1 \in 1 .. n + 1 /\ adapterTold[i + 1] = <<"removed", d>>
      BY <1>1, <2>1
    <3>2. PICK j \in 1 .. n + 1 : j > i + 1 /\ adapterTold[j] = <<"added", d>>
      BY <1>1, <1>4, <3>1 DEF Readded
    <3>3. j \in 2 .. n + 1 /\ j - 1 > i
      BY <1>1, <3>2
    <3> QED BY <1>2, <3>2, <3>3
  <2> QED BY <1>1, <2>1 DEF Readded
<1>5. ASSUME NEW d, Readded(d), Head(adapterTold) = <<"removed", d>>
      PROVE  ToHear(<<"added", d>>)'
  <2>1. 1 \in 1 .. n + 1 /\ adapterTold[1] = <<"removed", d>>
    BY <1>1, <1>5
  <2>2. PICK j \in 1 .. n + 1 : j > 1 /\ adapterTold[j] = <<"added", d>>
    BY <1>1, <1>5, <2>1 DEF Readded
  <2>3. j \in 2 .. n + 1
    BY <2>2
  <2> QED BY <1>1, <1>2, <2>2, <2>3 DEF ToHear
<1> QED BY <1>1, <1>3, <1>4, <1>5

LEMMA AdapterSilent ==
  ASSUME UNCHANGED adapterTold
  PROVE  (\A f : ToHear(f)' <=> ToHear(f)) /\ (\A d : Readded(d)' <=> Readded(d))
BY DEF ToHear, Readded

-----------------------------------------------------------------------------
(* The types, whatever the faults.                                           *)

LEMMA DevicesInit ==
  Init => DevicesInv
<1> SUFFICES ASSUME Init
             PROVE  DevicesInv
  OBVIOUS
<1>1. DeviceTypes
  BY DEF Init, DeviceTypes, Known
<1>2. Holding
  BY DEF Init, Holding
<1>3. \A d \in Devices : Up(d) <=> devices[d] \in UpStates
  BY LastingNow DEF Up, UpAfter, Init
<1>4. \A d \in Devices : There(d) <=> devices[d] \in Known \ {"unknown"}
  BY LastingNow DEF There, ThereAfter, Init
<1>5. HeldInv
  BY DEF HeldInv, Init
<1>6. UpInv
  BY <1>3 DEF UpInv, Init, UpStates, WillSurface
<1>7. GoneInv
  BY <1>4 DEF GoneInv, Init, Readded
<1> QED BY <1>1, <1>2, <1>5, <1>6, <1>7 DEF DevicesInv, Faithful

LEMMA TypesStep ==
  ASSUME DeviceTypes, Holding, [Next]_vars
  PROVE  DeviceTypes' /\ Holding'
<1>1. CASE UNCHANGED vars
  BY <1>1 DEF vars, world, discovery, manager, DeviceTypes, Holding
<1>2. CASE ListKnown
  BY <1>2 DEF ListKnown, world, manager, DeviceTypes, Holding
<1>3. ASSUME NEW d \in Devices, SeedRead(d)
      PROVE  DeviceTypes' /\ Holding'
  BY <1>3, DevicesAssumption DEF SeedRead, ReadNow, world, manager, DeviceTypes, Holding
<1>4. CASE SeedSend
  <2>1. cur \in Devices
    BY <1>4 DEF SeedSend, DeviceTypes, Holding
  <2>2. events' \in Seq(Events)
    BY <1>4, <2>1, SentEvents, SurfacedIs DEF SeedSend, DeviceTypes
  <2> QED BY <1>4, <2>2 DEF SeedSend, Spawn, world, manager, DeviceTypes, Holding
<1>5. CASE Subscribe
  BY <1>5 DEF Subscribe, world, manager, DeviceTypes, Holding
<1>6. CASE DiscoveryEnds
  BY <1>6 DEF DiscoveryEnds, world, manager, DeviceTypes, Holding
<1>7. ASSUME NEW d \in Devices, FollowAdded(d)
      PROVE  DeviceTypes' /\ Holding'
  <2>1. adapterTold' \in Seq(Events)
    BY <1>7, HeadTailProperties DEF FollowAdded, DeviceTypes
  <2> QED BY <1>7, <2>1, DevicesAssumption
          DEF FollowAdded, Spawn, world, manager, DeviceTypes, Holding
<1>8. CASE FollowRead
  <2>1. cur \in Devices
    BY <1>8 DEF FollowRead, DeviceTypes, Holding
  <2> QED BY <1>8, <2>1 DEF FollowRead, ReadNow, world, manager, DeviceTypes, Holding
<1>9. CASE FollowSend
  <2>1. cur \in Devices
    BY <1>9 DEF FollowSend, DeviceTypes, Holding
  <2>2. events' \in Seq(Events)
    BY <1>9, <2>1, SentEvents, SurfacedIs DEF FollowSend, DeviceTypes
  <2> QED BY <1>9, <2>2 DEF FollowSend, world, manager, DeviceTypes, Holding
<1>10. ASSUME NEW d \in Devices, FollowRemoved(d)
       PROVE  DeviceTypes' /\ Holding'
  <2>1. adapterTold' \in Seq(Events)
    BY <1>10, HeadTailProperties DEF FollowRemoved, DeviceTypes
  <2>2. <<<<"removed", d>>>> \in Seq(Events)
    BY DEF Events
  <2>3. events' \in Seq(Events)
    BY <1>10, <2>2, SentEvents DEF FollowRemoved
  <2> QED BY <1>10, <2>1, <2>3 DEF FollowRemoved, world, discovery, manager,
                                   DeviceTypes, Holding
<1>11. ASSUME NEW d \in Devices, WatcherListens(d)
       PROVE  DeviceTypes' /\ Holding'
  BY <1>11 DEF WatcherListens, world, discovery, manager, DeviceTypes, Holding
<1>12. ASSUME NEW d \in Devices, WatcherReports(d)
       PROVE  DeviceTypes' /\ Holding'
  <2>1. told' \in [Devices -> Seq(BOOLEAN)]
    BY <1>12, HeadTailProperties DEF WatcherReports, DeviceTypes
  <2>2. <<<<"disconnected", d>>>> \in Seq(Events)
    BY DEF Events
  <2>3. Surfaced(d, "connected") \in Seq(Events)
    BY SurfacedIs DEF DeviceTypes
  <2>4. events' \in Seq(Events)
    BY <1>12, <2>2, <2>3, SentEvents DEF WatcherReports
  <2> QED BY <1>12, <2>1, <2>4 DEF WatcherReports, world, discovery, manager,
                                   DeviceTypes, Holding
<1>13. CASE HandleEvent
  BY <1>13, EventTaken DEF HandleEvent, discovery, Holding
<1>14. CASE Probe
  BY <1>14, Probed DEF Probe, discovery, Holding
<1>15. CASE Bridge \/ RequestShutdown
  BY <1>15 DEF Bridge, RequestShutdown, world, discovery, DeviceTypes, Holding
<1>16. ASSUME NEW d \in Devices, Connect(d) \/ Disconnect(d)
       PROVE  DeviceTypes' /\ Holding'
  <2>1. \A b \in BOOLEAN : Append(told[d], b) \in Seq(BOOLEAN)
    BY AppendProperties DEF DeviceTypes
  <2>2. told' \in [Devices -> Seq(BOOLEAN)]
    BY <1>16, <2>1 DEF Connect, Disconnect, Reported, DeviceTypes
  <2> QED BY <1>16, <2>2 DEF Connect, Disconnect, discovery, manager, DeviceTypes, Holding
<1>17. ASSUME NEW d \in Devices, Appear(d) \/ Remove(d)
       PROVE  DeviceTypes' /\ Holding'
  <2> DEFINE a == <<"added", d>>
             b == <<"removed", d>>
  <2>1. a \in Events /\ b \in Events
    BY DEF Events
  <2>2. \/ adapterTold' = Append(adapterTold, a)
        \/ adapterTold' = Append(adapterTold, b)
        \/ UNCHANGED adapterTold
    BY <1>17 DEF Appear, Remove, Announced
  <2> HIDE DEF a, b
  <2>3. adapterTold \in Seq(Events)
    BY DEF DeviceTypes
  <2>4. Append(adapterTold, a) \in Seq(Events) /\ Append(adapterTold, b) \in Seq(Events)
    BY <2>1, <2>3, AppendProperties
  <2>5. adapterTold' \in Seq(Events)
    BY <2>2, <2>3, <2>4
  <2> QED BY <1>17, <2>5 DEF Appear, Remove, discovery, manager, DeviceTypes, Holding
<1>18. ASSUME NEW d \in Devices, NodeAppears(d) \/ NodeVanishes(d)
       PROVE  DeviceTypes' /\ Holding'
  BY <1>18 DEF NodeAppears, NodeVanishes, discovery, manager, DeviceTypes, Holding
<1> QED BY <1>1, <1>2, <1>3, <1>4, <1>5, <1>6, <1>7, <1>8, <1>9, <1>10, <1>11, <1>12,
           <1>13, <1>14, <1>15, <1>16, <1>17, <1>18 DEF Next, Discovery, Watcher

-----------------------------------------------------------------------------
(* Where at most removals happen: what each action does to Faithful. The       *)
(* effects on the three queues come from the lemmas above.                    *)

Kept(d) ==
  /\ Up(d)' <=> Up(d)
  /\ There(d)' <=> There(d)

(* The channel, the manager and the adapter's stream are left alone.          *)
LEMMA AllKept ==
  ASSUME UNCHANGED <<events, devices, adapterTold>>
  PROVE  /\ \A d \in Devices : Kept(d)
         /\ \A f : ToHear(f)' <=> ToHear(f)
         /\ \A d : Readded(d)' <=> Readded(d)
BY Unheard, AdapterSilent DEF Kept

LEMMA HostStep ==
  ASSUME DeviceTypes, Holding, Faithful, "unwatched" \notin faults,
         NEW x \in Devices, Connect(x) \/ Disconnect(x)
  PROVE  Faithful'
<1>1. PICK b \in BOOLEAN :
        /\ told' = [told EXCEPT ![x] = Append(@, b)]
        /\ cur # x
        /\ bluez[x] # "absent"
        /\ bluez' = [bluez EXCEPT ![x] = IF b THEN "connected" ELSE "paired"]
  BY DEF Connect, Disconnect, Reported, Followed
<1>2. UNCHANGED <<discovery, events, devices, adapterTold>>
  BY DEF Connect, Disconnect, manager
<1>3. /\ told[x] \in Seq(BOOLEAN)
      /\ told'[x] = Append(told[x], b)
      /\ told'[x] # <<>>
      /\ told'[x][Len(told'[x])] = b
      /\ \A d \in Devices \ {x} : told'[d] = told[d] /\ bluez'[d] = bluez[d]
      /\ bluez'[x] = IF b THEN "connected" ELSE "paired"
  <2>1. told[x] \in Seq(BOOLEAN) /\ told'[x] = Append(told[x], b)
    BY <1>1 DEF DeviceTypes
  <2>2. Append(told[x], b) # <<>> /\ Append(told[x], b)[Len(Append(told[x], b))] = b
    BY <2>1, AppendProperties, LenProperties
  <2> QED BY <1>1, <2>1, <2>2 DEF DeviceTypes
<1>4. HeldInv'
  BY <1>1, <1>2, <1>3 DEF Faithful, HeldInv, discovery
<1>5. UpInv'
  <2> SUFFICES ASSUME NEW d \in Devices
               PROVE  /\ told'[d] # <<>> =>
                            (told'[d][Len(told'[d])] <=> bluez'[d] = "connected")
                      /\ told'[d] = <<>> /\ Up(d)' => bluez'[d] = "connected"
                      /\ told'[d] = <<>> /\ bluez'[d] = "connected" =>
                           Up(d)' \/ WillSurface(d)'
    BY DEF UpInv
  <2>1. CASE d = x
    BY <1>3, <2>1
  <2>2. CASE d # x
    <3>1. (Up(d)' <=> Up(d)) /\ (WillSurface(d)' <=> WillSurface(d))
      BY <1>2, AllKept DEF Kept, WillSurface, discovery
    <3> QED BY <1>3, <2>2, <3>1 DEF Faithful, UpInv
  <2> QED BY <2>1, <2>2
<1>6. GoneInv'
  <2>1. \A d \in Devices : bluez'[d] = "absent" <=> bluez[d] = "absent"
    BY <1>1, <1>3
  <2>2. /\ \A d \in Devices : There(d)' <=> There(d)
        /\ \A f : ToHear(f)' <=> ToHear(f)
        /\ \A d : Readded(d)' <=> Readded(d)
    BY <1>2, AllKept DEF Kept
  <2> QED BY <2>1, <2>2 DEF Faithful, GoneInv
<1> QED BY <1>4, <1>5, <1>6 DEF Faithful

LEMMA AppearStep ==
  ASSUME DeviceTypes, Holding, Faithful, "unwatched" \notin faults,
         NEW x \in Devices, Appear(x)
  PROVE  Faithful'
<1> DEFINE e == <<"added", x>>
<1>1. /\ adapterTold' = Append(adapterTold, e)
      /\ adapterTold \in Seq(Events) /\ e \in Events
      /\ UNCHANGED <<discovery, events, devices, told>>
      /\ bluez[x] = "absent" /\ bluez'[x] # "absent"
      /\ \A d \in Devices \ {x} : bluez'[d] = bluez[d]
  BY DEF Appear, Announced, Subscribed, DeviceTypes, manager, Events
<1>2. /\ \A f : ToHear(f)' <=> ToHear(f) \/ f = e
      /\ \A d : e = <<"added", d>> => Readded(d)'
      /\ \A d : Readded(d) /\ e # <<"removed", d>> => Readded(d)'
  BY <1>1, AdapterSays
<1>3. \A d : (Up(d)' <=> Up(d)) /\ (There(d)' <=> There(d))
  BY <1>1, Unheard
<1>4. \A d : e # <<"removed", d>>
  OBVIOUS
<1>5. HeldInv'
  BY <1>1 DEF Faithful, HeldInv, discovery, DeviceTypes
<1>6. \A d \in Devices : WillSurface(d) => WillSurface(d)'
  BY <1>1, <1>2 DEF WillSurface, discovery
<1>7. WillSurface(x)'
  BY <1>2 DEF WillSurface
<1> HIDE DEF e
<1>8. UpInv'
  BY <1>1, <1>3, <1>6, <1>7 DEF Faithful, UpInv, HeldInv
<1>9. GoneInv'
  <2>1. Readded(x)'
    BY <1>2 DEF e
  <2> QED BY <1>1, <1>2, <1>3, <1>4, <2>1 DEF Faithful, GoneInv
<1> QED BY <1>5, <1>8, <1>9 DEF Faithful

LEMMA RemoveStep ==
  ASSUME DeviceTypes, Holding, Faithful, faults \subseteq {"removed"},
         NEW x \in Devices, Remove(x)
  PROVE  Faithful'
<1> DEFINE e == <<"removed", x>>
<1>1. /\ adapterTold' = Append(adapterTold, e)
      /\ adapterTold \in Seq(Events) /\ e \in Events
      /\ UNCHANGED <<discovery, events, devices, told>>
      /\ cur # x /\ told[x] = <<>>
      /\ bluez[x] \notin {"absent", "connected"} /\ bluez'[x] = "absent"
      /\ \A d \in Devices \ {x} : bluez'[d] = bluez[d]
  BY DEF Remove, Announced, Subscribed, DeviceTypes, manager, Events
<1>2. /\ \A f : ToHear(f)' <=> ToHear(f) \/ f = e
      /\ \A d : Readded(d) /\ e # <<"removed", d>> => Readded(d)'
  BY <1>1, AdapterSays
<1>3. \A d : (Up(d)' <=> Up(d)) /\ (There(d)' <=> There(d))
  BY <1>1, Unheard
<1>4. \A d : d # x => e # <<"removed", d>>
  OBVIOUS
<1>5. ToHear(<<"removed", x>>)'
  BY <1>2
<1> HIDE DEF e
<1>6. HeldInv'
  BY <1>1 DEF Faithful, HeldInv, discovery
<1>7. \A d \in Devices : WillSurface(d) => WillSurface(d)'
  BY <1>1, <1>2 DEF WillSurface, discovery
<1>8. UpInv'
  BY <1>1, <1>3, <1>7 DEF Faithful, UpInv
<1>9. GoneInv'
  BY <1>1, <1>2, <1>3, <1>4, <1>5 DEF Faithful, GoneInv
<1> QED BY <1>6, <1>8, <1>9 DEF Faithful

(* Steps that leave BlueZ and all queues but the channel alone, and move       *)
(* nothing that lasts.                                                       *)
LEMMA QuietStep ==
  ASSUME Faithful, UNCHANGED <<bluez, told, adapterTold, discovery>>,
         \A d \in Devices : Kept(d)
  PROVE  Faithful'
<1>1. /\ \A f : ToHear(f)' <=> ToHear(f)
      /\ \A d : Readded(d)' <=> Readded(d)
  BY AdapterSilent
<1>2. \A d \in Devices : WillSurface(d)' <=> WillSurface(d)
  BY <1>1 DEF WillSurface, discovery
<1>3. HeldInv'
  BY DEF Faithful, HeldInv, discovery
<1>4. UpInv'
  BY <1>2 DEF Faithful, UpInv, Kept
<1>5. GoneInv'
  BY <1>1 DEF Faithful, GoneInv, Kept
<1> QED BY <1>3, <1>4, <1>5 DEF Faithful

LEMMA SeedStep ==
  ASSUME DeviceTypes, Holding, Faithful, faults \subseteq {"removed"},
         ListKnown \/ Subscribe \/ \E x \in Devices : SeedRead(x)
  PROVE  Faithful'
<1>1. UNCHANGED <<bluez, told, adapterTold, events, devices>>
  BY DEF ListKnown, Subscribe, SeedRead, world, manager
<1>2. /\ \A d \in Devices : Kept(d)
      /\ \A f : ToHear(f)' <=> ToHear(f)
      /\ \A d : Readded(d)' <=> Readded(d)
  BY <1>1, AllKept
<1>3. \A d \in Devices : bluez[d] = "connected" /\ WillSurface(d) => WillSurface(d)'
  <2> SUFFICES ASSUME NEW d \in Devices, bluez[d] = "connected", WillSurface(d)
               PROVE  WillSurface(d)'
    OBVIOUS
  <2>1. CASE ToHear(<<"added", d>>)
    BY <1>2, <2>1 DEF WillSurface
  <2>2. CASE ~ToHear(<<"added", d>>) /\ ListKnown
    BY <2>2 DEF WillSurface, ListKnown
  <2>3. CASE ~ToHear(<<"added", d>>) /\ Subscribe
    BY <2>3 DEF WillSurface, Subscribe
  <2>4. ASSUME ~ToHear(<<"added", d>>), NEW x \in Devices, SeedRead(x)
        PROVE  WillSurface(d)'
    <3>1. d \in todo
      BY <2>4, DevicesAssumption DEF WillSurface, SeedRead, Holding
    <3>2. CASE d = x
      BY <2>4, <3>2 DEF WillSurface, SeedRead, ReadNow
    <3>3. CASE d # x
      BY <2>4, <3>1, <3>3 DEF WillSurface, SeedRead
    <3> QED BY <3>2, <3>3
  <2> QED BY <2>1, <2>2, <2>3, <2>4
<1>4. HeldInv'
  BY <1>1 DEF Faithful, HeldInv, ListKnown, Subscribe, SeedRead, ReadNow, Holding
<1>5. UpInv'
  BY <1>1, <1>2, <1>3 DEF Faithful, UpInv, Kept
<1>6. GoneInv'
  BY <1>1, <1>2 DEF Faithful, GoneInv, Kept
<1> QED BY <1>4, <1>5, <1>6 DEF Faithful

LEMMA ReadStep ==
  ASSUME DeviceTypes, Holding, Faithful, FollowRead
  PROVE  Faithful'
<1>1. UNCHANGED <<bluez, told, adapterTold, events, devices, todo>>
  BY DEF FollowRead, world, manager
<1>2. /\ \A d \in Devices : Kept(d)
      /\ \A f : ToHear(f)' <=> ToHear(f)
      /\ \A d : Readded(d)' <=> Readded(d)
  BY <1>1, AllKept
<1>3. cur \in Devices /\ dPc = "read"
  BY DEF FollowRead, Holding, DeviceTypes
<1>4. \A d \in Devices : bluez[d] = "connected" /\ WillSurface(d) => WillSurface(d)'
  BY <1>1, <1>2, <1>3 DEF WillSurface, FollowRead, ReadNow
<1>5. HeldInv'
  BY <1>1, <1>3, DevicesAssumption DEF Faithful, HeldInv, FollowRead, ReadNow
<1>6. UpInv'
  BY <1>1, <1>2, <1>4 DEF Faithful, UpInv, Kept
<1>7. GoneInv'
  BY <1>1, <1>2 DEF Faithful, GoneInv, Kept
<1> QED BY <1>5, <1>6, <1>7 DEF Faithful

(* Discovery surfaces the device it holds, as it is.                         *)
LEMMA SurfaceStep ==
  ASSUME DeviceTypes, Holding, Faithful, "burst" \notin faults,
         SeedSend \/ FollowSend
  PROVE  Faithful'
<1>1. /\ UNCHANGED <<bluez, told, adapterTold, devices, todo, got>>
      /\ Send(Surfaced(cur, got))
      /\ dPc \in {"seedSend", "send"} /\ dPc' \in {"seed", "follow"} /\ cur' = NoDevice
  BY DEF SeedSend, FollowSend, world, manager
<1>2. cur \in Devices /\ got = bluez[cur] /\ got # "absent"
  BY <1>1 DEF Holding, DeviceTypes, Faithful, HeldInv
<1>3. \A d : /\ Up(d)' <=> Up(d) \/ (d = cur /\ got = "connected")
             /\ There(d)' <=> There(d) \/ d = cur
  BY <1>1, <1>2, SurfacedSent
<1>4. /\ \A f : ToHear(f)' <=> ToHear(f)
      /\ \A d : Readded(d)' <=> Readded(d)
  BY <1>1, AdapterSilent
<1>5. \A d \in Devices \ {cur} : WillSurface(d) => WillSurface(d)'
  BY <1>1, <1>4 DEF WillSurface
<1>6. HeldInv'
  BY <1>1, DevicesAssumption DEF Faithful, HeldInv
<1>7. UpInv'
  BY <1>1, <1>2, <1>3, <1>5 DEF Faithful, UpInv
<1>8. GoneInv'
  BY <1>1, <1>2, <1>3, <1>4 DEF Faithful, GoneInv
<1> QED BY <1>6, <1>7, <1>8 DEF Faithful

LEMMA AddedStep ==
  ASSUME DeviceTypes, Holding, Faithful, NEW x \in Devices, FollowAdded(x)
  PROVE  Faithful'
<1>1. /\ UNCHANGED <<bluez, told, events, devices, todo, got>>
      /\ dPc = "follow" /\ dPc' = "read" /\ cur' = x /\ cur = NoDevice
  BY DEF FollowAdded, world, manager, Holding
<1>2. /\ \A f : ToHear(f) => ToHear(f)' \/ f = <<"added", x>>
      /\ \A d : Readded(d) => Readded(d)'
  BY AdapterHeard DEF FollowAdded, DeviceTypes
<1>3. \A d \in Devices : Kept(d)
  BY <1>1, Unheard DEF Kept
<1>4. \A d \in Devices : WillSurface(d) => WillSurface(d)'
  BY <1>1, <1>2, DevicesAssumption DEF WillSurface
<1>5. \A d \in Devices : ToHear(<<"removed", d>>) => ToHear(<<"removed", d>>)'
  BY <1>2
<1>6. HeldInv'
  BY <1>1 DEF Faithful, HeldInv
<1>7. UpInv'
  BY <1>1, <1>3, <1>4 DEF Faithful, UpInv, Kept
<1>8. GoneInv'
  BY <1>1, <1>2, <1>3, <1>5 DEF Faithful, GoneInv, Kept
<1> QED BY <1>6, <1>7, <1>8 DEF Faithful

LEMMA RemovedStep ==
  ASSUME DeviceTypes, Holding, Faithful, "burst" \notin faults,
         NEW x \in Devices, FollowRemoved(x)
  PROVE  Faithful'
<1>1. UNCHANGED <<bluez, told, devices, discovery>>
  BY DEF FollowRemoved, world, manager
<1>2. /\ adapterTold \in Seq(Events) /\ adapterTold # <<>>
      /\ adapterTold' = Tail(adapterTold)
      /\ Head(adapterTold) = <<"removed", x>>
  BY DEF FollowRemoved, DeviceTypes
<1>3. /\ \A f : ToHear(f) => ToHear(f)' \/ f = <<"removed", x>>
      /\ \A d : Readded(d) => Readded(d)'
      /\ Readded(x) => ToHear(<<"added", x>>)'
  BY <1>2, AdapterHeard
<1>4. \A d : /\ Up(d)' <=> Up(d) /\ d # x
             /\ There(d)' <=> There(d) /\ d # x
  BY <1>1, EventSent DEF FollowRemoved
<1>5. \A d \in Devices : WillSurface(d) => WillSurface(d)'
  <2>1. \A d \in Devices : ToHear(<<"added", d>>) => ToHear(<<"added", d>>)'
    BY <1>3
  <2> QED BY <1>1, <2>1 DEF WillSurface, discovery
<1>6. bluez[x] = "connected" => WillSurface(x)'
  BY <1>3 DEF Faithful, GoneInv, WillSurface
<1>7. \A d \in Devices \ {x} : ToHear(<<"removed", d>>) => ToHear(<<"removed", d>>)'
  BY <1>3
<1>8. HeldInv'
  BY <1>1 DEF Faithful, HeldInv, discovery
<1>9. UpInv'
  BY <1>1, <1>4, <1>5, <1>6 DEF Faithful, UpInv
<1>10. GoneInv'
  BY <1>1, <1>3, <1>4, <1>7 DEF Faithful, GoneInv
<1> QED BY <1>8, <1>9, <1>10 DEF Faithful

LEMMA ReportsStep ==
  ASSUME DeviceTypes, Holding, Faithful, "burst" \notin faults,
         NEW x \in Devices, WatcherReports(x)
  PROVE  Faithful'
<1> DEFINE b == Head(told[x])
           r == Tail(told[x])
<1>1. /\ UNCHANGED <<bluez, adapterTold, devices, discovery>>
      /\ Send(IF b THEN Surfaced(x, "connected") ELSE <<<<"disconnected", x>>>>)
      /\ told[x] # <<>> /\ told[x] \in Seq(BOOLEAN)
      /\ told'[x] = r
      /\ \A d \in Devices \ {x} : told'[d] = told[d]
  BY DEF WatcherReports, world, manager, DeviceTypes
<1>2. /\ r = <<>> => told[x][Len(told[x])] = b
      /\ r # <<>> => r[Len(r)] = told[x][Len(told[x])]
  <2> DEFINE q == told[x]
  <2>1. q \in Seq(BOOLEAN) /\ q # <<>>
    BY <1>1
  <2> HIDE DEF q
  <2>2. /\ Len(q) \in Nat /\ Len(q) # 0 /\ Tail(q) \in Seq(BOOLEAN) /\ Head(q) = q[1]
        /\ Len(Tail(q)) = Len(q) - 1
        /\ \A i \in 1 .. Len(Tail(q)) : Tail(q)[i] = q[i + 1]
    BY <2>1, HeadTailProperties, LenProperties, EmptySeq
  <2>3. Tail(q) = <<>> => q[Len(q)] = Head(q)
    BY <2>2
  <2>4. Tail(q) # <<>> => Tail(q)[Len(Tail(q))] = q[Len(q)]
    BY <2>2, EmptySeq
  <2> QED BY <2>3, <2>4 DEF q
<1> HIDE DEF b, r
<1>3. \A d : /\ Up(d)' <=> IF d = x THEN b ELSE Up(d)
             /\ There(d)' <=> There(d) \/ d = x
  <2>1. CASE b
    <3>1. Send(Surfaced(x, "connected"))
      BY <1>1, <2>1
    <3>2. \A d : /\ Up(d)' <=> Up(d) \/ (d = x /\ "connected" = "connected")
                 /\ There(d)' <=> There(d) \/ d = x
      BY <1>1, <3>1, SurfacedSent
    <3> QED BY <2>1, <3>2
  <2>2. CASE ~b
    <3>1. Send(<<<<"disconnected", x>>>>)
      BY <1>1, <2>2
    <3>2. \A d : /\ Up(d)' <=> Up(d) /\ d # x
                 /\ There(d)' <=> IF d = x THEN "disconnected" = "disconnected"
                                 ELSE There(d)
      BY <1>1, <3>1, EventSent
    <3> QED BY <2>2, <3>2
  <2> QED BY <2>1, <2>2
<1>4. /\ \A f : ToHear(f)' <=> ToHear(f)
      /\ \A d : Readded(d)' <=> Readded(d)
  BY <1>1, AdapterSilent
<1>5. \A d \in Devices : WillSurface(d)' <=> WillSurface(d)
  BY <1>1, <1>4 DEF WillSurface, discovery
<1>6. bluez[x] # "absent"
  BY <1>1 DEF Faithful, HeldInv
<1>7. HeldInv'
  BY <1>1, <1>6 DEF Faithful, HeldInv, discovery
<1>8. UpInv'
  <2> SUFFICES ASSUME NEW d \in Devices
               PROVE  /\ told'[d] # <<>> =>
                            (told'[d][Len(told'[d])] <=> bluez'[d] = "connected")
                      /\ told'[d] = <<>> /\ Up(d)' => bluez'[d] = "connected"
                      /\ told'[d] = <<>> /\ bluez'[d] = "connected" =>
                           Up(d)' \/ WillSurface(d)'
    BY DEF UpInv
  <2>1. CASE d = x
    <3>1. told[x][Len(told[x])] <=> bluez[x] = "connected"
      BY <1>1 DEF Faithful, UpInv
    <3> QED BY <1>1, <1>2, <1>3, <2>1, <3>1
  <2>2. CASE d # x
    BY <1>1, <1>3, <1>5, <2>2 DEF Faithful, UpInv
  <2> QED BY <2>1, <2>2
<1>9. GoneInv'
  BY <1>1, <1>3, <1>4, <1>6 DEF Faithful, GoneInv
<1> QED BY <1>7, <1>8, <1>9 DEF Faithful

LEMMA DevicesStep ==
  ASSUME DevicesInv, [Next]_vars
  PROVE  DevicesInv'
<1>1. DeviceTypes /\ Holding /\ DeviceTypes' /\ Holding'
  BY TypesStep DEF DevicesInv
<1>2. faults' = faults
  BY DEF Next, Discovery, Watcher, vars, ListKnown, SeedRead, SeedSend, Subscribe,
         DiscoveryEnds, FollowAdded, FollowRead, FollowSend, FollowRemoved,
         WatcherListens, WatcherReports, HandleEvent, Probe, Bridge, RequestShutdown,
         Connect, Disconnect, Appear, Remove, NodeAppears, NodeVanishes
<1> SUFFICES ASSUME faults \subseteq {"removed"}
             PROVE  Faithful'
  BY <1>1, <1>2 DEF DevicesInv
<1>3. /\ Faithful
      /\ "unwatched" \notin faults /\ "burst" \notin faults /\ "deaf" \notin faults
  BY DEF DevicesInv
<1>4. CASE UNCHANGED vars
  <2>1. UNCHANGED <<bluez, told, adapterTold, discovery, events, devices>>
    BY <1>4 DEF vars, world, discovery, manager
  <2> QED BY <1>3, <2>1, AllKept, QuietStep
<1>5. CASE ListKnown \/ Subscribe \/ \E x \in Devices : SeedRead(x)
  BY <1>1, <1>3, <1>5, SeedStep
<1>6. CASE SeedSend \/ FollowSend
  BY <1>1, <1>3, <1>6, SurfaceStep
<1>7. CASE DiscoveryEnds
  BY <1>3, <1>7 DEF DiscoveryEnds
<1>8. ASSUME NEW x \in Devices, FollowAdded(x)
      PROVE  Faithful'
  BY <1>1, <1>3, <1>8, AddedStep
<1>9. CASE FollowRead
  BY <1>1, <1>3, <1>9, ReadStep
<1>10. ASSUME NEW x \in Devices, FollowRemoved(x)
       PROVE  Faithful'
  BY <1>1, <1>3, <1>10, RemovedStep
<1>11. ASSUME NEW x \in Devices, WatcherListens(x)
       PROVE  Faithful'
  <2>1. UNCHANGED <<bluez, told, adapterTold, discovery, events, devices>>
    BY <1>11 DEF WatcherListens, world, manager
  <2> QED BY <1>3, <2>1, AllKept, QuietStep
<1>12. ASSUME NEW x \in Devices, WatcherReports(x)
       PROVE  Faithful'
  BY <1>1, <1>3, <1>12, ReportsStep
<1>13. CASE HandleEvent
  <2>1. UNCHANGED <<bluez, told, adapterTold, discovery>>
    BY <1>13 DEF HandleEvent, world
  <2>2. \A d \in Devices : Kept(d)
    BY <1>1, <1>13, EventTaken DEF Kept
  <2> QED BY <1>3, <2>1, <2>2, QuietStep
<1>14. CASE Probe
  <2>1. UNCHANGED <<bluez, told, adapterTold, discovery>>
    BY <1>14 DEF Probe, world
  <2>2. \A d \in Devices : Kept(d)
    BY <1>1, <1>14, Probed DEF Kept
  <2> QED BY <1>3, <2>1, <2>2, QuietStep
<1>15. CASE Bridge \/ RequestShutdown
  <2>1. UNCHANGED <<bluez, told, adapterTold, discovery, events, devices>>
    BY <1>15 DEF Bridge, RequestShutdown, world
  <2> QED BY <1>3, <2>1, AllKept, QuietStep
<1>16. ASSUME NEW x \in Devices, Connect(x) \/ Disconnect(x)
       PROVE  Faithful'
  BY <1>1, <1>3, <1>16, HostStep
<1>17. ASSUME NEW x \in Devices, Appear(x)
       PROVE  Faithful'
  BY <1>1, <1>3, <1>17, AppearStep
<1>18. ASSUME NEW x \in Devices, Remove(x)
       PROVE  Faithful'
  BY <1>1, <1>3, <1>18, RemoveStep
<1>19. ASSUME NEW x \in Devices, NodeAppears(x) \/ NodeVanishes(x)
       PROVE  Faithful'
  <2>1. UNCHANGED <<bluez, told, adapterTold, discovery, events, devices>>
    BY <1>19 DEF NodeAppears, NodeVanishes, manager
  <2> QED BY <1>3, <2>1, AllKept, QuietStep
<1> QED BY <1>4, <1>5, <1>6, <1>7, <1>8, <1>9, <1>10, <1>11, <1>12, <1>13, <1>14, <1>15,
           <1>16, <1>17, <1>18, <1>19 DEF Next, Discovery, Watcher

LEMMA DevicesAlways ==
  Spec => []DevicesInv
<1>1. DevicesInv /\ [Next]_vars => DevicesInv'
  BY DevicesStep
<1> QED BY DevicesInit, <1>1, PTL DEF Spec

(* What is left on its way when everything has settled: nothing.               *)
LEMMA SettledIs ==
  ASSUME DevicesInv, faults \subseteq {"removed"}, Settled, NEW d \in Devices
  PROVE  /\ Faithful
         /\ shown[d] = devices[d] /\ devices[d] \in Known
         /\ told[d] = <<>>
         /\ ~WillSurface(d)
         /\ \A e : ~ToHear(e)
         /\ Up(d) <=> shown[d] \in UpStates
         /\ There(d) <=> shown[d] # "unknown"
<1>1. /\ events = <<>> /\ adapterTold = <<>> /\ told[d] = <<>>
      /\ shown = devices /\ dPc = "follow"
  BY DEF Settled
<1>2. devices[d] \in Known /\ cur = NoDevice /\ todo = {}
  BY <1>1 DEF DevicesInv, DeviceTypes, Holding
<1>3. \A e : ~ToHear(e)
  BY <1>1 DEF ToHear
<1>4. ~WillSurface(d)
  BY <1>1, <1>2, <1>3, DevicesAssumption DEF WillSurface
<1>5. /\ Up(d) <=> devices[d] \in UpStates
      /\ There(d) <=> devices[d] \in Known \ {"unknown"}
  BY <1>1, LastingNow DEF Up, There, UpAfter, ThereAfter
<1> QED BY <1>1, <1>2, <1>3, <1>4, <1>5 DEF DevicesInv

(* ShownIsTrue of every behaviour in which every change has a listener and     *)
(* the manager keeps up: a connection reaches the UI through discovery or       *)
(* through the watcher, and neither contradicts the other                     *)
(* (bluer_devices.rs, manager.rs, service.rs).                               *)
THEOREM ShownHolds == Spec => []ShownIsTrue
<1>1. DevicesInv => ShownIsTrue
  BY SettledIs DEF ShownIsTrue, Faithful, UpInv, UpStates
<1> QED BY <1>1, DevicesAlways, PTL

(* RemovedIsGone of the same: BlueZ's removal is the last that the UI hears of  *)
(* a device, unless it is back.                                             *)
THEOREM RemovedHolds == Spec => []RemovedIsGone
<1>1. DevicesInv => RemovedIsGone
  BY SettledIs DEF RemovedIsGone, Faithful, GoneInv
<1> QED BY <1>1, DevicesAlways, PTL

-----------------------------------------------------------------------------
(* Types. A channel holds no more than its capacity, in bursts too.           *)

Queued ==
  /\ Len(events) <= EventCap
  /\ Len(adapterTold) <= MaxTold
  /\ \A d \in Devices : Len(told[d]) <= MaxTold

Others ==
  /\ node \in SUBSET Devices
  /\ watched \in SUBSET Devices
  /\ watcher \in [Devices -> {"none", "starting", "listening", "ended"}]
  /\ shown \in [Devices -> Known]
  /\ shutdown \in BOOLEAN
  /\ faults \in Environments

LEMMA SentFits ==
  ASSUME DeviceTypes, NEW s \in Seq(Events), Send(s)
  PROVE  Len(events') <= EventCap
<1> DEFINE q == events \o s
           m == Len(q) - EventCap + 1
           n == Len(q)
<1>1. q \in Seq(Events) /\ n \in Nat
  BY ConcatProperties, LenProperties DEF DeviceTypes
<1>2. CASE n <= EventCap
  BY <1>2 DEF Send, Newest
<1>3. CASE ~(n <= EventCap)
  <2>1. m \in 1 .. n + 1 /\ n \in m - 1 .. n
    BY <1>1, <1>3, DevicesAssumption
  <2>2. Len(SubSeq(q, m, n)) = n - m + 1
    BY <1>1, <2>1, SubSeqProperties
  <2>3. n - m + 1 = EventCap
    BY <1>1, DevicesAssumption
  <2> QED
    BY <1>3, <2>2, <2>3, DevicesAssumption DEF Send, Newest
<1> QED
  BY <1>2, <1>3

LEMMA QueuedInit ==
  Init => Queued /\ Others
<1> SUFFICES ASSUME Init PROVE Queued /\ Others
  OBVIOUS
<1>1. Len(events) = 0 /\ Len(adapterTold) = 0 /\ \A d \in Devices : Len(told[d]) = 0
  BY DEF Init
<1>2. Queued
  BY <1>1, DevicesAssumption DEF Queued
<1>3. Others
  BY DEF Init, Others, Known
<1> QED
  BY <1>2, <1>3

LEMMA OthersStep ==
  ASSUME DeviceTypes, Holding, Others, [Next]_vars
  PROVE  Others'
<1> USE DEF world, discovery, manager
<1>1. CASE ListKnown \/ Subscribe \/ FollowRead \/ FollowSend \/ HandleEvent \/ Probe
  BY <1>1 DEF ListKnown, Subscribe, FollowRead, FollowSend, HandleEvent, Probe, Others
<1>2. ASSUME NEW d \in Devices,
             \/ SeedRead(d) \/ FollowRemoved(d) \/ WatcherReports(d)
             \/ Connect(d) \/ Disconnect(d) \/ Appear(d)
      PROVE  Others'
  BY <1>2 DEF SeedRead, FollowRemoved, WatcherReports, Connect, Disconnect, Appear, Others
<1>3. CASE SeedSend
  <2>1. cur \in Devices
    BY <1>3 DEF SeedSend, DeviceTypes, Holding
  <2> QED
    BY <1>3, <2>1 DEF SeedSend, Spawn, Others
<1>4. CASE DiscoveryEnds
  BY <1>4 DEF DiscoveryEnds, Others
<1>5. ASSUME NEW d \in Devices, FollowAdded(d) \/ WatcherListens(d) \/ Remove(d)
      PROVE  Others'
  BY <1>5 DEF FollowAdded, Spawn, WatcherListens, Remove, Others
<1>6. CASE Bridge \/ RequestShutdown
  BY <1>6 DEF Bridge, RequestShutdown, Others, DeviceTypes
<1>7. ASSUME NEW d \in Devices, NodeAppears(d) \/ NodeVanishes(d)
      PROVE  Others'
  BY <1>7 DEF NodeAppears, NodeVanishes, Others
<1>8. CASE UNCHANGED vars
  BY <1>8 DEF vars, Others
<1> QED
  BY <1>1, <1>2, <1>3, <1>4, <1>5, <1>6, <1>7, <1>8 DEF Next, Discovery, Watcher

LEMMA QueuedStep ==
  ASSUME DeviceTypes, Holding, Queued, [Next]_vars
  PROVE  Queued'
<1> USE DEF world, discovery, manager
<1>1. CASE UNCHANGED <<events, adapterTold, told>>
  BY <1>1 DEF Queued
<1>2. ASSUME NEW s \in Seq(Events), Send(s), UNCHANGED <<adapterTold, told>>
      PROVE  Queued'
  BY <1>2, SentFits DEF Queued
<1>3. CASE SeedSend \/ FollowSend
  <2>1. cur \in Devices
    BY <1>3 DEF SeedSend, FollowSend, DeviceTypes, Holding
  <2>2. Surfaced(cur, got) \in Seq(Events)
    BY <2>1, SurfacedIs DEF DeviceTypes
  <2> QED
    BY <1>2, <1>3, <2>2 DEF SeedSend, FollowSend
<1>4. ASSUME adapterTold # <<>>, adapterTold' = Tail(adapterTold)
      PROVE  Len(adapterTold') <= MaxTold
  BY <1>4, HeadTailProperties, DevicesAssumption DEF Queued, DeviceTypes
<1>5. ASSUME NEW d \in Devices, FollowAdded(d)
      PROVE  Queued'
  BY <1>4, <1>5 DEF FollowAdded, Queued
<1>6. ASSUME NEW d \in Devices, FollowRemoved(d)
      PROVE  Queued'
  <2>1. <<<<"removed", d>>>> \in Seq(Events)
    BY DEF Events
  <2>2. Len(events') <= EventCap
    BY <1>6, <2>1, SentFits DEF FollowRemoved
  <2> QED
    BY <1>4, <1>6, <2>2 DEF FollowRemoved, Queued
<1>7. ASSUME NEW d \in Devices, WatcherReports(d)
      PROVE  Queued'
  <2>1. <<<<"disconnected", d>>>> \in Seq(Events)
    BY DEF Events
  <2>2. Surfaced(d, "connected") \in Seq(Events)
    BY SurfacedIs DEF DeviceTypes
  <2>3. Len(events') <= EventCap
    BY <1>7, <2>1, <2>2, SentFits DEF WatcherReports
  <2>4. Len(Tail(told[d])) <= MaxTold
    <3>1. told[d] \in Seq(BOOLEAN) /\ told[d] # <<>> /\ Len(told[d]) <= MaxTold
      BY <1>7 DEF WatcherReports, Queued, DeviceTypes
    <3>2. Len(Tail(told[d])) = Len(told[d]) - 1 /\ Len(told[d]) \in Nat
      BY <3>1, HeadTailProperties, LenProperties
    <3> QED
      BY <3>1, <3>2, DevicesAssumption
  <2> QED
    BY <1>7, <2>3, <2>4 DEF WatcherReports, Queued, DeviceTypes
<1>8. CASE HandleEvent
  <2>1. Len(Tail(events)) <= EventCap
    BY <1>8, HeadTailProperties, DevicesAssumption DEF HandleEvent, Queued, DeviceTypes
  <2> QED
    BY <1>8, <2>1 DEF HandleEvent, Queued
<1>9. ASSUME NEW d \in Devices, Connect(d) \/ Disconnect(d)
      PROVE  Queued'
  <2>1. \A b \in BOOLEAN : Len(Append(told[d], b)) = Len(told[d]) + 1 /\ Len(told[d]) \in Nat
    BY AppendProperties, LenProperties DEF DeviceTypes
  <2>2. \A x \in Devices : Len(told'[x]) <= MaxTold
    <3>1. PICK b \in BOOLEAN : Reported(d, b)
      BY <1>9 DEF Connect, Disconnect
    <3>2. Len(told[d]) < MaxTold => Len(Append(told[d], b)) <= MaxTold
      BY <2>1, DevicesAssumption
    <3> QED
      BY <3>1, <3>2 DEF Reported, Queued, DeviceTypes
  <2> QED
    BY <1>9, <2>2 DEF Connect, Disconnect, Queued
<1>10. ASSUME NEW d \in Devices, Appear(d) \/ Remove(d)
       PROVE  Queued'
  <2>1. PICK e \in Events : Announced(e)
    BY <1>10 DEF Appear, Remove, Events
  <2>2. Len(Append(adapterTold, e)) = Len(adapterTold) + 1 /\ Len(adapterTold) \in Nat
    BY AppendProperties, LenProperties DEF DeviceTypes
  <2>3. Len(adapterTold') <= MaxTold
    BY <2>1, <2>2, DevicesAssumption DEF Announced, Queued
  <2> QED
    BY <1>10, <2>3 DEF Appear, Remove, Queued
<1>11. CASE \/ ListKnown \/ Subscribe \/ DiscoveryEnds \/ FollowRead \/ Probe \/ Bridge
            \/ RequestShutdown \/ UNCHANGED vars
  BY <1>1, <1>11 DEF ListKnown, Subscribe, DiscoveryEnds, FollowRead, Probe, Bridge,
     RequestShutdown, vars
<1>12. ASSUME NEW d \in Devices,
              SeedRead(d) \/ WatcherListens(d) \/ NodeAppears(d) \/ NodeVanishes(d)
       PROVE  Queued'
  BY <1>1, <1>12 DEF SeedRead, WatcherListens, NodeAppears, NodeVanishes
<1> QED
  BY <1>3, <1>5, <1>6, <1>7, <1>8, <1>9, <1>10, <1>11, <1>12 DEF Next, Discovery, Watcher

(* Every variable keeps its type: a lagging receiver is left with at most a     *)
(* channel's worth of events (tokio's broadcast), and no device is ever shown    *)
(* as connecting (manager.rs, bluer_devices.rs).                              *)
THEOREM TypeCorrect == Spec => []TypeOK
<1> DEFINE Inv == DeviceTypes /\ Holding /\ Queued /\ Others
<1>1. Init => Inv
  BY DevicesInit, QueuedInit DEF DevicesInv
<1>2. Inv /\ [Next]_vars => Inv'
  BY TypesStep, QueuedStep, OthersStep
<1>3. Inv => TypeOK
  BY DEF DeviceTypes, Queued, Others, TypeOK, Known, DeviceState
<1> QED
  BY <1>1, <1>2, <1>3, PTL DEF Spec
=============================================================================
