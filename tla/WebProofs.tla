----------------------------- MODULE WebProofs ------------------------------
(***************************************************************************)
(* Status sockets and WebRTC sessions, for any number of clients and of peer *)
(* connections, any capacities, and whatever a behaviour admits; frames,    *)
(* packets and listeners, for frames of any size, counters of any width, any *)
(* number of processes, of listeners and of permits; and the latency of the *)
(* capture for any quantum and rate.                                        *)
(***************************************************************************)
EXTENDS WebSession, AudioStream, SequenceTheorems, FiniteSetTheorems, TLAPS

Places == {"none", "subscribed", "greeting", "open", "offer", "ice", "stop",
           "awaiting", "sending", "stopping", "closed"}
Kindly == [kind : Kinds, val : Nat] \cup [kind : {"spectrum"}, val : {None}]
            \cup [kind : {"candidate"}, val : Clients \cup {None}]

-----------------------------------------------------------------------------
(* The handlers, the command channel and its loop, by type.                  *)
Commanded == [do : {"offer", "ice", "stop"}, of : Clients]

ChanTypes ==
  /\ chan \in Seq(Commanded)
  /\ conn \in [Clients -> Places]
  /\ reply \in [Clients -> {None, "answer", "error"}]
  /\ loop \in {"idle", "offer", "drained", "done"}
  /\ serving \in Clients \cup {None}
  /\ sessions \in [Clients -> Peers \cup {None}]
  /\ ice \in [Peers -> [st : {"free", "live", "failed"}, of : Clients \cup {None}]]
  /\ pump \in [Peers -> {"off", "on", "told"}]
  /\ failing \in [Peers -> Clients \cup {None}]
  /\ shutdown \in BOOLEAN

LEMMA TypesInit ==
  Init => ChanTypes
<1> SUFFICES ASSUME Init PROVE ChanTypes
  OBVIOUS
<1>1. chan \in Seq(Commanded)
  BY EmptySeq DEF Init
<1> QED BY <1>1 DEF Init, ChanTypes, Places, Free

LEMMA Said ==
  ASSUME ChanTypes, NEW do \in {"offer", "ice", "stop"}, NEW s \in Clients,
         chan' = Append(chan, [do |-> do, of |-> s])
  PROVE  /\ chan' \in Seq(Commanded)
         /\ Len(chan) \in Nat
         /\ DOMAIN chan' = DOMAIN chan \cup {Len(chan) + 1}
         /\ DOMAIN chan = 1 .. Len(chan)
         /\ \A i \in DOMAIN chan : chan'[i] = chan[i]
         /\ chan'[Len(chan) + 1] = [do |-> do, of |-> s]
<1> DEFINE m == [do |-> do, of |-> s]
<1>1. m \in Commanded /\ chan' = Append(chan, m)
  BY DEF Commanded
<1> HIDE DEF m
<1>2. /\ chan' \in Seq(Commanded) /\ Len(chan') = Len(chan) + 1 /\ Len(chan) \in Nat
      /\ \A i \in 1 .. Len(chan) : chan'[i] = chan[i]
      /\ chan'[Len(chan) + 1] = m
  BY <1>1, AppendProperties, LenProperties DEF ChanTypes
<1>3. DOMAIN chan' = 1 .. Len(chan) + 1 /\ DOMAIN chan = 1 .. Len(chan)
  BY <1>2 DEF ChanTypes
<1> QED BY <1>2, <1>3 DEF m

LEMMA Heard ==
  ASSUME ChanTypes, chan # <<>>, chan' = Tail(chan)
  PROVE  /\ Head(chan) \in Commanded
         /\ chan' \in Seq(Commanded)
         /\ 1 \in DOMAIN chan /\ chan[1] = Head(chan)
         /\ \A i \in DOMAIN chan' : i + 1 \in DOMAIN chan /\ chan'[i] = chan[i + 1]
         /\ \A i \in DOMAIN chan : i = 1 \/ (i - 1 \in DOMAIN chan' /\ chan[i] = chan'[i - 1])
<1>1. /\ Head(chan) \in Commanded /\ chan' \in Seq(Commanded) /\ Head(chan) = chan[1]
      /\ Len(chan') = Len(chan) - 1 /\ Len(chan) \in Nat \ {0}
      /\ \A i \in 1 .. Len(chan) - 1 : chan'[i] = chan[i + 1]
  BY HeadTailProperties, EmptySeq, LenProperties DEF ChanTypes
<1>2. DOMAIN chan = 1 .. Len(chan) /\ DOMAIN chan' = 1 .. Len(chan) - 1
  BY <1>1 DEF ChanTypes
<1> QED BY <1>1, <1>2

LEMMA HandlerTypes ==
  ASSUME ChanTypes, NEW c \in Clients, Connect(c) \/ Handler(c) \/ GivesUp(c)
  PROVE  ChanTypes'
<1>1. CASE Pass(c) \/ Close(c)
  <2>1. \E place \in Places : conn' = [conn EXCEPT ![c] = place]
    BY <1>1 DEF Pass, Close, Goto, Places
  <2>2. \/ chan' = chan
        \/ \E do \in {"offer", "ice", "stop"} : chan' = Append(chan, [do |-> do, of |-> c])
    BY <1>1 DEF Pass, Close, LastStop
  <2>3. chan' \in Seq(Commanded)
    BY <2>2, Said DEF ChanTypes
  <2>4. UNCHANGED <<reply, control, failing, shutdown>>
    BY <1>1 DEF Pass, Close
  <2> QED BY <2>1, <2>3, <2>4 DEF ChanTypes, control
<1>2. CASE Answered(c)
  <2>1. \E place \in Places : conn' = [conn EXCEPT ![c] = place]
    BY <1>2 DEF Answered, Send, Goto, Places
  <2>2. reply' = [reply EXCEPT ![c] = None] /\ UNCHANGED <<chan, control, failing, shutdown>>
    BY <1>2 DEF Answered
  <2> QED BY <2>1, <2>2 DEF ChanTypes, control
<1>3. CASE \/ Connect(c) \/ Snapshot(c) \/ Greet(c) \/ Receive(c) \/ Lag(c) \/ Inbound(c)
           \/ Keepalive(c) \/ SocketEnds(c) \/ GivesUp(c)
  <2>1. \/ conn' = conn
        \/ \E place \in Places : conn' = [conn EXCEPT ![c] = place]
    BY <1>3 DEF Connect, Snapshot, Greet, Receive, Lag, Inbound, Keepalive, SocketEnds, GivesUp,
       Send, Goto, Places
  <2>2. UNCHANGED <<reply, chan, control, failing, shutdown>>
    BY <1>3 DEF Connect, Snapshot, Greet, Receive, Lag, Inbound, Keepalive, SocketEnds, GivesUp
  <2> QED BY <2>1, <2>2 DEF ChanTypes, control
<1> QED BY <1>1, <1>2, <1>3 DEF Handler

LEMMA LoopTypes ==
  ASSUME ChanTypes, CommandLoop
  PROVE  ChanTypes'
<1>1. ASSUME NEW s \in Clients, StopSession(s)
      PROVE  /\ sessions' \in [Clients -> Peers \cup {None}]
             /\ ice' \in [Peers -> [st : {"free", "live", "failed"}, of : Clients \cup {None}]]
             /\ pump' \in [Peers -> {"off", "on", "told"}]
  <2>1. CASE sessions[s] = None
    BY <1>1, <2>1 DEF StopSession, ChanTypes
  <2>2. CASE sessions[s] # None
    <3> DEFINE p == sessions[s]
    <3>1. /\ sessions' = [sessions EXCEPT ![s] = None]
          /\ ice' = [ice EXCEPT ![p] = Free]
          /\ pump' = [pump EXCEPT ![p] = IF @ = "on" THEN "told" ELSE @]
      BY <1>1, <2>2 DEF StopSession
    <3>2. Free \in [st : {"free", "live", "failed"}, of : Clients \cup {None}]
      BY DEF Free
    <3> QED BY <3>1, <3>2 DEF ChanTypes
  <2> QED BY <2>1, <2>2
<1>2. CASE TakeOffer
  BY <1>1, <1>2, Heard DEF TakeOffer, Serve, Replaced, socket, ChanTypes, Commanded
<1>3. CASE TakeIce
  BY <1>3, Heard DEF TakeIce, Serve, control, socket, ChanTypes
<1>4. CASE TakeStop
  BY <1>1, <1>4, Heard DEF TakeStop, Serve, socket, ChanTypes, Commanded
<1>5. CASE OfferHandled
  <2>1. \E r \in {"answer", "error"} : reply' = [reply EXCEPT ![serving] = r]
    BY <1>5 DEF OfferHandled
  <2>2. reply' \in [Clients -> {None, "answer", "error"}]
    BY <2>1 DEF ChanTypes
  <2>3. CASE UNCHANGED <<ice, pump, sessions>>
    BY <1>5, <2>2, <2>3 DEF OfferHandled, ChanTypes
  <2>4. CASE \E p \in Peers :
               /\ ice' = [ice EXCEPT ![p] = [st |-> "live", of |-> serving]]
               /\ pump' = [pump EXCEPT ![p] = "on"]
               /\ sessions' = [sessions EXCEPT ![serving] = p]
    <3> DEFINE i == [st |-> "live", of |-> serving]
    <3>1. i \in [st : {"free", "live", "failed"}, of : Clients \cup {None}]
      BY DEF ChanTypes
    <3>2. PICK p \in Peers : /\ ice' = [ice EXCEPT ![p] = i]
                             /\ pump' = [pump EXCEPT ![p] = "on"]
                             /\ sessions' = [sessions EXCEPT ![serving] = p]
      BY <2>4
    <3> HIDE DEF i
    <3>3. /\ ice' \in [Peers -> [st : {"free", "live", "failed"}, of : Clients \cup {None}]]
          /\ pump' \in [Peers -> {"off", "on", "told"}]
          /\ sessions' \in [Clients -> Peers \cup {None}]
      BY <3>1, <3>2 DEF ChanTypes
    <3> QED BY <1>5, <2>2, <3>3 DEF OfferHandled, ChanTypes
  <2> QED BY <1>5, <2>3, <2>4 DEF OfferHandled
<1>6. CASE StopAll
  BY <1>6 DEF StopAll, ChanTypes, Free, socket
<1>7. CASE LoopReturns
  BY <1>7, EmptySeq DEF LoopReturns, ChanTypes
<1> QED BY <1>2, <1>3, <1>4, <1>5, <1>6, <1>7 DEF CommandLoop

LEMMA PeerTypes ==
  ASSUME ChanTypes, NEW p \in Peers, PeerConnection(p) \/ ConnectionFails(p)
  PROVE  ChanTypes'
<1>1. CASE PumpEnds(p)
  BY <1>1 DEF PumpEnds, ChanTypes, socket
<1>2. CASE ConnectionFails(p)
  BY <1>2 DEF ConnectionFails, ChanTypes, socket
<1>3. CASE FailureReported(p)
  <2>1. failing[p] \in Clients
    BY <1>3 DEF FailureReported, ChanTypes
  <2>2. chan' \in Seq(Commanded)
    BY <1>3, <2>1, Said DEF FailureReported, ChanTypes
  <2>3. failing' \in [Peers -> Clients \cup {None}]
    BY <1>3 DEF FailureReported, ChanTypes
  <2> QED BY <1>3, <2>2, <2>3 DEF FailureReported, ChanTypes, socket, control
<1> QED BY <1>1, <1>2, <1>3 DEF PeerConnection

LEMMA TypesStep ==
  ChanTypes /\ [Next]_vars => ChanTypes'
<1> SUFFICES ASSUME ChanTypes, [Next]_vars PROVE ChanTypes'
  OBVIOUS
<1>1. CASE \/ \E w \in Writers : Write(w) \/ Publish(w)
           \/ SpectrumData \/ vars' = vars \/ RequestShutdown
           \/ \E c \in Clients : ClientCloses(c) \/ ClientVanishes(c)
           \/ \E p \in Peers : CandidateFound(p)
  BY <1>1 DEF Write, Publish, SpectrumData, RequestShutdown, ClientCloses, ClientVanishes,
     CandidateFound, ChanTypes, vars, socket, control
<1>2. CASE \E c \in Clients : Connect(c) \/ Handler(c) \/ GivesUp(c)
  BY <1>2, HandlerTypes
<1>3. CASE CommandLoop
  BY <1>3, LoopTypes
<1>4. CASE \E p \in Peers : PeerConnection(p) \/ ConnectionFails(p)
  BY <1>4, PeerTypes
<1> QED BY <1>1, <1>2, <1>3, <1>4 DEF Next

-----------------------------------------------------------------------------
(* What is shown. The bus and the clients' places in it; what a task has       *)
(* written and not published is the version after the one published last.    *)
Fresh ==
  /\ state \in [Kinds -> Nat]
  /\ writing \in [Writers -> Nat \cup {None}]
  /\ bus \in Seq(Kindly)
  /\ view \in [Clients -> [Kinds -> Nat]]
  /\ next \in [Clients -> Nat \ {0}]
  /\ conn \in [Clients -> Places]
  /\ lagged \in [Clients -> BOOLEAN]

EqAt(i) == bus[i].kind = "eq"

Published ==
  IF writing["controller"] = None THEN state["eq"] ELSE state["eq"] - 1

NothingLater(i) == \A j \in DOMAIN bus : j > i => ~EqAt(j)

BusInv ==
  /\ writing["controller"] # None => writing["controller"] = state["eq"]
  /\ \A i \in DOMAIN bus : EqAt(i) /\ NothingLater(i) => bus[i].val = Published

AllRead(c) == \A j \in DOMAIN bus : j >= next[c] => ~EqAt(j)

ViewInv ==
  \A c \in Clients :
    /\ next[c] <= Len(bus) + 1
    /\ conn[c] \notin {"none", "subscribed", "closed"} /\ ~lagged[c] /\ AllRead(c)
         => view[c]["eq"] \in {Published, state["eq"]}

FreshInv == Fresh /\ BusInv /\ ViewInv

Shown == {"greeting", "open", "offer", "ice", "stop", "awaiting", "sending", "stopping"}

LEMMA EqIsTheControllers ==
  ASSUME NEW k \in OneWriter
  PROVE  k = "eq"
<1>1. CASE k = "media"
  <2>1. {w \in Writers : Written(w) = "media"} = {"manager", "artwork"}
    BY DEF Writers, Written
  <2>2. {"manager", "artwork"} = {"manager"} \cup {"artwork"} /\ "artwork" \notin {"manager"}
    OBVIOUS
  <2>3. Cardinality({"manager", "artwork"}) = 2
    <3>1. IsFiniteSet({"manager"}) /\ Cardinality({"manager"}) = 1
      BY FS_Singleton
    <3> QED BY <2>2, <3>1, FS_AddElement
  <2> QED BY <1>1, <2>1, <2>3 DEF OneWriter
<1> QED BY <1>1 DEF OneWriter, Kinds

(* A handler that only moves on, from a place where it shows something.       *)
LEMMA MovesOn ==
  ASSUME FreshInv, NEW c \in Clients, NEW place \in Shown \cup {"closed"},
         conn[c] \in Shown, conn' = [conn EXCEPT ![c] = place],
         UNCHANGED <<store, bus, next, view, lagged>>
  PROVE  FreshInv'
<1>1. Fresh'
  BY DEF FreshInv, Fresh, Shown, Places, store
<1>2. BusInv'
  BY DEF FreshInv, BusInv, EqAt, NothingLater, Published, store
<1>3. ViewInv'
  <2> SUFFICES ASSUME NEW d \in Clients
               PROVE  /\ next'[d] <= Len(bus') + 1
                      /\ conn'[d] \notin {"none", "subscribed", "closed"} /\ ~lagged'[d]
                           /\ AllRead(d)'
                           => view'[d]["eq"] \in {Published', state'["eq"]}
    BY DEF ViewInv
  <2>1. AllRead(d)' <=> AllRead(d)
    BY DEF AllRead, EqAt
  <2>2. Published' = Published
    BY DEF Published, store
  <2>3. conn'[d] \notin {"none", "subscribed", "closed"} => conn[d] \notin {"none", "subscribed", "closed"}
    BY DEF FreshInv, Fresh, Shown
  <2> QED BY <2>1, <2>2, <2>3 DEF FreshInv, ViewInv, store
<1> QED BY <1>1, <1>2, <1>3 DEF FreshInv

LEMMA ShowsTheSame ==
  ASSUME FreshInv, UNCHANGED <<store, bus, next, view, lagged, conn>>
  PROVE  FreshInv'
<1>1. Published' = Published /\ \A i : EqAt(i)' <=> EqAt(i)
  BY DEF Published, EqAt, store
<1>2. \A i : NothingLater(i)' <=> NothingLater(i)
  BY DEF NothingLater, EqAt
<1>3. \A c : AllRead(c)' <=> AllRead(c)
  BY DEF AllRead, EqAt
<1> QED BY <1>1, <1>2, <1>3 DEF FreshInv, Fresh, BusInv, ViewInv, store

(* An event that is nothing of AppState's.                                  *)
LEMMA OtherEvent ==
  ASSUME FreshInv, NEW e \in Kindly, e.kind # "eq", bus' = Append(bus, e),
         UNCHANGED <<store, next, view, lagged, conn>>
  PROVE  FreshInv'
<1>1. /\ bus' \in Seq(Kindly) /\ Len(bus') = Len(bus) + 1 /\ Len(bus) \in Nat
      /\ \A i \in 1 .. Len(bus) : bus'[i] = bus[i]
      /\ bus'[Len(bus) + 1] = e
  BY AppendProperties, LenProperties DEF FreshInv, Fresh
<1>2. DOMAIN bus' = DOMAIN bus \cup {Len(bus) + 1} /\ DOMAIN bus = 1 .. Len(bus)
  BY <1>1 DEF FreshInv, Fresh
<1>3. \A i \in DOMAIN bus' : EqAt(i)' <=> i \in DOMAIN bus /\ EqAt(i)
  BY <1>1, <1>2 DEF EqAt
<1>4. Fresh'
  BY <1>1 DEF FreshInv, Fresh, store
<1>5. Published' = Published
  BY DEF Published, store
<1>6. BusInv'
  BY <1>1, <1>2, <1>3, <1>5 DEF FreshInv, BusInv, NothingLater, store
<1>7. \A c \in Clients : AllRead(c)' => AllRead(c)
  BY <1>2, <1>3 DEF AllRead
<1>8. ViewInv'
  BY <1>1, <1>5, <1>7 DEF FreshInv, Fresh, ViewInv, store
<1> QED BY <1>4, <1>6, <1>8 DEF FreshInv

LEMMA FreshInit ==
  Init => FreshInv
<1> SUFFICES ASSUME Init PROVE FreshInv
  OBVIOUS
<1>1. bus = <<>> /\ Len(bus) = 0 /\ bus \in Seq(Kindly) /\ DOMAIN bus = {}
  BY DEF Init
<1>2. Fresh
  BY <1>1 DEF Init, Fresh, Places
<1>3. BusInv
  BY <1>1 DEF Init, BusInv, Writers
<1>4. ViewInv
  BY <1>1 DEF Init, ViewInv
<1> QED BY <1>2, <1>3, <1>4 DEF FreshInv

LEMMA WriteFresh ==
  ASSUME FreshInv, NEW w \in Writers, Write(w)
  PROVE  FreshInv'
<1> DEFINE k == Written(w)
<1>1. k \in Kinds /\ state[k] \in Nat
  BY DEF Written, Kinds, FreshInv, Fresh
<1>2. /\ state' = [state EXCEPT ![k] = @ + 1]
      /\ writing' = [writing EXCEPT ![w] = state[k] + 1]
      /\ writing[w] = None
      /\ UNCHANGED <<bus, next, view, lagged, conn>>
  BY DEF Write, socket
<1>3. Fresh'
  BY <1>1, <1>2 DEF FreshInv, Fresh
<1>4. "eq" \in Kinds /\ "controller" \in Writers
  BY DEF Kinds, Writers
<1>5. state["eq"] \in Nat /\ None \notin Nat
  BY <1>4, WebAssumption DEF FreshInv, Fresh
<1>6. CASE w = "controller"
  <2>1. k = "eq"
    BY <1>6 DEF Written
  <2>2. state'["eq"] = state["eq"] + 1 /\ writing'["controller"] = state["eq"] + 1
    BY <1>2, <1>4, <1>6, <2>1 DEF FreshInv, Fresh
  <2>3. Published = state["eq"]
    BY <1>2, <1>6 DEF Published
  <2>4. Published' = state["eq"]
    BY <1>5, <2>2 DEF Published
  <2>5. BusInv'
    BY <1>2, <2>2, <2>3, <2>4 DEF FreshInv, BusInv, NothingLater, EqAt
  <2>6. ViewInv'
    BY <1>2, <2>2, <2>3, <2>4 DEF FreshInv, ViewInv, AllRead, EqAt
  <2> QED BY <1>3, <2>5, <2>6 DEF FreshInv
<1>7. CASE w # "controller"
  <2>1. k = "media"
    BY <1>7 DEF Written
  <2>2. state'["eq"] = state["eq"] /\ writing'["controller"] = writing["controller"]
    BY <1>2, <1>4, <1>7, <2>1 DEF FreshInv, Fresh
  <2>3. Published' = Published
    BY <2>2 DEF Published
  <2>4. BusInv'
    BY <1>2, <2>2, <2>3 DEF FreshInv, BusInv, NothingLater, EqAt
  <2>5. ViewInv'
    BY <1>2, <2>2, <2>3 DEF FreshInv, ViewInv, AllRead, EqAt
  <2> QED BY <1>3, <2>4, <2>5 DEF FreshInv
<1> QED BY <1>6, <1>7

LEMMA PublishFresh ==
  ASSUME FreshInv, NEW w \in Writers, Publish(w)
  PROVE  FreshInv'
<1> DEFINE e == [kind |-> Written(w), val |-> writing[w]]
<1>1. /\ bus' = Append(bus, e)
      /\ writing' = [writing EXCEPT ![w] = None]
      /\ writing[w] \in Nat
      /\ UNCHANGED <<state, next, view, lagged, conn>>
  BY DEF Publish, socket, FreshInv, Fresh
<1>2. e \in Kindly
  BY <1>1 DEF Kindly, Written, Kinds
<1>3. /\ bus' \in Seq(Kindly) /\ Len(bus') = Len(bus) + 1 /\ Len(bus) \in Nat
      /\ \A i \in 1 .. Len(bus) : bus'[i] = bus[i]
      /\ bus'[Len(bus) + 1] = e
  <2> HIDE DEF e
  <2> QED BY <1>1, <1>2, AppendProperties, LenProperties DEF FreshInv, Fresh
<1>4. DOMAIN bus' = DOMAIN bus \cup {Len(bus) + 1} /\ DOMAIN bus = 1 .. Len(bus)
  BY <1>3 DEF FreshInv, Fresh
<1>5. Fresh'
  <2> HIDE DEF e
  <2> QED BY <1>1, <1>3 DEF FreshInv, Fresh
<1>6. CASE w = "controller"
  <2>1. bus'[Len(bus) + 1].kind = "eq" /\ \A i \in DOMAIN bus : i < Len(bus) + 1
    BY <1>3, <1>4, <1>6 DEF Written
  <2>2. writing["controller"] = state["eq"] /\ writing'["controller"] = None
    BY <1>1, <1>6, WebAssumption DEF FreshInv, Fresh, BusInv
  <2>3. Published' = state["eq"]
    BY <1>1, <2>2 DEF Published
  <2>4. \A i \in DOMAIN bus' : NothingLater(i)' => i = Len(bus) + 1
    BY <1>4, <2>1 DEF NothingLater, EqAt
  <2>5. BusInv'
    BY <1>1, <1>3, <1>6, <2>2, <2>3, <2>4 DEF BusInv
  <2>6. \A c \in Clients : ~AllRead(c)'
    BY <1>1, <1>4, <2>1 DEF AllRead, EqAt, FreshInv, ViewInv
  <2>7. ViewInv'
    BY <1>1, <1>3, <2>6 DEF ViewInv, FreshInv, Fresh
  <2> QED BY <1>5, <2>5, <2>7 DEF FreshInv
<1>7. CASE w # "controller"
  <2>1. \A i \in DOMAIN bus' : EqAt(i)' <=> i \in DOMAIN bus /\ EqAt(i)
    BY <1>3, <1>4, <1>7 DEF EqAt, Written
  <2>2. writing'["controller"] = writing["controller"] /\ Published' = Published
    BY <1>1, <1>7 DEF Published, FreshInv, Fresh, Writers
  <2>3. BusInv'
    BY <1>1, <1>3, <1>4, <2>1, <2>2 DEF FreshInv, BusInv, NothingLater
  <2>4. \A c \in Clients : AllRead(c)' => AllRead(c)
    BY <1>1, <1>4, <2>1 DEF AllRead
  <2>5. ViewInv'
    BY <1>1, <1>3, <2>2, <2>4 DEF FreshInv, Fresh, ViewInv
  <2> QED BY <1>5, <2>3, <2>5 DEF FreshInv
<1> QED BY <1>6, <1>7

LEMMA ConnectFresh ==
  ASSUME FreshInv, NEW c \in Clients, Connect(c)
  PROVE  FreshInv'
<1>1. /\ conn' = [conn EXCEPT ![c] = "subscribed"]
      /\ next' = [next EXCEPT ![c] = Len(bus) + 1]
      /\ UNCHANGED <<store, bus, view, lagged>>
  BY DEF Connect, Goto
<1>2. Len(bus) \in Nat
  BY LenProperties DEF FreshInv, Fresh
<1>3. Fresh'
  BY <1>1, <1>2 DEF FreshInv, Fresh, Places, store
<1>4. BusInv' /\ Published' = Published
  BY <1>1 DEF FreshInv, BusInv, EqAt, NothingLater, Published, store
<1>5. ViewInv'
  <2> SUFFICES ASSUME NEW d \in Clients
               PROVE  /\ next'[d] <= Len(bus) + 1
                      /\ conn'[d] \notin {"none", "subscribed", "closed"} /\ ~lagged[d]
                           /\ AllRead(d)'
                           => view[d]["eq"] \in {Published, state["eq"]}
    BY <1>1, <1>4 DEF ViewInv, store
  <2>1. CASE d = c
    BY <1>1, <1>2, <2>1 DEF FreshInv, Fresh
  <2>2. CASE d # c
    <3>1. next'[d] = next[d] /\ conn'[d] = conn[d]
      BY <1>1, <2>2 DEF FreshInv, Fresh
    <3>2. AllRead(d)' <=> AllRead(d)
      BY <1>1, <3>1 DEF AllRead, EqAt
    <3> QED BY <3>1, <3>2 DEF FreshInv, ViewInv
  <2> QED BY <2>1, <2>2
<1> QED BY <1>3, <1>4, <1>5 DEF FreshInv

LEMMA SnapshotFresh ==
  ASSUME FreshInv, NEW c \in Clients, Snapshot(c)
  PROVE  FreshInv'
<1>1. /\ conn' = [conn EXCEPT ![c] = "greeting"]
      /\ view' = [view EXCEPT ![c] = state]
      /\ UNCHANGED <<store, bus, next, lagged>>
  BY DEF Snapshot, Goto
<1>2. Fresh'
  BY <1>1 DEF FreshInv, Fresh, Places, store
<1>3. BusInv' /\ Published' = Published
  BY <1>1 DEF FreshInv, BusInv, EqAt, NothingLater, Published, store
<1>4. ViewInv'
  <2> SUFFICES ASSUME NEW d \in Clients
               PROVE  /\ next[d] <= Len(bus) + 1
                      /\ conn'[d] \notin {"none", "subscribed", "closed"} /\ ~lagged[d]
                           /\ AllRead(d)
                           => view'[d]["eq"] \in {Published, state["eq"]}
    BY <1>1, <1>3 DEF ViewInv, store, AllRead, EqAt
  <2>1. CASE d = c
    BY <1>1, <2>1 DEF FreshInv, Fresh, ViewInv
  <2>2. CASE d # c
    BY <1>1, <2>2 DEF FreshInv, Fresh, ViewInv
  <2> QED BY <2>1, <2>2
<1> QED BY <1>2, <1>3, <1>4 DEF FreshInv

LEMMA LagFresh ==
  ASSUME FreshInv, NEW c \in Clients, Lag(c)
  PROVE  FreshInv'
<1>1. /\ next' = [next EXCEPT ![c] = Len(bus) + 1 - BusCap]
      /\ lagged' = [lagged EXCEPT ![c] = TRUE]
      /\ Len(bus) + 1 - next[c] > BusCap
      /\ UNCHANGED <<store, bus, conn, view>>
  BY DEF Lag, Unread
<1>2. Len(bus) \in Nat /\ BusCap \in Nat \ {0} /\ next[c] \in Nat \ {0}
  BY LenProperties, WebAssumption DEF FreshInv, Fresh
<1>3. Len(bus) + 1 - BusCap \in Nat \ {0} /\ Len(bus) + 1 - BusCap <= Len(bus) + 1
  BY <1>1, <1>2
<1>4. Fresh'
  BY <1>1, <1>3 DEF FreshInv, Fresh, store
<1>5. BusInv' /\ Published' = Published
  BY <1>1 DEF FreshInv, BusInv, EqAt, NothingLater, Published, store
<1>6. ViewInv'
  <2> SUFFICES ASSUME NEW d \in Clients
               PROVE  /\ next'[d] <= Len(bus) + 1
                      /\ conn[d] \notin {"none", "subscribed", "closed"} /\ ~lagged'[d]
                           /\ AllRead(d)'
                           => view[d]["eq"] \in {Published, state["eq"]}
    BY <1>1, <1>5 DEF ViewInv, store
  <2>1. CASE d = c
    BY <1>1, <1>3, <2>1 DEF FreshInv, Fresh
  <2>2. CASE d # c
    <3>1. next'[d] = next[d] /\ lagged'[d] = lagged[d]
      BY <1>1, <2>2 DEF FreshInv, Fresh
    <3>2. AllRead(d)' <=> AllRead(d)
      BY <1>1, <3>1 DEF AllRead, EqAt
    <3> QED BY <3>1, <3>2 DEF FreshInv, ViewInv
  <2> QED BY <2>1, <2>2
<1> QED BY <1>4, <1>5, <1>6 DEF FreshInv

(* The event that a client reads last of AppState's carries what is published. *)
LEMMA ReceiveFresh ==
  ASSUME FreshInv, NEW c \in Clients, Receive(c)
  PROVE  FreshInv'
<1> DEFINE n == next[c]
           e == bus[n]
<1>1. /\ view' = IF e.kind \in Kinds THEN [view EXCEPT ![c][e.kind] = e.val] ELSE view
      /\ next' = [next EXCEPT ![c] = n + 1]
      /\ conn[c] = "open" /\ Unread(c) \in 1 .. BusCap
      /\ UNCHANGED <<store, bus, lagged>>
  BY DEF Receive
<1>2. \E place \in Shown : conn' = [conn EXCEPT ![c] = place]
  <2>1. conn' = conn => conn' = [conn EXCEPT ![c] = "open"]
    BY <1>1 DEF FreshInv, Fresh
  <2> QED BY <2>1 DEF Receive, Send, Goto, Shown
<1>3. n \in Nat \ {0} /\ n <= Len(bus) /\ Len(bus) \in Nat
  <2>1. n \in Nat \ {0} /\ Len(bus) \in Nat /\ BusCap \in Nat
    BY LenProperties, WebAssumption DEF FreshInv, Fresh
  <2> QED BY <1>1, <2>1 DEF Unread
<1>4. n \in DOMAIN bus /\ e \in Kindly
  BY <1>3 DEF FreshInv, Fresh
<1>5. e.kind \in Kinds => e.val \in Nat
  BY <1>4 DEF Kindly, Kinds
<1>6. Fresh'
  <2>1. view' \in [Clients -> [Kinds -> Nat]]
    <3> HIDE DEF e
    <3> QED BY <1>1, <1>5 DEF FreshInv, Fresh
  <2>2. conn' \in [Clients -> Places]
    BY <1>2 DEF FreshInv, Fresh, Shown, Places
  <2>3. next' \in [Clients -> Nat \ {0}]
    BY <1>1, <1>3 DEF FreshInv, Fresh
  <2> QED BY <1>1, <2>1, <2>2, <2>3 DEF FreshInv, Fresh, store
<1>7. BusInv' /\ Published' = Published
  BY <1>1 DEF FreshInv, BusInv, EqAt, NothingLater, Published, store
<1>8. ViewInv'
  <2> SUFFICES ASSUME NEW d \in Clients
               PROVE  /\ next'[d] <= Len(bus) + 1
                      /\ conn'[d] \notin {"none", "subscribed", "closed"} /\ ~lagged[d]
                           /\ AllRead(d)'
                           => view'[d]["eq"] \in {Published, state["eq"]}
    BY <1>1, <1>7 DEF ViewInv, store
  <2>1. CASE d # c
    <3>1. next'[d] = next[d] /\ conn'[d] = conn[d] /\ view'[d] = view[d]
      <4> HIDE DEF e
      <4> QED BY <1>1, <1>2, <2>1 DEF FreshInv, Fresh
    <3>2. AllRead(d)' <=> AllRead(d)
      BY <1>1, <3>1 DEF AllRead, EqAt
    <3> QED BY <3>1, <3>2 DEF FreshInv, ViewInv
  <2>2. CASE d = c
    <3>1. next'[c] = n + 1 /\ n + 1 <= Len(bus) + 1
      BY <1>1, <1>3 DEF FreshInv, Fresh
    <3>2. AllRead(c)' => \A j \in DOMAIN bus : j >= n + 1 => ~EqAt(j)
      BY <1>1, <3>1 DEF AllRead, EqAt
    <3>3. CASE EqAt(n)
      <4>1. e.kind = "eq" /\ "eq" \in Kinds
        BY <3>3 DEF EqAt, Kinds
      <4>2. view'[c]["eq"] = e.val
        <5> HIDE DEF e
        <5> QED BY <1>1, <4>1 DEF FreshInv, Fresh
      <4>3. AllRead(c)' => NothingLater(n)
        <5>1. DOMAIN bus \subseteq Nat
          BY DEF FreshInv, Fresh
        <5> QED BY <1>3, <3>2, <5>1 DEF NothingLater
      <4>4. AllRead(c)' => e.val = Published
        BY <1>4, <3>3, <4>3 DEF FreshInv, BusInv
      <4> QED BY <2>2, <3>1, <4>2, <4>4
    <3>4. CASE ~EqAt(n)
      <4>1. view'[c]["eq"] = view[c]["eq"]
        <5>1. e.kind # "eq"
          BY <3>4 DEF EqAt
        <5> HIDE DEF e
        <5> QED BY <1>1, <5>1 DEF FreshInv, Fresh, Kinds
      <4>2. AllRead(c)' => AllRead(c)
        <5>1. DOMAIN bus \subseteq Nat
          BY DEF FreshInv, Fresh
        <5>2. \A j \in Nat : j >= n <=> j = n \/ j >= n + 1
          BY <1>3
        <5> QED BY <3>2, <3>4, <5>1, <5>2 DEF AllRead
      <4>3. conn[c] \notin {"none", "subscribed", "closed"}
        BY <1>1
      <4> QED BY <2>2, <3>1, <4>1, <4>2, <4>3 DEF FreshInv, ViewInv
    <3> QED BY <3>3, <3>4
  <2> QED BY <2>1, <2>2
<1> QED BY <1>6, <1>7, <1>8 DEF FreshInv

LEMMA HandlerFresh ==
  ASSUME FreshInv, NEW c \in Clients, Handler(c) \/ GivesUp(c)
  PROVE  FreshInv'
<1>1. CASE Snapshot(c)
  BY <1>1, SnapshotFresh
<1>2. CASE Receive(c)
  BY <1>2, ReceiveFresh
<1>3. CASE Lag(c)
  BY <1>3, LagFresh
<1>4. CASE Greet(c)
  <2>1. next' = next
    BY <1>4 DEF Greet, Subscribed, FreshInv, Fresh
  <2>2. \E place \in Shown \cup {"closed"} : conn' = [conn EXCEPT ![c] = place]
    BY <1>4 DEF Greet, Goto, Shown
  <2> QED BY <1>4, <2>1, <2>2, MovesOn DEF Greet, Shown
<1>5. CASE Inbound(c) \/ Pass(c) \/ Answered(c) \/ Keepalive(c) \/ SocketEnds(c) \/ Close(c)
           \/ GivesUp(c)
  <2>1. UNCHANGED <<store, bus, next, view, lagged>> /\ conn[c] \in Shown
    BY <1>5 DEF Inbound, Pass, Answered, Keepalive, SocketEnds, Close, GivesUp, Shown
  <2>2. \E place \in Shown \cup {"closed"} : conn' = [conn EXCEPT ![c] = place]
    BY <1>5 DEF Inbound, Pass, Answered, Keepalive, SocketEnds, Close, GivesUp, Send, Goto, Shown
  <2> QED BY <2>1, <2>2, MovesOn
<1> QED BY <1>1, <1>2, <1>3, <1>4, <1>5 DEF Handler

LEMMA FreshStep ==
  ChanTypes /\ FreshInv /\ [Next]_vars => FreshInv'
<1> SUFFICES ASSUME ChanTypes, FreshInv, [Next]_vars PROVE FreshInv'
  OBVIOUS
<1>1. CASE \E w \in Writers : Write(w) \/ Publish(w)
  BY <1>1, WriteFresh, PublishFresh
<1>2. CASE SpectrumData
  <2> DEFINE e == [kind |-> "spectrum", val |-> None]
  <2>1. e \in Kindly /\ e.kind # "eq"
    BY DEF Kindly
  <2>2. bus' = Append(bus, e) /\ UNCHANGED <<store, next, view, lagged, conn>>
    BY <1>2 DEF SpectrumData, socket
  <2> HIDE DEF e
  <2> QED BY <2>1, <2>2, OtherEvent
<1>3. CASE \E c \in Clients : Handler(c) \/ GivesUp(c)
  BY <1>3, HandlerFresh
<1>4. CASE \E c \in Clients : Connect(c)
  BY <1>4, ConnectFresh
<1>5. CASE \E p \in Peers : CandidateFound(p)
  <2> PICK p \in Peers : CandidateFound(p)
    BY <1>5
  <2> DEFINE e == [kind |-> "candidate", val |-> ice[p].of]
  <2>1. e \in Kindly /\ e.kind # "eq"
    BY DEF Kindly, ChanTypes
  <2>2. bus' = Append(bus, e) /\ UNCHANGED <<store, next, view, lagged, conn>>
    BY DEF CandidateFound, socket
  <2> HIDE DEF e
  <2> QED BY <2>1, <2>2, OtherEvent
<1>6. CASE \/ \E c \in Clients : ClientCloses(c) \/ ClientVanishes(c)
           \/ CommandLoop \/ RequestShutdown \/ vars' = vars
           \/ \E p \in Peers : PeerConnection(p) \/ ConnectionFails(p)
  <2>1. UNCHANGED <<store, bus, next, view, lagged, conn>>
    BY <1>6 DEF ClientCloses, ClientVanishes, CommandLoop, TakeOffer, TakeIce, TakeStop, Serve,
       OfferHandled, StopAll, LoopReturns, RequestShutdown, PeerConnection, PumpEnds,
       FailureReported, ConnectionFails, socket, vars
  <2> QED BY <2>1, ShowsTheSame
<1> QED BY <1>1, <1>2, <1>3, <1>4, <1>5, <1>6 DEF Next

(* However the writes of the one task that owns a part of AppState meet the    *)
(* snapshot, the subscription and the events of a client, one that has read    *)
(* everything and skipped nothing shows what is (server.rs 139-142, state.rs   *)
(* 227-272).                                                                *)
THEOREM ViewsHold == Spec => []ViewCurrent
<1>1. FreshInv => ViewCurrent
  <2> SUFFICES ASSUME FreshInv, NEW c \in Clients, NEW k \in OneWriter,
                      conn[c] = "open", next[c] > Len(bus), ~lagged[c], Quiet(k)
               PROVE  view[c][k] = state[k]
    BY DEF ViewCurrent
  <2>1. k = "eq" /\ writing["controller"] = None
    BY EqIsTheControllers DEF Quiet, Writers, Written
  <2>2. AllRead(c)
    BY LenProperties DEF AllRead, FreshInv, Fresh
  <2> QED BY <2>1, <2>2 DEF FreshInv, ViewInv, Published
<1> QED
  BY <1>1, TypesInit, TypesStep, FreshInit, FreshStep, PTL DEF Spec

-----------------------------------------------------------------------------
(* What lives. An offer that is on its way to an answer: its handler waits for *)
(* that, and for nothing else.                                              *)
Offer(s) == [do |-> "offer", of |-> s]

InChan(m) == \E i \in DOMAIN chan : chan[i] = m

OffersInv ==
  /\ \A s \in Clients : InChan(Offer(s)) \/ serving = s
                          => conn[s] = "awaiting" /\ reply[s] = None
  /\ \A s \in Clients : conn[s] # "awaiting" => reply[s] = None
  /\ \A i, j \in DOMAIN chan : chan[i] = chan[j] /\ chan[i].do = "offer" => i = j
  /\ serving # None => ~InChan(Offer(serving))
  /\ loop = "offer" <=> serving # None

(* The map and the peer connections name one another; a session that is being   *)
(* offered has none; and what is in the map will be stopped.                *)
MapsTo ==
  /\ \A p \in Peers : ice[p].st # "free" => ice[p].of # None /\ sessions[ice[p].of] = p
  /\ \A p \in Peers : pump[p] = "on" => ice[p].st # "free"
  /\ \A s \in Clients : sessions[s] # None
       => ice[sessions[s]].st # "free" /\ ice[sessions[s]].of = s

Early == {"none", "subscribed", "greeting"}

StopInv ==
  /\ serving # None => sessions[serving] = None
  /\ loop \in {"drained", "done"} => \A s \in Clients : sessions[s] = None
  /\ \A s \in Clients : conn[s] \in Early => sessions[s] = None
  /\ \A s \in Clients : sessions[s] # None => StopComes(s)

MapInv == MapsTo /\ StopInv

LeakInv == ChanTypes /\ OffersInv /\ MapInv

LEMMA LeakInit ==
  Init => LeakInv
<1> SUFFICES ASSUME Init PROVE LeakInv
  OBVIOUS
<1>1. DOMAIN chan = {}
  BY DEF Init
<1>2. OffersInv
  BY <1>1, WebAssumption DEF Init, OffersInv, InChan
<1>3. MapInv
  BY DEF Init, MapInv, MapsTo, StopInv, Free
<1> QED BY <1>2, <1>3, TypesInit DEF LeakInv

(* The offers, by what happens to the channel.                              *)
LEMMA OffersStay ==
  ASSUME OffersInv, UNCHANGED <<chan, conn, reply, serving, loop>>
  PROVE  OffersInv'
BY DEF OffersInv, InChan, Offer

LEMMA OffersMove ==
  ASSUME ChanTypes, OffersInv, NEW c \in Clients, NEW place \in Places \ {"awaiting"},
         conn[c] # "awaiting" \/ reply[c] # None,
         conn' = [conn EXCEPT ![c] = place],
         reply' = [reply EXCEPT ![c] = None],
         UNCHANGED <<chan, serving, loop>>
  PROVE  OffersInv'
<1>1. \A m : InChan(m)' <=> InChan(m)
  BY DEF InChan
<1>2. \A s \in Clients : InChan(Offer(s))' <=> InChan(Offer(s))
  BY DEF InChan, Offer
<1>3. serving' # None => ~InChan(Offer(serving))'
  BY DEF InChan, Offer, OffersInv
<1>4. conn'[c] = place /\ reply'[c] = None
  BY DEF ChanTypes
<1>5. \A s \in Clients \ {c} : conn'[s] = conn[s] /\ reply'[s] = reply[s]
  BY DEF ChanTypes
<1> QED BY <1>2, <1>3, <1>4, <1>5 DEF OffersInv

LEMMA OffersSaid ==
  ASSUME ChanTypes, OffersInv, NEW do \in {"ice", "stop"}, NEW s \in Clients,
         chan' = Append(chan, [do |-> do, of |-> s]),
         UNCHANGED <<conn, reply, serving, loop>>
  PROVE  OffersInv'
<1>1. /\ DOMAIN chan' = DOMAIN chan \cup {Len(chan) + 1}
      /\ \A i \in DOMAIN chan : chan'[i] = chan[i]
      /\ chan'[Len(chan) + 1] = [do |-> do, of |-> s]
  BY Said
<1>2. \A r : InChan(Offer(r))' => InChan(Offer(r))
  BY <1>1 DEF InChan, Offer
<1>3. \A i, j \in DOMAIN chan' : chan'[i] = chan'[j] /\ chan'[i].do = "offer" => i = j
  BY <1>1 DEF OffersInv
<1>4. serving' # None => ~InChan(Offer(serving))'
  BY <1>1 DEF InChan, Offer, OffersInv
<1> QED BY <1>2, <1>3, <1>4 DEF OffersInv

LEMMA OffersHeard ==
  ASSUME ChanTypes, OffersInv, chan # <<>>, chan' = Tail(chan), loop = "idle",
         UNCHANGED <<conn, reply>>,
         \/ UNCHANGED <<serving, loop>>
         \/ Head(chan).do = "offer" /\ serving' = Head(chan).of /\ loop' = "offer"
  PROVE  OffersInv'
<1>1. \A i \in DOMAIN chan' : i + 1 \in DOMAIN chan /\ chan'[i] = chan[i + 1]
  BY Heard
<1>2. \A r : InChan(Offer(r))' => InChan(Offer(r))
  BY <1>1 DEF InChan, Offer
<1>3. DOMAIN chan' \subseteq Nat
  BY Heard
<1>4. \A i, j \in DOMAIN chan' : chan'[i] = chan'[j] /\ chan'[i].do = "offer" => i = j
  <2> SUFFICES ASSUME NEW i \in DOMAIN chan', NEW j \in DOMAIN chan',
                      chan'[i] = chan'[j], chan'[i].do = "offer"
               PROVE  i = j
    OBVIOUS
  <2>1. i + 1 = j + 1
    BY <1>1 DEF OffersInv
  <2> QED BY <1>3, <2>1
<1>5. CASE UNCHANGED <<serving, loop>>
  BY <1>2, <1>4, <1>5 DEF OffersInv
<1>6. CASE Head(chan).do = "offer" /\ serving' = Head(chan).of /\ loop' = "offer"
  <2> DEFINE s == Head(chan).of
  <2>1. s \in Clients /\ Head(chan) = Offer(s) /\ 1 \in DOMAIN chan /\ chan[1] = Offer(s)
    BY <1>6, Heard DEF Commanded, Offer
  <2>2. \A i \in DOMAIN chan' : chan'[i] # Offer(s)
    <3> SUFFICES ASSUME NEW i \in DOMAIN chan', chan'[i] = Offer(s) PROVE FALSE
      OBVIOUS
    <3>1. i + 1 = 1
      BY <1>1, <2>1 DEF OffersInv, Offer
    <3>2. i \in Nat /\ i # 0
      BY Heard
    <3> QED BY <3>1, <3>2
  <2>3. InChan(Offer(s)) /\ s # None
    BY <2>1, WebAssumption DEF InChan
  <2>4. serving' # None /\ ~InChan(Offer(serving))'
    BY <1>6, <2>2, <2>3 DEF InChan, Offer
  <2> QED BY <1>2, <1>4, <1>6, <2>1, <2>3, <2>4 DEF OffersInv
<1> QED BY <1>5, <1>6

(* The map, when it is left alone and when a session is taken out of it.      *)
LEMMA MapStays ==
  ASSUME MapInv, UNCHANGED <<sessions, ice, pump, serving, loop>>,
         \A s \in Clients : conn'[s] \in Early => sessions[s] = None,
         \A s \in Clients : sessions[s] # None /\ StopComes(s) => StopComes(s)'
  PROVE  MapInv'
<1>1. MapsTo'
  BY DEF MapInv, MapsTo
<1>2. StopInv'
  BY DEF MapInv, StopInv
<1> QED BY <1>1, <1>2 DEF MapInv

LEMMA StopLeaves ==
  ASSUME ChanTypes, MapsTo, NEW s \in Clients, StopSession(s)
  PROVE  /\ MapsTo'
         /\ sessions'[s] = None
         /\ \A r \in Clients \ {s} : sessions'[r] = sessions[r]
<1> DEFINE p == sessions[s]
<1>1. CASE p = None
  BY <1>1 DEF StopSession, MapsTo
<1>2. CASE p # None
  <2>1. /\ sessions' = [sessions EXCEPT ![s] = None]
        /\ ice' = [ice EXCEPT ![p] = Free]
        /\ pump' = [pump EXCEPT ![p] = IF @ = "on" THEN "told" ELSE @]
        /\ p \in Peers
    BY <1>2 DEF StopSession, ChanTypes
  <2>2. sessions'[s] = None /\ \A r \in Clients \ {s} : sessions'[r] = sessions[r]
    BY <2>1 DEF ChanTypes
  <2>3. ice'[p].st = "free" /\ pump'[p] # "on"
    BY <2>1 DEF ChanTypes, Free
  <2>4. \A q \in Peers \ {p} : ice'[q] = ice[q] /\ pump'[q] = pump[q]
    BY <2>1 DEF ChanTypes
  <2>5. \A q \in Peers : ice'[q].st # "free" => ice'[q].of # None /\ sessions'[ice'[q].of] = q
    <3> SUFFICES ASSUME NEW q \in Peers, ice'[q].st # "free"
                 PROVE  ice'[q].of # None /\ sessions'[ice'[q].of] = q
      OBVIOUS
    <3>1. q # p /\ ice'[q] = ice[q]
      BY <2>3, <2>4
    <3>2. ice[q].of \in Clients /\ sessions[ice[q].of] = q
      BY <3>1 DEF MapsTo, ChanTypes
    <3>3. ice[q].of # s
      BY <3>1, <3>2
    <3> QED BY <2>2, <3>1, <3>2, <3>3 DEF MapsTo
  <2>6. \A r \in Clients : sessions'[r] # None
          => ice'[sessions'[r]].st # "free" /\ ice'[sessions'[r]].of = r
    <3> SUFFICES ASSUME NEW r \in Clients, sessions'[r] # None
                 PROVE  ice'[sessions'[r]].st # "free" /\ ice'[sessions'[r]].of = r
      OBVIOUS
    <3>1. r # s /\ sessions'[r] = sessions[r] /\ sessions[r] \in Peers
      BY <2>2 DEF ChanTypes
    <3>2. ice[sessions[r]].of = r /\ ice[p].of = s
      BY <1>2, <3>1 DEF MapsTo
    <3>3. sessions[r] # p
      BY <3>1, <3>2
    <3> QED BY <2>4, <3>1, <3>3 DEF MapsTo
  <2>7. MapsTo'
    BY <2>3, <2>4, <2>5, <2>6 DEF MapsTo
  <2> QED BY <2>2, <2>7
<1> QED BY <1>1, <1>2

LEMMA Unstopped ==
  ASSUME ChanTypes, chan # <<>>, chan' = Tail(chan), UNCHANGED <<conn, shutdown>>,
         NEW s \in Clients, StopComes(s), Head(chan) # [do |-> "stop", of |-> s]
  PROVE  StopComes(s)'
<1>1. \A i \in DOMAIN chan : i = 1 \/ (i - 1 \in DOMAIN chan' /\ chan[i] = chan'[i - 1])
  BY Heard
<1>2. chan[1] = Head(chan)
  BY Heard
<1> QED BY <1>1, <1>2 DEF StopComes

(* The handlers. One that closes has queued its Stop, or has no session.      *)
LEMMA HandlerLeaks ==
  ASSUME LeakInv, NEW c \in Clients, Connect(c) \/ Handler(c) \/ GivesUp(c)
  PROVE  OffersInv' /\ MapInv'
<1> USE DEF LeakInv
<1>1. CASE Pass(c)
  <2>1. conn[c] \in {"offer", "ice", "stop"} /\ conn[c] # "awaiting"
    BY <1>1 DEF Pass
  <2>2. UNCHANGED <<reply, control, shutdown>> /\ reply' = [reply EXCEPT ![c] = None]
    BY <1>1, <2>1 DEF Pass, OffersInv, ChanTypes
  <2>3. \E place \in {"open", "awaiting"} : conn' = [conn EXCEPT ![c] = place]
    BY <1>1 DEF Pass, Goto
  <2>4. MapInv'
    <3>1. \A s \in Clients : conn'[s] \in Early => sessions[s] = None
      BY <2>3 DEF Early, ChanTypes, MapInv, StopInv
    <3>2. \/ chan' = chan
          \/ /\ DOMAIN chan \subseteq DOMAIN chan'
             /\ \A i \in DOMAIN chan : chan'[i] = chan[i]
      BY <1>1, <2>1, Said DEF Pass
    <3>3. \A s \in Clients : StopComes(s) => StopComes(s)'
      BY <2>2, <2>3, <3>2 DEF StopComes, ChanTypes
    <3> QED BY <2>2, <3>1, <3>3, MapStays DEF control
  <2>5. CASE conn[c] # "offer" /\ loop # "done"
    <3>1. chan' = Append(chan, [do |-> conn[c], of |-> c]) /\ conn' = [conn EXCEPT ![c] = "open"]
      BY <1>1, <2>5 DEF Pass, Goto
    <3> DEFINE do == conn[c]
    <3>2. do \in {"ice", "stop"} /\ chan' = Append(chan, [do |-> do, of |-> c])
      BY <2>1, <2>5, <3>1
    <3>3. /\ DOMAIN chan' = DOMAIN chan \cup {Len(chan) + 1}
          /\ \A i \in DOMAIN chan : chan'[i] = chan[i]
          /\ chan'[Len(chan) + 1] = [do |-> do, of |-> c]
      <4> HIDE DEF do
      <4> QED BY <3>2, Said
    <3>4. \A r : InChan(Offer(r))' => InChan(Offer(r))
      BY <3>2, <3>3 DEF InChan, Offer
    <3>5. \A i, j \in DOMAIN chan' : chan'[i] = chan'[j] /\ chan'[i].do = "offer" => i = j
      BY <3>2, <3>3 DEF OffersInv
    <3>6. ~InChan(Offer(c)) /\ serving # c
      BY <2>1 DEF OffersInv
    <3>7. serving' # None => ~InChan(Offer(serving))'
      BY <2>2, <3>2, <3>3 DEF InChan, Offer, OffersInv, control
    <3>8. \A s \in Clients : s # c => conn'[s] = conn[s]
      BY <3>1 DEF ChanTypes
    <3>9. conn'[c] # "awaiting" /\ reply[c] = None
      BY <2>1, <3>1 DEF OffersInv, ChanTypes
    <3> QED BY <2>2, <2>4, <3>4, <3>5, <3>6, <3>7, <3>8, <3>9 DEF OffersInv, control
  <2>6. CASE conn[c] = "offer" /\ loop # "done"
    <3>1. chan' = Append(chan, Offer(c)) /\ conn' = [conn EXCEPT ![c] = "awaiting"]
      BY <1>1, <2>6 DEF Pass, Goto, Offer
    <3>2. /\ DOMAIN chan' = DOMAIN chan \cup {Len(chan) + 1}
          /\ \A i \in DOMAIN chan : chan'[i] = chan[i]
          /\ chan'[Len(chan) + 1] = Offer(c)
      BY <3>1, Said DEF Offer
    <3>3. \A i \in DOMAIN chan : chan[i] # Offer(c)
      BY <2>1 DEF OffersInv, InChan
    <3>4. \A i, j \in DOMAIN chan' : chan'[i] = chan'[j] /\ chan'[i].do = "offer" => i = j
      BY <3>2, <3>3 DEF OffersInv
    <3>5. \A r \in Clients : r # c => (InChan(Offer(r))' => InChan(Offer(r)))
      BY <3>2 DEF InChan, Offer
    <3>6. serving # c /\ reply[c] = None
      BY <2>1 DEF OffersInv
    <3>7. serving' # None => ~InChan(Offer(serving))'
      BY <2>2, <3>2, <3>6 DEF InChan, Offer, OffersInv, control
    <3>8. \A s \in Clients : s # c => conn'[s] = conn[s]
      BY <3>1 DEF ChanTypes
    <3>9. conn'[c] = "awaiting"
      BY <3>1 DEF ChanTypes
    <3> QED BY <2>2, <2>4, <3>4, <3>5, <3>6, <3>7, <3>8, <3>9 DEF OffersInv, control
  <2>7. CASE loop = "done"
    <3>1. conn' = [conn EXCEPT ![c] = "open"] /\ chan' = chan
      BY <1>1, <2>7 DEF Pass, Goto
    <3> QED BY <2>1, <2>2, <2>4, <3>1, OffersMove DEF control, Places
  <2> QED BY <2>5, <2>6, <2>7
<1>2. CASE Close(c)
  <2>1. /\ conn[c] = "stopping" /\ conn' = [conn EXCEPT ![c] = "closed"]
        /\ UNCHANGED <<reply, control, shutdown>>
    BY <1>2 DEF Close, Goto
  <2>2. reply' = [reply EXCEPT ![c] = None] /\ reply[c] = None
    BY <2>1 DEF OffersInv, ChanTypes
  <2>3. \A s \in Clients : conn'[s] \in Early => sessions[s] = None
    BY <2>1 DEF Early, ChanTypes, MapInv, StopInv
  <2>4. CASE loop = "done"
    <3>1. chan' = chan
      BY <1>2, <2>4 DEF Close, LastStop
    <3>2. \A s \in Clients : sessions[s] = None
      BY <2>4 DEF MapInv, StopInv
    <3> QED BY <2>1, <2>2, <2>3, <3>1, <3>2, OffersMove, MapStays DEF Places, control
  <2>5. CASE loop # "done"
    <3>1. chan' = Append(chan, [do |-> "stop", of |-> c])
      BY <1>2, <2>5 DEF Close, LastStop
    <3>2. /\ DOMAIN chan' = DOMAIN chan \cup {Len(chan) + 1}
          /\ \A i \in DOMAIN chan : chan'[i] = chan[i]
          /\ chan'[Len(chan) + 1] = [do |-> "stop", of |-> c]
      BY <3>1, Said
    <3>3. \A s \in Clients : StopComes(s) => StopComes(s)'
      <4>1. StopComes(c)'
        BY <3>2 DEF StopComes
      <4>2. \A s \in Clients : s # c => conn'[s] = conn[s]
        BY <2>1 DEF ChanTypes
      <4> QED BY <2>1, <3>2, <4>1, <4>2 DEF StopComes
    <3>4. MapInv'
      BY <2>1, <2>3, <3>3, MapStays DEF control
    <3>5. \A r : InChan(Offer(r))' => InChan(Offer(r))
      BY <3>2 DEF InChan, Offer
    <3>6. \A i, j \in DOMAIN chan' : chan'[i] = chan'[j] /\ chan'[i].do = "offer" => i = j
      BY <3>2 DEF OffersInv
    <3>7. serving' # None => ~InChan(Offer(serving))'
      BY <2>1, <3>2 DEF InChan, Offer, OffersInv, control
    <3>8. \A s \in Clients : s # c => conn'[s] = conn[s]
      BY <2>1 DEF ChanTypes
    <3>9. ~InChan(Offer(c)) /\ serving # c
      BY <2>1 DEF OffersInv
    <3> QED BY <2>1, <2>2, <3>4, <3>5, <3>6, <3>7, <3>8, <3>9 DEF OffersInv, control
  <2> QED BY <2>4, <2>5
<1>3. CASE \/ Connect(c) \/ Snapshot(c) \/ Greet(c) \/ Receive(c) \/ Lag(c) \/ Inbound(c)
           \/ Answered(c) \/ Keepalive(c) \/ SocketEnds(c) \/ GivesUp(c)
  <2>1. UNCHANGED <<chan, control, shutdown>>
    BY <1>3 DEF Connect, Snapshot, Greet, Receive, Lag, Inbound, Answered, Keepalive, SocketEnds,
       GivesUp
  <2>2. \/ UNCHANGED <<conn, reply>>
        \/ /\ \E place \in Places \ {"awaiting"} :
                /\ conn' = [conn EXCEPT ![c] = place]
                /\ place \in Early \cup {"closed"} => conn[c] \in Early
           /\ \/ conn[c] # "awaiting" /\ reply' = reply
              \/ reply[c] # None /\ reply' = [reply EXCEPT ![c] = None]
    <3>1. CASE Answered(c)
      BY <3>1 DEF Answered, Send, Goto, Places, Early
    <3>2. CASE Receive(c)
      BY <3>2 DEF Receive, Send, Goto, Places, Early
    <3>3. CASE Keepalive(c) \/ Inbound(c)
      BY <3>3 DEF Keepalive, Inbound, Send, Goto, Places, Early
    <3>4. CASE Connect(c) \/ Snapshot(c) \/ Greet(c) \/ SocketEnds(c) \/ GivesUp(c)
      BY <3>4 DEF Connect, Snapshot, Greet, SocketEnds, GivesUp, Goto, Places, Early
    <3>5. CASE Lag(c)
      BY <3>5 DEF Lag
    <3> QED BY <1>3, <3>1, <3>2, <3>3, <3>4, <3>5
  <2>3. CASE UNCHANGED <<conn, reply>>
    <3>1. OffersInv'
      BY <2>1, <2>3, OffersStay DEF control
    <3>2. MapInv'
      BY <2>1, <2>3, MapStays DEF control, StopComes, MapInv, StopInv
    <3> QED BY <3>1, <3>2
  <2>4. CASE ~UNCHANGED <<conn, reply>>
    <3>1. PICK place \in Places \ {"awaiting"} :
            /\ conn' = [conn EXCEPT ![c] = place]
            /\ place \in Early \cup {"closed"} => conn[c] \in Early
      BY <2>2, <2>4
    <3>2. /\ conn[c] # "awaiting" \/ reply[c] # None
          /\ reply' = [reply EXCEPT ![c] = None]
      BY <2>2, <2>4 DEF OffersInv, ChanTypes
    <3>3. OffersInv'
      BY <2>1, <3>1, <3>2, OffersMove DEF control
    <3>4. \A s \in Clients : conn'[s] \in Early => sessions[s] = None
      BY <3>1 DEF ChanTypes, MapInv, StopInv
    <3>5. \A s \in Clients : sessions[s] # None /\ StopComes(s) => StopComes(s)'
      <4>1. conn'[c] \in Early \cup {"closed"} => sessions[c] = None
        BY <3>1 DEF ChanTypes, MapInv, StopInv
      <4>2. \A s \in Clients : s # c => conn'[s] = conn[s]
        BY <3>1 DEF ChanTypes
      <4> QED BY <2>1, <4>1, <4>2 DEF StopComes, Early
    <3>6. MapInv'
      BY <2>1, <3>4, <3>5, MapStays DEF control
    <3> QED BY <3>3, <3>6
  <2> QED BY <2>3, <2>4
<1> QED BY <1>1, <1>2, <1>3 DEF Handler

(* The command loop.                                                       *)
LEMMA ServeLeaks ==
  ASSUME LeakInv, TakeOffer \/ TakeIce \/ TakeStop
  PROVE  OffersInv' /\ MapInv'
<1> USE DEF LeakInv
<1> DEFINE m == Head(chan)
           s == m.of
<1>1. /\ loop = "idle" /\ chan # <<>> /\ chan' = Tail(chan)
      /\ UNCHANGED <<conn, reply, shutdown>>
  BY DEF TakeOffer, TakeIce, TakeStop, Serve, socket
<1>2. m \in Commanded /\ s \in Clients
  BY <1>1, Heard DEF Commanded
<1>3. serving = None
  BY <1>1 DEF OffersInv
<1>4. CASE TakeIce
  <2>1. UNCHANGED control /\ m.do = "ice"
    BY <1>4 DEF TakeIce, Serve
  <2>2. \A r \in Clients : StopComes(r) => StopComes(r)'
    <3> SUFFICES ASSUME NEW r \in Clients, StopComes(r) PROVE StopComes(r)'
      OBVIOUS
    <3>1. m # [do |-> "stop", of |-> r]
      BY <2>1
    <3> QED BY <1>1, <3>1, Unstopped
  <2>3. MapInv'
    BY <1>1, <2>1, <2>2, MapStays DEF control, MapInv, StopInv
  <2> QED BY <1>1, <2>1, <2>3, OffersHeard DEF control
<1>5. CASE TakeStop \/ TakeOffer
  <2>1. StopSession(s) /\ m.do \in {"stop", "offer"}
    BY <1>5 DEF TakeStop, TakeOffer, Replaced, Serve
  <2>2. /\ MapsTo' /\ sessions'[s] = None
        /\ \A r \in Clients \ {s} : sessions'[r] = sessions[r]
    BY <1>2, <2>1, StopLeaves DEF MapInv
  <2>3. OffersInv'
    BY <1>1, <1>5, OffersHeard DEF TakeStop, TakeOffer, Serve
  <2>4. serving' # None => sessions'[serving'] = None
    BY <1>3, <1>5, <2>2 DEF TakeStop, TakeOffer
  <2>5. loop' \notin {"drained", "done"}
    BY <1>1, <1>5 DEF TakeStop, TakeOffer
  <2>6. \A r \in Clients : sessions'[r] # None => StopComes(r)'
    <3> SUFFICES ASSUME NEW r \in Clients, sessions'[r] # None PROVE StopComes(r)'
      OBVIOUS
    <3>1. r # s /\ sessions[r] # None
      BY <2>2
    <3>2. StopComes(r)
      BY <3>1 DEF MapInv, StopInv
    <3>3. m # [do |-> "stop", of |-> r]
      BY <3>1
    <3> QED BY <1>1, <3>2, <3>3, Unstopped
  <2>7. \A r \in Clients : conn'[r] \in Early => sessions'[r] = None
    BY <1>1, <2>2 DEF MapInv, StopInv
  <2> QED BY <2>2, <2>3, <2>4, <2>5, <2>6, <2>7 DEF MapInv, StopInv
<1> QED BY <1>4, <1>5

LEMMA OfferLeaks ==
  ASSUME LeakInv, OfferHandled
  PROVE  OffersInv' /\ MapInv'
<1> USE DEF LeakInv
<1>1. /\ serving \in Clients /\ serving' = None /\ loop' = "idle"
      /\ UNCHANGED <<conn, chan, shutdown>>
  BY DEF OfferHandled, OffersInv, ChanTypes
<1>2. /\ ~InChan(Offer(serving)) /\ conn[serving] = "awaiting" /\ sessions[serving] = None
  BY <1>1, WebAssumption DEF OffersInv, MapInv, StopInv
<1>3. \A s \in Clients : s # serving => reply'[s] = reply[s]
  BY DEF OfferHandled, ChanTypes
<1>4. OffersInv'
  <2>1. \A s \in Clients : InChan(Offer(s))' => InChan(Offer(s)) /\ s # serving
    BY <1>1, <1>2 DEF InChan, Offer
  <2>2. \A s \in Clients : serving' # s
    BY <1>1, WebAssumption
  <2>3. \A s \in Clients : conn[s] # "awaiting" => s # serving
    BY <1>2
  <2> QED BY <1>1, <1>3, <2>1, <2>2, <2>3 DEF OffersInv
<1>5. \A s \in Clients : StopComes(s)' <=> StopComes(s)
  BY <1>1 DEF StopComes
<1>6. CASE UNCHANGED <<ice, pump, sessions>>
  <2>1. MapsTo'
    BY <1>6 DEF MapInv, MapsTo
  <2>2. StopInv'
    BY <1>1, <1>5, <1>6 DEF MapInv, StopInv
  <2> QED BY <1>4, <2>1, <2>2 DEF MapInv
<1>7. CASE ~UNCHANGED <<ice, pump, sessions>>
  <2>1. PICK p \in Peers :
          /\ Unused(p)
          /\ ice' = [ice EXCEPT ![p] = [st |-> "live", of |-> serving]]
          /\ pump' = [pump EXCEPT ![p] = "on"]
          /\ sessions' = [sessions EXCEPT ![serving] = p]
    BY <1>7 DEF OfferHandled
  <2>2. /\ ice'[p] = [st |-> "live", of |-> serving] /\ sessions'[serving] = p
        /\ \A q \in Peers \ {p} : ice'[q] = ice[q] /\ pump'[q] = pump[q]
        /\ \A s \in Clients \ {serving} : sessions'[s] = sessions[s]
    BY <1>1, <2>1 DEF ChanTypes
  <2>3. ice[p].st = "free"
    BY <2>1 DEF Unused, Free
  <2>4. \A q \in Peers : ice'[q].st # "free" => ice'[q].of # None /\ sessions'[ice'[q].of] = q
    <3> SUFFICES ASSUME NEW q \in Peers, ice'[q].st # "free", q # p
                 PROVE  ice'[q].of # None /\ sessions'[ice'[q].of] = q
      BY <1>1, <2>2, WebAssumption
    <3>1. ice[q].of \in Clients /\ sessions[ice[q].of] = q
      BY <2>2 DEF MapInv, MapsTo, ChanTypes
    <3>2. ice[q].of # serving
      BY <1>2, <3>1, WebAssumption
    <3> QED BY <2>2, <3>1, <3>2, WebAssumption
  <2>5. \A q \in Peers : pump'[q] = "on" => ice'[q].st # "free"
    <3>1. ice'[p].st # "free"
      BY <2>2
    <3> QED BY <2>2, <3>1 DEF MapInv, MapsTo
  <2>6. \A s \in Clients : sessions'[s] # None
          => ice'[sessions'[s]].st # "free" /\ ice'[sessions'[s]].of = s
    <3> SUFFICES ASSUME NEW s \in Clients, sessions'[s] # None, s # serving
                 PROVE  ice'[sessions'[s]].st # "free" /\ ice'[sessions'[s]].of = s
      BY <1>1, <2>2
    <3>1. sessions'[s] = sessions[s] /\ sessions[s] \in Peers /\ sessions[s] # None
      BY <2>2 DEF ChanTypes
    <3>2. ice[sessions[s]].st # "free" /\ ice[sessions[s]].of = s
      BY <3>1 DEF MapInv, MapsTo
    <3>3. sessions[s] # p
      BY <2>3, <3>2
    <3> QED BY <2>2, <3>1, <3>2, <3>3
  <2>7. StopInv'
    <3>1. StopComes(serving) /\ conn[serving] \notin Early
      BY <1>2 DEF StopComes, Early
    <3>2. \A s \in Clients : sessions'[s] # None => StopComes(s)'
      BY <1>5, <2>2, <3>1 DEF MapInv, StopInv
    <3>3. \A s \in Clients : conn'[s] \in Early => sessions'[s] = None
      BY <1>1, <2>2, <3>1 DEF MapInv, StopInv
    <3> QED BY <1>1, <3>2, <3>3 DEF StopInv
  <2>8. MapsTo'
    BY <2>4, <2>5, <2>6 DEF MapsTo
  <2> QED BY <1>4, <2>7, <2>8 DEF MapInv
<1> QED BY <1>6, <1>7

LEMMA DrainLeaks ==
  ASSUME LeakInv, StopAll \/ LoopReturns
  PROVE  OffersInv' /\ MapInv'
<1> USE DEF LeakInv
<1>1. CASE StopAll
  <2>1. /\ loop = "idle" /\ loop' = "drained"
        /\ sessions' = [s \in Clients |-> None]
        /\ ice' = [p \in Peers |-> Free]
        /\ pump' = [p \in Peers |-> IF pump[p] = "on" THEN "told" ELSE pump[p]]
        /\ UNCHANGED <<conn, reply, chan, serving, shutdown>>
    BY <1>1 DEF StopAll, socket
  <2>2. OffersInv'
    BY <2>1 DEF OffersInv, InChan, Offer
  <2>3. MapsTo'
    BY <2>1 DEF MapsTo, Free
  <2>4. StopInv'
    <3>1. serving' = None
      BY <2>1 DEF OffersInv
    <3> QED BY <2>1, <3>1 DEF StopInv
  <2> QED BY <2>2, <2>3, <2>4 DEF MapInv
<1>2. CASE LoopReturns
  <2>1. /\ loop = "drained" /\ loop' = "done" /\ chan' = <<>>
        /\ UNCHANGED <<conn, serving, sessions, ice, pump, shutdown>>
        /\ \A c \in Clients : reply'[c] # reply[c] => conn[c] = "awaiting"
    BY <1>2 DEF LoopReturns
  <2>2. serving = None /\ \A s \in Clients : sessions[s] = None
    BY <2>1 DEF OffersInv, MapInv, StopInv
  <2>3. DOMAIN chan' = {}
    BY <2>1
  <2>4. OffersInv'
    BY <2>1, <2>2, <2>3, WebAssumption DEF OffersInv, InChan
  <2>5. MapsTo'
    BY <2>1 DEF MapInv, MapsTo
  <2>6. StopInv'
    BY <2>1, <2>2 DEF StopInv
  <2> QED BY <2>4, <2>5, <2>6 DEF MapInv
<1> QED BY <1>1, <1>2

LEMMA PeerLeaks ==
  ASSUME LeakInv, NEW p \in Peers, PeerConnection(p) \/ ConnectionFails(p)
  PROVE  OffersInv' /\ MapInv'
<1> USE DEF LeakInv
<1>1. CASE PumpEnds(p)
  <2>1. /\ pump' = [pump EXCEPT ![p] = "off"]
        /\ UNCHANGED <<conn, reply, chan, loop, serving, sessions, ice, shutdown>>
    BY <1>1 DEF PumpEnds, socket
  <2>2. \A q \in Peers : pump'[q] = "on" => pump[q] = "on"
    BY <2>1 DEF ChanTypes
  <2>3. MapsTo'
    BY <2>1, <2>2 DEF MapInv, MapsTo
  <2>4. StopInv'
    BY <2>1 DEF MapInv, StopInv, StopComes
  <2> QED BY <2>1, <2>3, <2>4, OffersStay DEF MapInv
<1>2. CASE ConnectionFails(p)
  <2>1. /\ ice' = [ice EXCEPT ![p].st = "failed"] /\ ice[p].st = "live"
        /\ UNCHANGED <<conn, reply, chan, loop, serving, sessions, pump, shutdown>>
    BY <1>2 DEF ConnectionFails, socket
  <2>2. \A q \in Peers : ice'[q].of = ice[q].of /\ (ice'[q].st # "free" <=> ice[q].st # "free")
    BY <2>1 DEF ChanTypes
  <2>3. MapsTo'
    BY <2>1, <2>2 DEF MapInv, MapsTo, ChanTypes
  <2>4. StopInv'
    BY <2>1 DEF MapInv, StopInv, StopComes
  <2> QED BY <2>1, <2>3, <2>4, OffersStay DEF MapInv
<1>3. CASE FailureReported(p)
  <2>1. UNCHANGED <<conn, reply, control, shutdown>> /\ failing[p] \in Clients
    BY <1>3 DEF FailureReported, socket, ChanTypes
  <2>2. CASE chan' = chan
    <3>1. MapInv'
      BY <2>1, <2>2, MapStays DEF control, MapInv, StopInv, StopComes
    <3> QED BY <2>1, <2>2, <3>1, OffersStay DEF control
  <2>3. CASE chan' = Append(chan, [do |-> "stop", of |-> failing[p]])
    <3>1. OffersInv'
      BY <2>1, <2>3, OffersSaid DEF control
    <3>2. DOMAIN chan \subseteq DOMAIN chan' /\ \A i \in DOMAIN chan : chan'[i] = chan[i]
      BY <2>1, <2>3, Said
    <3>3. \A s \in Clients : StopComes(s) => StopComes(s)'
      BY <2>1, <3>2 DEF StopComes
    <3>4. MapInv'
      BY <2>1, <3>3, MapStays DEF control, MapInv, StopInv
    <3> QED BY <3>1, <3>4
  <2> QED BY <1>3, <2>2, <2>3 DEF FailureReported
<1> QED BY <1>1, <1>2, <1>3 DEF PeerConnection

LEMMA LeakStep ==
  LeakInv /\ [Next]_vars => LeakInv'
<1> SUFFICES ASSUME LeakInv, [Next]_vars PROVE OffersInv' /\ MapInv'
  BY TypesStep DEF LeakInv
<1>1. CASE \/ \E w \in Writers : Write(w) \/ Publish(w)
           \/ SpectrumData \/ vars' = vars \/ RequestShutdown
           \/ \E c \in Clients : ClientCloses(c) \/ ClientVanishes(c)
           \/ \E p \in Peers : CandidateFound(p)
  <2>1. UNCHANGED <<chan, conn, reply, control>> /\ (shutdown => shutdown')
    <3>1. CASE RequestShutdown
      BY <3>1 DEF RequestShutdown, socket, control
    <3>2. CASE \E w \in Writers : Write(w) \/ Publish(w)
      <4> PICK w \in Writers : Write(w) \/ Publish(w)
        BY <3>2
      <4>1. UNCHANGED <<socket, chan, control, shutdown>>
        BY DEF Write, Publish
      <4> QED BY <4>1 DEF socket
    <3>3. CASE \E c \in Clients : ClientCloses(c) \/ ClientVanishes(c)
      BY <3>3 DEF ClientCloses, ClientVanishes, control
    <3>4. CASE \E p \in Peers : CandidateFound(p)
      BY <3>4 DEF CandidateFound, socket, control
    <3>5. CASE vars' = vars
      BY <3>5 DEF vars, socket, control
    <3>6. CASE SpectrumData
      BY <3>6 DEF SpectrumData, socket, control
    <3> QED BY <1>1, <3>1, <3>2, <3>3, <3>4, <3>5, <3>6
  <2>2. OffersInv'
    BY <2>1, OffersStay DEF LeakInv, control
  <2>3. MapInv'
    BY <2>1, MapStays DEF LeakInv, control, MapInv, StopInv, StopComes
  <2> QED BY <2>2, <2>3
<1>2. CASE \E c \in Clients : Connect(c) \/ Handler(c) \/ GivesUp(c)
  BY <1>2, HandlerLeaks
<1>3. CASE CommandLoop
  BY <1>3, ServeLeaks, OfferLeaks, DrainLeaks DEF CommandLoop
<1>4. CASE \E p \in Peers : PeerConnection(p) \/ ConnectionFails(p)
  BY <1>4, PeerLeaks
<1> QED BY <1>1, <1>2, <1>3, <1>4 DEF Next

(* Whatever is alive is in the map, and whatever is in the map will be stopped, *)
(* however offers, Stops, failures, closing sockets and the shutdown meet       *)
(* (webrtc_rs.rs 134-136, 248-266, server.rs 230-245).                        *)
THEOREM NoSessionLeaks == Spec => []NoLeakedSession
<1>1. LeakInv => NoLeakedSession
  BY DEF LeakInv, MapInv, MapsTo, StopInv, NoLeakedSession
<1> QED
  BY <1>1, LeakInit, LeakStep, PTL DEF Spec

-----------------------------------------------------------------------------
(* Listeners. A permit is with stream_limit or with a client that is fed.     *)
Fed == {c \in Listeners : http[c] # "none"}

PermitInv ==
  /\ http \in [Listeners -> {"none", "spawning", "streaming"}]
  /\ permits \in Nat
  /\ permits + Cardinality(Fed) = STREAM_MAX

LEMMA FedFinite ==
  IsFiniteSet(Fed) /\ Cardinality(Fed) \in Nat
BY AudioAssumption, FS_Subset, FS_CardinalityType DEF Fed

LEMMA FedGrows ==
  ASSUME NEW c \in Listeners, PermitInv, http[c] = "none",
         NEW st \in {"spawning", "streaming"}, http' = [http EXCEPT ![c] = st]
  PROVE  Cardinality(Fed') = Cardinality(Fed) + 1
<1>1. Fed' = Fed \cup {c} /\ c \notin Fed
  BY DEF Fed, PermitInv
<1> QED
  BY <1>1, FedFinite, FS_AddElement

LEMMA FedShrinks ==
  ASSUME NEW c \in Listeners, PermitInv, http[c] # "none",
         http' = [http EXCEPT ![c] = "none"]
  PROVE  Cardinality(Fed') = Cardinality(Fed) - 1
<1>1. Fed' = Fed \ {c} /\ c \in Fed
  BY DEF Fed, PermitInv
<1> QED
  BY <1>1, FedFinite, FS_RemoveElement

LEMMA PermitStep == PermitInv /\ [AudioNext]_audioVars => PermitInv'
<1> SUFFICES ASSUME PermitInv, [AudioNext]_audioVars PROVE PermitInv'
  OBVIOUS
<1>1. ASSUME UNCHANGED <<http, permits>> PROVE PermitInv'
  BY <1>1 DEF PermitInv, Fed
<1>2. CASE SoundNext \/ UNCHANGED audioVars
  <2>1. UNCHANGED streams
    BY <1>2 DEF SoundNext, SpawnTool, ReadSome, ReadFrame, ToolEnds, Subscribe,
         Recv, Lagged, Encoded, NotEncoded, SendPacket, PumpFails, StopPump,
         PumpStops, audioVars
  <2> QED
    BY <1>1, <2>1 DEF streams
<1>3. ASSUME NEW c \in Listeners, Acquire(c)
      PROVE  PermitInv'
  <2>1. Cardinality(Fed') = Cardinality(Fed) + 1
    BY <1>3, FedGrows DEF Acquire
  <2> QED
    BY <1>3, <2>1, FedFinite DEF Acquire, PermitInv
<1>4. ASSUME NEW c \in Listeners, Respond(c)
      PROVE  PermitInv'
  <2>1. Fed' = Fed
    BY <1>4 DEF Respond, PermitInv, Fed
  <2> QED
    BY <1>4, <2>1 DEF Respond, PermitOfBody, PermitInv
<1>5. ASSUME NEW c \in Listeners, SpawnFails(c) \/ PipelineEnds(c) \/ Disconnect(c)
      PROVE  PermitInv'
  <2>1. http[c] # "none" /\ http' = [http EXCEPT ![c] = "none"]
        /\ permits' = permits + 1
    BY <1>5 DEF SpawnFails, PipelineEnds, Disconnect
  <2>2. Cardinality(Fed') = Cardinality(Fed) - 1
    BY <2>1, FedShrinks
  <2> QED
    BY <2>1, <2>2, FedFinite DEF PermitInv
<1>6. ASSUME NEW c \in Listeners, OrphanEnds(c)
      PROVE  PermitInv'
  BY <1>1, <1>6 DEF OrphanEnds
<1> QED
  BY <1>2, <1>3, <1>4, <1>5, <1>6 DEF AudioNext, StreamNext

(* Whichever way pipelines end, at most STREAM_MAX clients are fed, and the    *)
(* permits all come back (stream.rs 83-121).                                *)
THEOREM StreamsHold == AudioSpec => []StreamsBounded
<1>1. AudioInit => PermitInv
  <2> SUFFICES ASSUME AudioInit PROVE PermitInv
    OBVIOUS
  <2>1. Fed = {}
    BY DEF AudioInit, Fed
  <2> QED
    BY <2>1, AudioAssumption, FS_EmptySet DEF AudioInit, PermitInv
<1>2. PermitInv => StreamsBounded
  BY FedFinite, FS_EmptySet, AudioAssumption DEF PermitInv, StreamsBounded, Fed
<1> QED
  BY <1>1, <1>2, PermitStep, PTL DEF AudioSpec

-----------------------------------------------------------------------------
(* Frames. What was read of a process and is on the bus ends where the bytes  *)
(* of the frame that is being filled begin.                                 *)
Tools  == [no : Nat, up : BOOLEAN, read : Nat]
Frames == [no : Nat, at : Nat]

(* The first byte that no frame on the bus has, of the bytes of the process.   *)
Begun ==
  IF Len(pcm) > 0 /\ pcm[Len(pcm)].no = tool.no
  THEN pcm[Len(pcm)].at + FRAME ELSE 0

FrameInv ==
  /\ tool \in Tools
  /\ partial \in 0 .. FRAME - 1
  /\ pcm \in Seq(Frames)
  /\ \A i \in 1 .. Len(pcm) : pcm[i].no <= tool.no
  /\ IF tool.up THEN tool.read = Begun + partial ELSE partial = 0

LEMMA SeqElements ==
  ASSUME NEW S, NEW s \in Seq(S)
  PROVE  /\ DOMAIN s = 1 .. Len(s) /\ Len(s) \in Nat
         /\ \A i \in 1 .. Len(s) : s[i] \in S
OBVIOUS

LEMMA ToolReads ==
  ASSUME NEW t \in Tools, NEW r \in Nat
  PROVE  /\ [t EXCEPT !.read = r] \in Tools
         /\ [t EXCEPT !.read = r].no = t.no
         /\ [t EXCEPT !.read = r].up = t.up
         /\ [t EXCEPT !.read = r].read = r
         /\ t.no \in Nat /\ t.read \in Nat
BY DEF Tools

LEMMA BusTypes ==
  ASSUME FrameInv
  PROVE  /\ DOMAIN pcm = 1 .. Len(pcm) /\ Len(pcm) \in Nat
         /\ \A i \in 1 .. Len(pcm) : pcm[i].no \in Nat /\ pcm[i].at \in Nat
         /\ tool.no \in Nat /\ tool.read \in Nat /\ partial \in Nat
         /\ FRAME \in Nat \ {0} /\ Begun \in Nat
<1>1. DOMAIN pcm = 1 .. Len(pcm) /\ Len(pcm) \in Nat
  BY SeqElements DEF FrameInv
<1>2. \A i \in 1 .. Len(pcm) : pcm[i].no \in Nat /\ pcm[i].at \in Nat
  <2>1. \A i \in 1 .. Len(pcm) : pcm[i] \in Frames
    BY SeqElements DEF FrameInv
  <2> QED
    BY <2>1 DEF Frames
<1>3. tool.no \in Nat /\ tool.read \in Nat
  BY DEF FrameInv, Tools
<1>4. FRAME \in Nat \ {0}
  BY AudioAssumption
<1>5. Begun \in Nat
  BY <1>1, <1>2, <1>4 DEF Begun
<1> QED
  BY <1>1, <1>2, <1>3, <1>4, <1>5 DEF FrameInv

LEMMA SpawnKeeps == FrameInv /\ SpawnTool => FrameInv'
<1> SUFFICES ASSUME FrameInv, SpawnTool PROVE FrameInv'
  OBVIOUS
<1>1. tool' = [no |-> tool.no + 1, up |-> TRUE, read |-> 0]
      /\ partial' = partial /\ pcm' = pcm /\ ~tool.up
  BY DEF SpawnTool
<1>2. tool' \in Tools
  BY <1>1, BusTypes DEF Tools
<1>3. tool'.no = tool.no + 1 /\ tool'.up /\ tool'.read = 0
  BY <1>1
<1>4. \A i \in 1 .. Len(pcm') : pcm'[i].no <= tool.no
  BY <1>1 DEF FrameInv
<1>5. Begun' = 0
  <2>1. \A i \in 1 .. Len(pcm') : pcm'[i].no # tool'.no
    BY <1>1, <1>3, <1>4, BusTypes
  <2>2. DOMAIN pcm' = 1 .. Len(pcm') /\ Len(pcm') \in Nat
    BY <1>1, BusTypes
  <2> QED
    BY <2>1, <2>2 DEF Begun
<1>6. /\ pcm' \in Seq(Frames) /\ partial' = 0
      /\ \A i \in 1 .. Len(pcm') : pcm'[i].no <= tool'.no
  BY <1>1, <1>3, <1>4, BusTypes DEF FrameInv
<1>7. 0 \in 0 .. FRAME - 1
  BY BusTypes
<1> QED
  BY <1>2, <1>3, <1>5, <1>6, <1>7 DEF FrameInv

LEMMA ReadKeeps == FrameInv /\ ReadSome => FrameInv'
<1> SUFFICES ASSUME FrameInv, ReadSome PROVE FrameInv'
  OBVIOUS
<1>1. PICK n \in 1 .. FRAME - 1 :
        partial + n < FRAME /\ partial' = partial + n
        /\ tool' = [tool EXCEPT !.read = tool.read + n]
  BY DEF ReadSome
<1>2. tool' \in Tools /\ tool'.no = tool.no /\ tool'.up = tool.up
      /\ tool'.read = tool.read + n
  <2>1. tool.read + n \in Nat /\ tool \in Tools
    BY BusTypes DEF FrameInv
  <2> QED
    BY <1>1, <2>1, ToolReads
<1>3. pcm' = pcm /\ tool.up
  BY DEF ReadSome
<1>4. Begun' = Begun
  BY <1>2, <1>3 DEF Begun
<1>5. partial' \in 0 .. FRAME - 1 /\ tool'.read = Begun' + partial'
  <2>1. tool.read = Begun + partial
    BY <1>3 DEF FrameInv
  <2>2. /\ n \in Nat /\ partial \in Nat /\ Begun \in Nat /\ FRAME \in Nat
        /\ partial + n < FRAME
    BY <1>1, BusTypes
  <2> QED
    BY <1>1, <1>2, <1>4, <2>1, <2>2
<1>6. pcm' \in Seq(Frames) /\ \A i \in 1 .. Len(pcm') : pcm'[i].no <= tool'.no
  BY <1>2, <1>3 DEF FrameInv
<1> QED
  BY <1>2, <1>3, <1>5, <1>6 DEF FrameInv

LEMMA EndKeeps == FrameInv /\ ToolEnds => FrameInv'
<1> SUFFICES ASSUME FrameInv, ToolEnds PROVE FrameInv'
  OBVIOUS
<1>1. tool' = [no |-> tool.no, up |-> FALSE, read |-> 0]
  BY DEF ToolEnds, FrameInv, Tools
<1>2. tool' \in Tools /\ tool'.no = tool.no /\ ~tool'.up
  BY <1>1, BusTypes DEF Tools
<1>3. pcm' = pcm /\ partial' = 0
  BY DEF ToolEnds, DropPartial
<1> QED
  BY <1>2, <1>3, BusTypes DEF FrameInv

LEMMA FrameKeeps ==
  FrameInv /\ FramesWhole /\ ReadFrame => FrameInv' /\ FramesWhole'
<1> SUFFICES ASSUME FrameInv, FramesWhole, ReadFrame
             PROVE  FrameInv' /\ FramesWhole'
  OBVIOUS
<1> DEFINE frame == [no |-> tool.no, at |-> tool.read - partial]
<1>1. tool.up /\ pcm' = Append(pcm, frame) /\ partial' = 0
      /\ tool' = [tool EXCEPT !.read = tool.read + FRAME - partial]
  BY DEF ReadFrame
<1>2. tool.read - partial = Begun
  BY <1>1, BusTypes DEF FrameInv
<1>3. frame \in Frames /\ frame.no = tool.no /\ frame.at = Begun
  BY <1>2, BusTypes DEF Frames
<1> HIDE DEF frame
<1>4. /\ pcm' \in Seq(Frames) /\ Len(pcm') = Len(pcm) + 1
      /\ DOMAIN pcm' = 1 .. Len(pcm) + 1
      /\ pcm'[Len(pcm) + 1] = frame
      /\ \A i \in 1 .. Len(pcm) : pcm'[i] = pcm[i]
  BY <1>1, <1>3 DEF FrameInv
<1>5. tool.read + FRAME - partial = Begun + FRAME
  BY <1>2, BusTypes
<1>6. tool' \in Tools /\ tool'.no = tool.no /\ tool'.up = tool.up
      /\ tool'.read = Begun + FRAME
  <2>1. Begun + FRAME \in Nat /\ tool \in Tools
    BY BusTypes DEF FrameInv
  <2> QED
    BY <1>1, <1>5, <2>1, ToolReads
<1>7. Begun' = Begun + FRAME
  BY <1>3, <1>4, <1>6, BusTypes DEF Begun
<1>8. \A i \in 1 .. Len(pcm') : pcm'[i].no <= tool'.no
  <2> SUFFICES ASSUME NEW i \in 1 .. Len(pcm') PROVE pcm'[i].no <= tool'.no
    OBVIOUS
  <2>1. CASE i \in 1 .. Len(pcm)
    BY <1>4, <1>6, <2>1 DEF FrameInv
  <2>2. CASE i = Len(pcm) + 1
    <3>1. tool.no \in Nat
      BY BusTypes
    <3> QED
      BY <1>3, <1>4, <1>6, <2>2, <3>1
  <2>3. Len(pcm) \in Nat
    BY DEF FrameInv
  <2> QED
    BY <1>4, <2>1, <2>2, <2>3
<1>9. FrameInv'
  <2>1. partial' = 0 /\ 0 \in 0 .. FRAME - 1
    BY <1>1, BusTypes
  <2>2. tool'.read = Begun' + partial'
    BY <1>6, <1>7, <2>1, BusTypes
  <2> QED
    BY <1>1, <1>4, <1>6, <1>8, <2>1, <2>2 DEF FrameInv
<1>10. ASSUME NEW i \in DOMAIN pcm'
       PROVE  IF i > 1 /\ pcm'[i - 1].no = pcm'[i].no
              THEN pcm'[i].at = pcm'[i - 1].at + FRAME
              ELSE pcm'[i].at = 0
  <2>1. CASE i = Len(pcm) + 1
    <3>1. pcm'[i].at = Begun /\ pcm'[i].no = tool.no
          /\ (i > 1 => pcm'[i - 1] = pcm[Len(pcm)])
      BY <1>3, <1>4, <2>1, BusTypes
    <3> QED
      BY <2>1, <3>1, BusTypes DEF Begun
  <2>2. CASE i \in 1 .. Len(pcm)
    <3>1. pcm'[i] = pcm[i] /\ (i > 1 => pcm'[i - 1] = pcm[i - 1])
      BY <1>4, <2>2, BusTypes
    <3> QED
      BY <2>2, <3>1, BusTypes DEF FramesWhole
  <2> QED
    BY <1>4, <2>1, <2>2, BusTypes
<1> QED
  BY <1>9, <1>10 DEF FramesWhole

LEMMA FrameStep ==
  FrameInv /\ FramesWhole /\ [AudioNext]_audioVars => FrameInv' /\ FramesWhole'
<1> SUFFICES ASSUME FrameInv, FramesWhole, [AudioNext]_audioVars
             PROVE  FrameInv' /\ FramesWhole'
  OBVIOUS
<1>1. CASE SpawnTool \/ ReadSome \/ ToolEnds
  <2>1. FramesWhole'
    BY <1>1 DEF SpawnTool, ReadSome, ToolEnds, FramesWhole
  <2> QED
    BY <1>1, <2>1, SpawnKeeps, ReadKeeps, EndKeeps
<1>2. CASE ReadFrame
  BY <1>2, FrameKeeps
<1>3. CASE UNCHANGED capture
  BY <1>3 DEF capture, FramesWhole, FrameInv, Begun
<1>4. Subscribe \/ Recv \/ Lagged \/ Encoded \/ NotEncoded \/ SendPacket
        \/ PumpFails \/ StopPump \/ PumpStops \/ StreamNext \/ UNCHANGED audioVars
      => UNCHANGED capture
  BY DEF Subscribe, Recv, Lagged, Encoded, NotEncoded, SendPacket, PumpFails,
         StopPump, PumpStops, StreamNext, Acquire, Respond, SpawnFails,
         PipelineEnds, Disconnect, OrphanEnds, audioVars
<1> QED
  BY <1>1, <1>2, <1>3, <1>4 DEF AudioNext, SoundNext

LEMMA FrameInit == AudioInit => FrameInv /\ FramesWhole
<1> SUFFICES ASSUME AudioInit PROVE FrameInv /\ FramesWhole
  OBVIOUS
<1>1. FRAME \in Nat \ {0}
  BY AudioAssumption
<1>2. tool = [no |-> 0, up |-> FALSE, read |-> 0] /\ partial = 0 /\ pcm = <<>>
  BY DEF AudioInit
<1>3. tool \in Tools /\ ~tool.up
  BY <1>2 DEF Tools
<1> QED
  BY <1>1, <1>2, <1>3 DEF FrameInv, FramesWhole

-----------------------------------------------------------------------------
(* Packets. First, arithmetic modulo what a counter is counted modulo.       *)

LEMMA DivMod ==
  ASSUME NEW m \in Nat \ {0}, NEW x \in Int
  PROVE  /\ x \div m \in Int /\ x % m \in 0 .. m - 1
         /\ x = m * (x \div m) + (x % m)
BY Z3

LEMMA RemainderUnique ==
  ASSUME NEW m \in Nat \ {0}, NEW p \in Int, NEW q \in Int,
         NEW r \in 0 .. m - 1, NEW s \in 0 .. m - 1, m * p + r = m * q + s
  PROVE  r = s
<1>1. m * (p - q) = s - r
  BY Z3
<1>2. CASE p > q
  <2>1. m * (p - q) >= m
    BY <1>2, Z3
  <2> QED
    BY <1>1, <2>1
<1>3. CASE p < q
  <2>1. m * (p - q) <= 0 - m
    BY <1>3, Z3
  <2> QED
    BY <1>1, <2>1
<1>4. CASE p = q
  BY <1>4
<1> QED
  BY <1>2, <1>3, <1>4

(* A counter that wraps round does not see how often it did.                 *)
LEMMA Wraps ==
  ASSUME NEW m \in Nat \ {0}, NEW q \in Int, NEW z \in Int
  PROVE  (m * q + z) % m = z % m
<1> DEFINE x == m * q + z
<1>a. x \in Int
  BY Z3
<1> HIDE DEF x
<1>1. /\ x \div m \in Int /\ x % m \in 0 .. m - 1
      /\ x = m * (x \div m) + (x % m)
  BY <1>a, DivMod
<1>2. /\ z \div m \in Int /\ z % m \in 0 .. m - 1
      /\ z = m * (z \div m) + (z % m)
  BY DivMod
<1>3. x = m * (q + (z \div m)) + (z % m)
  BY <1>2 DEF x
<1>4. q + (z \div m) \in Int
  BY <1>2
<1>5. m * (x \div m) + (x % m) = m * (q + (z \div m)) + (z % m)
  BY <1>1, <1>3
<1>6. x % m = z % m
  BY <1>1, <1>2, <1>4, <1>5, RemainderUnique
<1> QED
  BY <1>6 DEF x

LEMMA AddWrapped ==
  ASSUME NEW m \in Nat \ {0}, NEW x \in Int, NEW y \in Int
  PROVE  ((x % m) + y) % m = (x + y) % m
<1> DEFINE q == x \div m
           z == (x % m) + y
<1>1. x = m * q + (x % m) /\ x % m \in Int /\ q \in Int
  BY DivMod
<1>2. x + y = m * q + z /\ z \in Int
  BY <1>1
<1> HIDE DEF q, z
<1>3. (m * q + z) % m = z % m
  BY <1>1, <1>2, Wraps
<1>4. (x + y) % m = z % m
  BY <1>2, <1>3
<1> QED
  BY <1>4 DEF z

LEMMA AddBothWrapped ==
  ASSUME NEW m \in Nat \ {0}, NEW x \in Int, NEW y \in Int
  PROVE  ((x % m) + (y % m)) % m = (x + y) % m
<1>1. x % m \in Int /\ y % m \in Int
  BY DivMod
<1>2. ((x % m) + y) % m = (x + y) % m
  BY AddWrapped
<1>3. ((y % m) + (x % m)) % m = (y + (x % m)) % m
  BY <1>1, AddWrapped
<1>4. (x % m) + (y % m) = (y % m) + (x % m) /\ y + (x % m) = (x % m) + y
  BY <1>1
<1> QED
  BY <1>2, <1>3, <1>4

-----------------------------------------------------------------------------
(* The frames that the timeline counts: those taken or skipped since the pump  *)
(* subscribed, but for the one in hand and those that were not encoded.      *)
InHand == IF opus \in {"encode", "send"} THEN 1 ELSE 0
Sent   == upto - first - unsent - InHand

TimeInv ==
  /\ upto \in Int /\ first \in Int /\ unsent \in Int
  /\ longest \in Int
  /\ opus \in {"none", "recv", "encode", "send", "ended"}
  /\ opus = "none" => /\ packet.frame = 0 /\ unsent = 0
                      /\ timestamp = 0 /\ sequence = 0
  /\ opus \in {"recv", "encode", "send"} /\ longest < STAMPS =>
       timestamp = (Sent * TICKS) % STAMPS /\ sequence = Sent % NUMBERS

PacketTimed ==
  packet.frame > 0 /\ longest < STAMPS =>
    LET elapsed == packet.frame - first - 1 - packet.unsent
    IN packet.ts = (elapsed * TICKS) % STAMPS /\ packet.seq = elapsed % NUMBERS

LEMMA Counters ==
  /\ TICKS \in Nat \ {0} /\ STAMPS \in Nat \ {0} /\ NUMBERS \in Nat \ {0}
  /\ PcmCap \in Nat
BY AudioAssumption

LEMMA OneMore ==
  ASSUME NEW s \in Int, NEW k \in Int
  PROVE  s * k \in Int /\ s * k + k = (s + 1) * k
BY Z3

LEMMA TimeStep ==
  FrameInv /\ TimeInv /\ PacketTimed /\ [AudioNext]_audioVars
    => TimeInv' /\ PacketTimed'
<1> SUFFICES ASSUME FrameInv, TimeInv, PacketTimed, [AudioNext]_audioVars
             PROVE  TimeInv' /\ PacketTimed'
  OBVIOUS
<1>1. ASSUME UNCHANGED <<opus, upto, first, timeline, packet, unsent, longest>>
      PROVE  TimeInv' /\ PacketTimed'
  BY <1>1 DEF TimeInv, PacketTimed, Sent, InHand, timeline
<1>2. SpawnTool \/ ReadSome \/ ReadFrame \/ ToolEnds \/ StopPump \/ StreamNext
        \/ UNCHANGED audioVars
      => UNCHANGED <<opus, upto, first, timeline, packet, unsent, longest>>
  BY DEF SpawnTool, ReadSome, ReadFrame, ToolEnds, StopPump, StreamNext, Acquire,
         Respond, SpawnFails, PipelineEnds, Disconnect, OrphanEnds, audioVars,
         sender
<1>3. CASE Subscribe
  <2>1. Len(pcm) \in Int
    BY BusTypes
  <2>2. Sent' = 0
    <3>1. opus' = "recv" /\ upto' = Len(pcm) /\ first' = Len(pcm) /\ unsent' = 0
      BY <1>3 DEF Subscribe, TimeInv
    <3>2. InHand' = 0
      BY <3>1 DEF InHand
    <3> QED
      BY <2>1, <3>1, <3>2 DEF Sent
  <2>3. (0 * TICKS) % STAMPS = 0 /\ 0 % NUMBERS = 0
    BY Counters
  <2>4. PacketTimed'
    BY <1>3 DEF Subscribe, TimeInv, PacketTimed
  <2> QED
    BY <1>3, <2>1, <2>2, <2>3, <2>4 DEF Subscribe, TimeInv, timeline
<1>4. CASE Recv \/ Encoded \/ NotEncoded
  <2>1. Sent' = Sent /\ opus \in {"recv", "encode"} /\ upto' \in Int /\ unsent' \in Int
        /\ opus' \in {"recv", "encode", "send"}
    BY <1>4 DEF Recv, Encoded, NotEncoded, Sent, InHand, TimeInv
  <2>2. UNCHANGED <<first, timestamp, sequence, packet, longest>>
    BY <1>4 DEF Recv, Encoded, NotEncoded, timeline
  <2> QED
    BY <2>1, <2>2 DEF TimeInv, PacketTimed
<1>5. CASE Lagged
  <2> DEFINE n == Waiting - PcmCap
  <2>1. n \in Int /\ Sent \in Int /\ upto' = upto + n /\ upto' \in Int
    BY <1>5, BusTypes, Counters DEF Lagged, Waiting, TimeInv, Sent, InHand
  <2>2. /\ UNCHANGED <<opus, first, packet, unsent>> /\ opus = "recv"
        /\ longest' = IF n > longest THEN n ELSE longest
        /\ timestamp' = (timestamp + ((TICKS * Clamped(n)) % STAMPS)) % STAMPS
        /\ sequence' = (sequence + (Clamped(n) % NUMBERS)) % NUMBERS
    BY <1>5 DEF Lagged, Skip
  <2> HIDE DEF n
  <2>a. longest \in Int /\ longest' \in Int
    BY <2>1, <2>2 DEF TimeInv
  <2>b. longest' < STAMPS => longest < STAMPS /\ Clamped(n) = n
    BY <2>1, <2>2, <2>a, Counters DEF Clamped
  <2>3. Sent' = Sent + n
    BY <2>1, <2>2 DEF Sent, InHand, TimeInv
  <2>4. ASSUME longest' < STAMPS
        PROVE  timestamp' = (Sent' * TICKS) % STAMPS
    <3> DEFINE x == Sent * TICKS
               y == TICKS * n
    <3>1. x \in Int /\ y \in Int /\ x + y = (Sent + n) * TICKS
      BY <2>1, Counters
    <3>2. timestamp = x % STAMPS
      BY <2>2, <2>4, <2>b DEF TimeInv
    <3>3. timestamp' = ((x % STAMPS) + (y % STAMPS)) % STAMPS
      BY <2>2, <2>4, <2>b, <3>2
    <3> HIDE DEF x, y
    <3>4. timestamp' = (x + y) % STAMPS
      BY <3>1, <3>3, AddBothWrapped, Counters
    <3> QED
      BY <2>3, <3>1, <3>4
  <2>5. ASSUME longest' < STAMPS
        PROVE  sequence' = Sent' % NUMBERS
    <3>1. ((Sent % NUMBERS) + (n % NUMBERS)) % NUMBERS = (Sent + n) % NUMBERS
      BY <2>1, AddBothWrapped, Counters
    <3> QED
      BY <2>1, <2>2, <2>3, <2>5, <2>b, <3>1 DEF TimeInv
  <2>6. PacketTimed'
    BY <2>2, <2>b DEF PacketTimed
  <2> QED
    BY <2>1, <2>2, <2>4, <2>5, <2>6, <2>a DEF TimeInv
<1>6. CASE SendPacket
  <2>1. /\ opus = "send" /\ opus' = "recv"
        /\ UNCHANGED <<upto, first, unsent, longest>>
        /\ packet' = [frame |-> upto, ts |-> timestamp, seq |-> sequence,
                      unsent |-> unsent]
        /\ timestamp' = (timestamp + TICKS) % STAMPS
        /\ sequence' = (sequence + 1) % NUMBERS
    BY <1>6 DEF SendPacket
  <2>2. Sent = upto - first - 1 - unsent /\ Sent \in Int /\ Sent' = Sent + 1
    BY <2>1 DEF Sent, InHand, TimeInv
  <2>3. longest < STAMPS =>
          timestamp = (Sent * TICKS) % STAMPS /\ sequence = Sent % NUMBERS
    BY <2>1 DEF TimeInv
  <2>4. ASSUME longest < STAMPS
        PROVE  timestamp' = (Sent' * TICKS) % STAMPS
    <3> DEFINE x == Sent * TICKS
    <3>a. Sent \in Int /\ TICKS \in Int
      BY <2>2, Counters
    <3> HIDE DEF Sent
    <3>1. x \in Int /\ x + TICKS = (Sent + 1) * TICKS
      BY <3>a, OneMore
    <3>2. timestamp' = ((x % STAMPS) + TICKS) % STAMPS
      BY <2>1, <2>3, <2>4
    <3> HIDE DEF x
    <3>3. timestamp' = (x + TICKS) % STAMPS
      BY <3>1, <3>2, <3>a, AddWrapped, Counters
    <3> QED
      BY <2>2, <3>1, <3>3
  <2>5. ASSUME longest < STAMPS
        PROVE  sequence' = Sent' % NUMBERS
    <3>1. ((Sent % NUMBERS) + 1) % NUMBERS = (Sent + 1) % NUMBERS
      BY <2>2, AddWrapped, Counters
    <3> QED
      BY <2>1, <2>2, <2>3, <2>5, <3>1
  <2>6. PacketTimed'
    BY <2>1, <2>2, <2>3 DEF PacketTimed
  <2> QED
    BY <2>1, <2>4, <2>5, <2>6 DEF TimeInv
<1>7. CASE PumpFails \/ PumpStops
  <2>1. opus' = "ended" /\ UNCHANGED <<upto, first, packet, unsent, longest>>
    BY <1>7 DEF PumpFails, PumpStops
  <2> QED
    BY <2>1 DEF TimeInv, PacketTimed
<1> QED
  BY <1>1, <1>2, <1>3, <1>4, <1>5, <1>6, <1>7 DEF AudioNext, SoundNext

(* However often timestamp and sequence number wrap round, and however many    *)
(* frames are lost at a time, up to the number that a u32 counts and the clamp   *)
(* lets through, a packet carries the time of its frame, which is a whole one    *)
(* (rtp.rs 20-36, pump.rs 39-63).                                            *)
THEOREM PacketsHold == AudioSpec => []PacketsInTime
<1>1. AudioInit => TimeInv /\ PacketTimed
  BY DEF AudioInit, TimeInv, PacketTimed
<1>2. AudioInit => FrameInv /\ FramesWhole
  BY FrameInit
<1>3. FramesWhole /\ PacketTimed => PacketsInTime
  BY DEF PacketTimed, PacketsInTime
<1> QED
  BY <1>1, <1>2, <1>3, FrameStep, TimeStep, PTL DEF AudioSpec

-----------------------------------------------------------------------------
(* The latency that CaptureSetup derives, for every quantum and every rate.   *)

(* Rounding up: the smallest number of b that holds a.                       *)
LEMMA DivCeilHolds ==
  ASSUME NEW a \in Nat, NEW b \in Nat \ {0}
  PROVE  /\ DivCeil(a, b) \in Nat
         /\ DivCeil(a, b) * b >= a
<1> DEFINE n == a + b - 1
<1>1. n \in Nat /\ n \div b \in Nat
  BY SMT
<1>2. n = (b * (n \div b)) + (n % b) /\ n % b \in 0 .. b - 1
  BY <1>1, SMT
<1>3. (n \div b) * b >= a
  BY <1>1, <1>2, SMT
<1> QED BY <1>1, <1>3 DEF DivCeil

(* UB-1 (quantum.rs 19-21): the latency asked of parec lasts two quantum       *)
(* periods at least, and 50 ms at least, whatever quantum and rate PipeWire    *)
(* runs with, as long as two periods last less than 2^32 ms: beyond that the   *)
(* cast to u32 cuts them.                                                    *)
THEOREM LatencyExceedsQuantum ==
  ASSUME NEW quantum \in Nat, NEW rate \in Nat,
         DivCeil(2 * quantum * 1000, Rate(rate)) < U32
  PROVE  /\ CaptureLatencyMs(quantum, rate) \in Nat
         /\ CaptureLatencyMs(quantum, rate) >= FLOOR_MS
         /\ CaptureLatencyMs(quantum, rate) * Rate(rate) >= 2 * quantum * 1000
<1> DEFINE r == Rate(rate)
           periods == DivCeil(2 * quantum * 1000, r)
<1>1. r \in Nat \ {0}
  BY DEF Rate, DEFAULT_RATE
<1>2. 2 * quantum * 1000 \in Nat
  OBVIOUS
<1>3. periods \in Nat /\ periods * r >= 2 * quantum * 1000
  <2> HIDE DEF r
  <2> QED BY <1>1, <1>2, DivCeilHolds
<1>4. periods % U32 = periods
  <2>1. periods < U32 /\ U32 \in Nat
    BY U32Assumption
  <2> HIDE DEF periods
  <2> QED BY <1>3, <2>1
<1>5. CaptureLatencyMs(quantum, rate) = IF periods > FLOOR_MS THEN periods ELSE FLOOR_MS
  BY <1>4 DEF CaptureLatencyMs
<1>6. CASE periods > FLOOR_MS
  BY <1>3, <1>5, <1>6 DEF FLOOR_MS
<1>7. CASE ~(periods > FLOOR_MS)
  <2>1. CaptureLatencyMs(quantum, rate) = FLOOR_MS
    BY <1>5, <1>7
  <2>2. FLOOR_MS * r >= periods * r
    <3> HIDE DEF r, periods
    <3> QED BY <1>1, <1>3, <1>7 DEF FLOOR_MS
  <2> HIDE DEF r, periods
  <2> QED BY <1>1, <1>3, <2>1, <2>2 DEF FLOOR_MS, r
<1> QED BY <1>6, <1>7
=============================================================================
