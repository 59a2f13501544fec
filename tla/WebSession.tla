----------------------------- MODULE WebSession -----------------------------
(***************************************************************************)
(* The status socket and the WebRTC sessions behind it: AppStateHandle with  *)
(* its event bus (state.rs), ws_connection (web/server.rs) for every client, *)
(* the command loop (web/webrtc/command.rs) and the WebrtcController that     *)
(* it owns (web/webrtc/webrtc_rs.rs).                                       *)
(*                                                                         *)
(* Every task that changes AppState writes under the lock and publishes       *)
(* after it. A client subscribes, is sent a snapshot, and from then on the    *)
(* events; it signals its WebRTC session over the same socket, through one    *)
(* bounded channel that all clients and the callbacks of all peer            *)
(* connections share.                                                       *)
(*                                                                         *)
(* A value of AppState is its version; a session is named after its client.  *)
(***************************************************************************)
EXTENDS Naturals, Sequences, FiniteSets

CONSTANTS
  Clients,       \* status sockets, each with the session id it draws
  Peers,         \* bound: peer connections alive at one time
  None,
  BusCap,        \* capacity of the event bus (256)
  ChanCap,       \* capacity of the WebRTC command channel (32)
  PING,          \* WS_PING_INTERVAL (15 s)
  IDLE,          \* WS_IDLE_DEADLINE (35 s)
  MaxWrites,     \* bound: writes to each part of AppState
  MaxEvents,     \* bound: events ever published
  Environments   \* the sets of events among which a behaviour has one

(***************************************************************************)
(* "updates":  AppState changes;                                            *)
(* "spectrum": the spectrum task and the ICE agents flood the bus;           *)
(* "signals":  clients offer, trickle candidates and stop;                   *)
(* "fails":    a peer connection fails, or an offer cannot be answered;       *)
(* "silent":   a client vanishes without closing its socket;                 *)
(* "stops":    the process is asked to shut down.                           *)
(***************************************************************************)
EventKinds == {"updates", "spectrum", "signals", "fails", "silent", "stops"}

ASSUME WebAssumption ==
  /\ None \notin Clients \cup Peers \cup Nat
  /\ BusCap \in Nat \ {0} /\ ChanCap \in Nat \ {0}
  /\ PING \in Nat \ {0} /\ IDLE \in Nat
  /\ MaxWrites \in Nat /\ MaxEvents \in Nat
  /\ Environments \subseteq SUBSET EventKinds

VARIABLES
  state,     \* AppState: the version of each of its parts
  writing,   \* what each task has written and not yet published
  bus,       \* every event published so far
  conn,      \* the await ws_connection is at, per client
  next,      \* the bus receiver of a client: the next event to read
  lagged,    \* history: the receiver has skipped events
  view,      \* what the client has been sent last
  peer,      \* the browser's end of the socket
  idle,      \* ping intervals begun since the last inbound frame (modulo what
             \* the deadline lets it reach)
  reply,     \* the oneshot an offer is answered through
  chan,      \* WebRtcCommands sent and not received
  loop,      \* the await webrtc_command_loop is at
  serving,   \* the session whose offer it handles
  sessions,  \* the map of WebrtcController: the peer connection of a session
  ice,       \* the state of each peer connection, and whose it is
  pump,      \* its Opus pump
  failing,   \* the session whose Stop a failure callback has yet to send
  shutdown,
  events     \* the events that may happen in this behaviour; never changes

store    == <<state, writing>>
socket   == <<conn, next, lagged, view, peer, idle, reply>>
control  == <<loop, serving, sessions, ice, pump>>
vars     == <<store, bus, socket, chan, control, failing, shutdown, events>>

(* Media is written by the media manager and by its artwork lookups; every   *)
(* other part of AppState has one writer.                                   *)
Writers   == {"manager", "artwork", "controller"}
Kinds     == {"media", "eq"}
Written(w) == IF w = "controller" THEN "eq" ELSE "media"
OneWriter == {k \in Kinds : Cardinality({w \in Writers : Written(w) = k}) = 1}

Free   == [st |-> "free", of |-> None]

-----------------------------------------------------------------------------
(* AppStateHandle.                                                          *)

Pending == Cardinality({w \in Writers : writing[w] # None})

(* `set_media` and its like, up to the end of the write lock.               *)
Write(w) ==
  LET k == Written(w)
  IN /\ "updates" \in events
     /\ writing[w] = None
     /\ state[k] < MaxWrites
     /\ Len(bus) + Pending < MaxEvents
     /\ state' = [state EXCEPT ![k] = @ + 1]
     /\ writing' = [writing EXCEPT ![w] = state[k] + 1]
     /\ UNCHANGED <<bus, socket, chan, control, failing, shutdown, events>>

Publish(w) ==
  /\ writing[w] # None
  /\ bus' = Append(bus, [kind |-> Written(w), val |-> writing[w]])
  /\ writing' = [writing EXCEPT ![w] = None]
  /\ UNCHANGED <<state, socket, chan, control, failing, shutdown, events>>

Room == Len(bus) + Pending < MaxEvents

SpectrumData ==
  /\ "spectrum" \in events
  /\ Room
  /\ bus' = Append(bus, [kind |-> "spectrum", val |-> None])
  /\ UNCHANGED <<store, socket, chan, control, failing, shutdown, events>>

(* on_ice_candidate.                                                        *)
CandidateFound(p) ==
  /\ "spectrum" \in events
  /\ ice[p].st = "live"
  /\ Room
  /\ bus' = Append(bus, [kind |-> "candidate", val |-> ice[p].of])
  /\ UNCHANGED <<store, socket, chan, control, failing, shutdown, events>>

-----------------------------------------------------------------------------
(* ws_connection.                                                           *)

Goto(c, place) == conn' = [conn EXCEPT ![c] = place]

Connect(c) ==
  /\ conn[c] = "none"
  /\ ~shutdown
  /\ Goto(c, "subscribed")
  /\ next' = [next EXCEPT ![c] = Len(bus) + 1]
  /\ peer' = [peer EXCEPT ![c] = "on"]
  /\ UNCHANGED <<store, bus, lagged, view, idle, reply, chan, control, failing,
                 shutdown, events>>

(* The snapshot is one read of AppState; it is sent whole.                  *)
Snapshot(c) ==
  /\ conn[c] = "subscribed"
  /\ Goto(c, "greeting")
  /\ view' = [view EXCEPT ![c] = state]
  /\ UNCHANGED <<store, bus, next, lagged, peer, idle, reply, chan, control,
                 failing, shutdown, events>>

(* Variant: the bus is subscribed to once the snapshot is through.          *)
SubscribedLate(c) == Len(bus) + 1

Subscribed(c) == next[c]

(* A client that is gone by then is left without a Stop: it has no session.  *)
Greet(c) ==
  /\ conn[c] = "greeting"
  /\ next' = [next EXCEPT ![c] = Subscribed(c)]
  /\ \/ Goto(c, "open")
     \/ peer[c] # "on" /\ Goto(c, "closed")
  /\ UNCHANGED <<store, bus, lagged, view, peer, idle, reply, chan, control,
                 failing, shutdown, events>>

(* socket.send(..).await: written, refused by a closed socket, or parked      *)
(* because a client that is gone takes nothing off a full one.              *)
Send(c) ==
  \/ Goto(c, "open")
  \/ peer[c] = "closed" /\ Goto(c, "stopping")
  \/ peer[c] = "silent" /\ Goto(c, "sending")

GivesUp(c) ==
  /\ conn[c] = "sending"
  /\ Goto(c, "stopping")
  /\ UNCHANGED <<store, bus, next, lagged, view, peer, idle, reply, chan,
                 control, failing, shutdown, events>>

Unread(c) == Len(bus) + 1 - next[c]

(* event_to_ws_message and webrtc_out_for_session.                          *)
Forwarded(e, c) == e.kind = "candidate" => e.val = c

(* events.recv(): an event, or Lagged, which is passed over.                *)
Receive(c) ==
  /\ conn[c] = "open"
  /\ Unread(c) \in 1 .. BusCap
  /\ LET e == bus[next[c]]
     IN /\ view' = IF e.kind \in Kinds
                   THEN [view EXCEPT ![c][e.kind] = e.val]
                   ELSE view
        /\ IF Forwarded(e, c) THEN Send(c) ELSE UNCHANGED conn
  /\ next' = [next EXCEPT ![c] = @ + 1]
  /\ UNCHANGED <<store, bus, lagged, peer, idle, reply, chan, control, failing,
                 shutdown, events>>

Lag(c) ==
  /\ conn[c] = "open"
  /\ Unread(c) > BusCap
  /\ next' = [next EXCEPT ![c] = Len(bus) + 1 - BusCap]
  /\ lagged' = [lagged EXCEPT ![c] = TRUE]
  /\ UNCHANGED <<store, bus, conn, view, peer, idle, reply, chan, control,
                 failing, shutdown, events>>

(* A frame of the client: a Pong or the like, or a command to pass on.      *)
Inbound(c) ==
  /\ conn[c] = "open"
  /\ peer[c] = "on"
  /\ idle' = [idle EXCEPT ![c] = 0]
  /\ \/ idle[c] > 0 /\ Goto(c, "open")
     \/ "signals" \in events /\ \E cmd \in {"offer", "ice", "stop"} : Goto(c, cmd)
  /\ UNCHANGED <<store, bus, next, lagged, view, peer, reply, chan, control,
                 failing, shutdown, events>>

(* webrtc_tx.send(..).await, by a handler that goes on.                     *)
Pass(c) ==
  /\ conn[c] \in {"offer", "ice", "stop"}
  /\ IF loop = "done"
     THEN /\ Goto(c, "open")
          /\ UNCHANGED chan
     ELSE /\ Len(chan) < ChanCap
          /\ chan' = Append(chan, [do |-> conn[c], of |-> c])
          /\ Goto(c, IF conn[c] = "offer" THEN "awaiting" ELSE "open")
  /\ UNCHANGED <<store, bus, next, lagged, view, peer, idle, reply, control,
                 failing, shutdown, events>>

(* rrx.await: nothing else of the handler is polled meanwhile.              *)
Answered(c) ==
  /\ conn[c] = "awaiting"
  /\ reply[c] # None
  /\ reply' = [reply EXCEPT ![c] = None]
  /\ IF reply[c] = "answer" THEN Send(c) ELSE Goto(c, "open")
  /\ UNCHANGED <<store, bus, next, lagged, view, peer, idle, chan, control,
                 failing, shutdown, events>>

(* The ping timer fires once in each interval, whenever the last frame came:  *)
(* the n-th time after it at least n - 1 and, if the handler is not held up,   *)
(* at most n intervals later. Is the client given up then?                  *)
(* Variant: nobody looks at the deadline.                                  *)
NeverIdle(n) == {FALSE}

IdleTimedOut(n) ==
  {late \in BOOLEAN : IF late THEN n * PING > IDLE ELSE (n - 1) * PING <= IDLE}

Keepalive(c) ==
  /\ conn[c] = "open"
  /\ \E late \in IdleTimedOut(idle[c] + 1) :
       IF late
       THEN /\ Goto(c, "stopping")
            /\ UNCHANGED idle
       ELSE /\ idle' = [idle EXCEPT ![c] = (@ + 1) % (IDLE \div PING + 2)]
            /\ Send(c)
  /\ UNCHANGED <<store, bus, next, lagged, view, peer, reply, chan, control,
                 failing, shutdown, events>>

(* Close, the end of the stream, an error of it; or the shutdown signal.    *)
SocketEnds(c) ==
  /\ conn[c] = "open"
  /\ peer[c] = "closed" \/ shutdown
  /\ Goto(c, "stopping")
  /\ UNCHANGED <<store, bus, next, lagged, view, peer, idle, reply, chan,
                 control, failing, shutdown, events>>

(* Variant: the handler returns without it.                                *)
NoStop(c) == UNCHANGED chan

LastStop(c) ==
  IF loop = "done"
  THEN UNCHANGED chan
  ELSE /\ Len(chan) < ChanCap
       /\ chan' = Append(chan, [do |-> "stop", of |-> c])

(* Every way out of the loop ends with a Stop.                              *)
Close(c) ==
  /\ conn[c] = "stopping"
  /\ LastStop(c)
  /\ Goto(c, "closed")
  /\ UNCHANGED <<store, bus, next, lagged, view, peer, idle, reply, control,
                 failing, shutdown, events>>

-----------------------------------------------------------------------------
(* webrtc_command_loop and WebrtcController, which it calls one at a time.   *)

(* `stop`: out of the map, the pump signalled, the peer connection closed.  *)
StopSession(s) ==
  LET p == sessions[s]
  IN IF p = None
     THEN UNCHANGED <<sessions, ice, pump>>
     ELSE /\ sessions' = [sessions EXCEPT ![s] = None]
          /\ ice' = [ice EXCEPT ![p] = Free]
          /\ pump' = [pump EXCEPT ![p] = IF @ = "on" THEN "told" ELSE @]

Replaced(s) == StopSession(s)

Serve(cmd) ==
  /\ loop = "idle"
  /\ ~shutdown
  /\ chan # <<>> /\ Head(chan).do = cmd
  /\ chan' = Tail(chan)
  /\ UNCHANGED <<store, bus, socket, failing, shutdown, events>>

(* handle_offer up to its first await after the stop.                       *)
TakeOffer ==
  /\ Serve("offer")
  /\ Replaced(Head(chan).of)
  /\ serving' = Head(chan).of
  /\ loop' = "offer"

(* add_ice only touches the peer connection, if there is one.               *)
TakeIce ==
  /\ Serve("ice")
  /\ UNCHANGED control

TakeStop ==
  /\ Serve("stop")
  /\ StopSession(Head(chan).of)
  /\ UNCHANGED <<loop, serving>>

(* A peer connection whose callback has gone through and whose pump ended.   *)
Unused(p) == ice[p] = Free /\ failing[p] = None /\ pump[p] = "off"

(* The rest of handle_offer: connection, callbacks, answer and pump, or none *)
(* of them; the peer connection enters the map last.                       *)
OfferHandled ==
  /\ loop = "offer"
  /\ \/ /\ \E p \in Peers :
            /\ Unused(p)
            /\ ice' = [ice EXCEPT ![p] = [st |-> "live", of |-> serving]]
            /\ pump' = [pump EXCEPT ![p] = "on"]
            /\ sessions' = [sessions EXCEPT ![serving] = p]
        /\ reply' = [reply EXCEPT ![serving] = "answer"]
     \/ /\ "fails" \in events
        /\ reply' = [reply EXCEPT ![serving] = "error"]
        /\ UNCHANGED <<ice, pump, sessions>>
  /\ loop' = "idle"
  /\ serving' = None
  /\ UNCHANGED <<store, bus, conn, next, lagged, view, peer, idle, chan, failing,
                 shutdown, events>>

(* stop_all, when the loop has seen the signal.                            *)
StopAll ==
  /\ loop = "idle"
  /\ shutdown
  /\ sessions' = [s \in Clients |-> None]
  /\ ice' = [p \in Peers |-> Free]
  /\ pump' = [p \in Peers |-> IF pump[p] = "on" THEN "told" ELSE pump[p]]
  /\ loop' = "drained"
  /\ UNCHANGED <<store, bus, socket, chan, serving, failing, shutdown, events>>

(* The receiver is dropped, and the oneshots of the offers left in it.      *)
LoopReturns ==
  /\ loop = "drained"
  /\ loop' = "done"
  /\ chan' = <<>>
  /\ reply' = [c \in Clients |->
                IF conn[c] = "awaiting" /\ reply[c] = None THEN "error" ELSE reply[c]]
  /\ UNCHANGED <<store, bus, conn, next, lagged, view, peer, idle, serving,
                 sessions, ice, pump, failing, shutdown, events>>

(* run_opus_pump: told to stop, or its track refuses a packet.              *)
PumpEnds(p) ==
  /\ \/ pump[p] = "told"
     \/ pump[p] = "on" /\ ice[p].st = "failed"
  /\ pump' = [pump EXCEPT ![p] = "off"]
  /\ UNCHANGED <<store, bus, socket, chan, loop, serving, sessions, ice, failing,
                 shutdown, events>>

(* on_peer_connection_state_change(Failed), and its send of a Stop, which    *)
(* nothing takes back when the session is replaced meanwhile.               *)
ConnectionFails(p) ==
  /\ "fails" \in events
  /\ ice[p].st = "live"
  /\ ice' = [ice EXCEPT ![p].st = "failed"]
  /\ failing' = [failing EXCEPT ![p] = ice[p].of]
  /\ UNCHANGED <<store, bus, socket, chan, loop, serving, sessions, pump,
                 shutdown, events>>

FailureReported(p) ==
  /\ failing[p] # None
  /\ IF loop = "done"
     THEN UNCHANGED chan
     ELSE /\ Len(chan) < ChanCap
          /\ chan' = Append(chan, [do |-> "stop", of |-> failing[p]])
  /\ failing' = [failing EXCEPT ![p] = None]
  /\ UNCHANGED <<store, bus, socket, control, shutdown, events>>

-----------------------------------------------------------------------------
(* The browsers and the process.                                           *)

ClientCloses(c) ==
  /\ peer[c] = "on"
  /\ peer' = [peer EXCEPT ![c] = "closed"]
  /\ UNCHANGED <<store, bus, conn, next, lagged, view, idle, reply, chan, control,
                 failing, shutdown, events>>

ClientVanishes(c) ==
  /\ "silent" \in events
  /\ peer[c] = "on"
  /\ peer' = [peer EXCEPT ![c] = "silent"]
  /\ UNCHANGED <<store, bus, conn, next, lagged, view, idle, reply, chan, control,
                 failing, shutdown, events>>

RequestShutdown ==
  /\ "stops" \in events
  /\ ~shutdown
  /\ shutdown' = TRUE
  /\ UNCHANGED <<store, bus, socket, chan, control, failing, events>>

-----------------------------------------------------------------------------
Init ==
  /\ state = [k \in Kinds |-> 0]
  /\ writing = [w \in Writers |-> None]
  /\ bus = <<>>
  /\ conn \in [Clients -> {"none", "closed"}]   \* to come, or gone already
  /\ next = [c \in Clients |-> 1]
  /\ lagged = [c \in Clients |-> FALSE]
  /\ view = [c \in Clients |-> [k \in Kinds |-> 0]]
  /\ peer = [c \in Clients |-> "none"]
  /\ idle = [c \in Clients |-> 0]
  /\ reply = [c \in Clients |-> None]
  /\ chan = <<>>
  /\ loop = "idle"
  /\ serving = None
  /\ sessions = [c \in Clients |-> None]
  /\ ice = [p \in Peers |-> Free]
  /\ pump = [p \in Peers |-> "off"]
  /\ failing = [p \in Peers |-> None]
  /\ shutdown = FALSE
  /\ events \in Environments

Handler(c) ==
  Snapshot(c) \/ Greet(c) \/ Receive(c) \/ Lag(c) \/ Inbound(c) \/ Pass(c)
    \/ Answered(c) \/ Keepalive(c) \/ SocketEnds(c) \/ Close(c)

CommandLoop ==
  TakeOffer \/ TakeIce \/ TakeStop \/ OfferHandled \/ StopAll \/ LoopReturns

PeerConnection(p) == PumpEnds(p) \/ FailureReported(p)

Next ==
  \/ \E w \in Writers : Write(w) \/ Publish(w)
  \/ SpectrumData
  \/ \E c \in Clients : Connect(c) \/ Handler(c) \/ GivesUp(c)
                         \/ ClientCloses(c) \/ ClientVanishes(c)
  \/ CommandLoop
  \/ \E p \in Peers : PeerConnection(p) \/ ConnectionFails(p) \/ CandidateFound(p)
  \/ RequestShutdown

Spec == Init /\ [][Next]_vars

(* Every task goes on: the command loop, the pumps, the handlers with their    *)
(* timers, and the kernel, which reports a peer that acknowledges nothing in    *)
(* the end. The senders that wait for room in the command channel are served   *)
(* in turn, so the fairness of what sends through it is strong.               *)
Fairness ==
  /\ WF_vars(CommandLoop)
  /\ \A p \in Peers : WF_vars(PumpEnds(p)) /\ SF_vars(FailureReported(p))
  /\ \A c \in Clients : /\ WF_vars(Snapshot(c) \/ Greet(c))
                        /\ WF_vars(Keepalive(c) \/ GivesUp(c) \/ Answered(c))
                        /\ SF_vars(Pass(c) \/ Close(c))

FairSpec == Spec /\ Fairness

-----------------------------------------------------------------------------
(* A client that has read every event, has skipped none and has been sent     *)
(* all of them shows what AppState holds, in every part that one task writes  *)
(* and whose latest write is published: nothing falls between the snapshot     *)
(* and the subscription, whenever the two meet the writes (server.rs 139-142,  *)
(* state.rs 227-272). Media, which two tasks write, is not covered: they may    *)
(* publish in the other order. Nor is a client that lagged: it is never sent   *)
(* the state again.                                                        *)
Quiet(k) == \A w \in Writers : Written(w) = k => writing[w] = None

ViewCurrent ==
  \A c \in Clients, k \in OneWriter :
    conn[c] = "open" /\ next[c] > Len(bus) /\ ~lagged[c] /\ Quiet(k)
      => view[c][k] = state[k]

(* What the map holds is what is alive. A peer connection that is alive or    *)
(* has failed is in it, under the session it serves, and so is a pump that     *)
(* nobody has told to stop: a new offer, a Stop and the drain leave neither    *)
(* behind (webrtc_rs.rs 134-136, 248-266). A session in the map has a handler  *)
(* that will send its Stop, or has one queued (server.rs 230-245).            *)
StopComes(s) ==
  \/ conn[s] \notin {"none", "closed"}
  \/ \E i \in DOMAIN chan : chan[i] = [do |-> "stop", of |-> s]
  \/ shutdown

NoLeakedSession ==
  /\ \A p \in Peers :
       ice[p].st # "free" \/ pump[p] = "on" => sessions[ice[p].of] = p
  /\ \A s \in Clients : sessions[s] # None => StopComes(s) /\ loop # "done"

(* A client that vanishes without closing its socket has no session in the     *)
(* end, whatever its handler is doing and however full the command channel      *)
(* is: the idle deadline, the failed connection and the last Stop see to it    *)
(* (server.rs 152-170, webrtc_rs.rs 186-202).                              *)
SilentReaped ==
  \A c \in Clients : peer[c] = "silent" ~> sessions[c] = None /\ conn[c] = "closed"
=============================================================================
