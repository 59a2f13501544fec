------------------------------ MODULE CastWire ------------------------------
(***************************************************************************)
(* The bytes of a cast session: the Chromecast sends length-prefixed frames   *)
(* (cast/proto.rs), the link delivers them in pieces, and run_cast_session     *)
(* appends each piece to its buffer and handles every frame that is complete   *)
(* (cast/client.rs 356-421), by what cast/messages.rs makes of its payload.    *)
(*                                                                         *)
(* A JSON payload is a record of what the code looks at; that protobuf turns   *)
(* a message into bytes and back is `Bytes`.                                *)
(***************************************************************************)
EXTENDS Naturals, Sequences, SequencesExt

CONSTANTS
  Messages,  \* what a Chromecast may send
  Bytes,     \* the protobuf encoding of each of them
  Garbled,   \* payloads that do not decode
  BYTE,      \* values of a byte (256)
  PREFIX,    \* bytes of the length prefix (4)
  TMP,       \* what one read takes at most (4096)
  OurApp,    \* DEFAULT_MEDIA_RECEIVER_APP_ID
  NoTransport, \* an application that says nothing of a transport
  MaxSent    \* bound: frames of the Chromecast

Payloads == Garbled \cup {Bytes[m] : m \in Messages}

(* A length without its last i bytes.                                       *)
Shifted(n) ==
  LET shifted[i \in 0 .. PREFIX] == IF i = 0 THEN n ELSE shifted[i - 1] \div BYTE
  IN shifted

ASSUME WireAssumption ==
  /\ BYTE \in Nat \ {0, 1} /\ PREFIX \in Nat \ {0} /\ TMP \in Nat \ {0}
  /\ MaxSent \in Nat
  /\ DOMAIN Bytes = Messages
  /\ \A m1, m2 \in Messages : Bytes[m1] = Bytes[m2] => m1 = m2
  /\ \A m \in Messages : Bytes[m] \notin Garbled
  /\ \A p \in Payloads : p \in Seq(0 .. BYTE - 1) /\ Shifted(Len(p))[PREFIX] = 0

VARIABLES
  wire,     \* bytes on their way to us
  readBuf,  \* read_buf
  drains,   \* the loop that drains it is running
  launched, \* `loaded` of the task
  answers,  \* history: what we have sent since the LAUNCH, frame by frame
  sent,     \* history: the payloads the Chromecast has sent
  ends,     \* history: the bytes it had sent with each of them
  arrived   \* history: bytes read

wireVars == <<wire, readBuf, drains, launched, answers, sent, ends, arrived>>

-----------------------------------------------------------------------------
(* Framing.                                                                *)

(* Variant: the other end of the prefix first.                              *)
FromLe(digits) ==
  LET value[i \in 0 .. PREFIX] ==
        IF i = 0 THEN 0 ELSE (value[i - 1] * BYTE) + digits[PREFIX + 1 - i]
  IN value[PREFIX]

FromBe(digits) ==
  LET value[i \in 0 .. PREFIX] ==
        IF i = 0 THEN 0 ELSE (value[i - 1] * BYTE) + digits[i]
  IN value[PREFIX]

ToBe(n) == [i \in 1 .. PREFIX |-> Shifted(n)[PREFIX - i] % BYTE]

EncodeFrame(payload) == ToBe(Len(payload)) \o payload

Total == PREFIX + FromBe(SubSeq(readBuf, 1, PREFIX))

Complete == Len(readBuf) >= PREFIX /\ Len(readBuf) >= Total

Payload == SubSeq(readBuf, PREFIX + 1, Total)

Decodes == Payload \notin Garbled

-----------------------------------------------------------------------------
(* Payloads.                                                               *)

(* The transport of the first application that is ours and has one.         *)
LaunchedTransportId(m) ==
  LET ours == SelectSeq(m.apps, LAMBDA a : a.app = OurApp /\ a.transport # NoTransport)
  IN IF ours = <<>> THEN NoTransport ELSE ours[1].transport

(* Every type has its namespace; what is loaded is a live AAC stream, and      *)
(* plays at once.                                                          *)
Msg(ns, type, to) == [ns |-> ns, type |-> type, to |-> to]

ConnectMsg(to) == Msg("tp.connection", "CONNECT", to)

PongMsg(to) == Msg("tp.heartbeat", "PONG", to)

LoadMsg(to) ==
  [ns |-> "media", type |-> "LOAD", to |-> to,
   media |-> "audio/aac", stream |-> "LIVE", autoplay |-> TRUE]

(* What a frame is answered with, if nothing was loaded before.             *)
Reply(m, loaded) ==
  CASE m.type = "PING" -> <<PongMsg(m.source)>>
    [] m.type = "RECEIVER_STATUS" /\ ~loaded /\ LaunchedTransportId(m) # NoTransport ->
         <<ConnectMsg(LaunchedTransportId(m)), LoadMsg(LaunchedTransportId(m))>>
    [] OTHER -> <<>>

-----------------------------------------------------------------------------
CastSends(payload) ==
  /\ Len(sent) < MaxSent
  /\ wire' = wire \o EncodeFrame(payload)
  /\ sent' = Append(sent, payload)
  /\ ends' = Append(ends, arrived + Len(wire) + Len(EncodeFrame(payload)))
  /\ UNCHANGED <<readBuf, drains, launched, answers, arrived>>

ReadBytes(n) ==
  /\ ~drains
  /\ n \in 1 .. TMP /\ n <= Len(wire)
  /\ readBuf' = readBuf \o SubSeq(wire, 1, n)
  /\ wire' = SubSeq(wire, n + 1, Len(wire))
  /\ arrived' = arrived + n
  /\ drains' = TRUE
  /\ UNCHANGED <<launched, answers, sent, ends>>

(* A frame that is complete and decodes is taken off the buffer and handled.  *)
TakeFrame ==
  /\ drains
  /\ Complete /\ Decodes
  /\ readBuf' = SubSeq(readBuf, Total + 1, Len(readBuf))
  /\ LET m == CHOOSE m \in Messages : Bytes[m] = Payload
         reply == Reply(m, launched)
     IN /\ answers' = Append(answers, reply)
        /\ launched' = (launched \/ \E i \in DOMAIN reply : reply[i].type = "LOAD")
  /\ UNCHANGED <<wire, drains, sent, ends, arrived>>

(* No frame: more bytes are needed, or these will never decode.              *)
NoFrame ==
  /\ drains
  /\ ~(Complete /\ Decodes)
  /\ drains' = FALSE
  /\ UNCHANGED <<wire, readBuf, launched, answers, sent, ends, arrived>>

WireInit ==
  /\ wire = <<>>
  /\ readBuf = <<>>
  /\ drains = FALSE
  /\ launched = FALSE
  /\ answers = <<>>
  /\ sent = <<>>
  /\ ends = <<>>
  /\ arrived = 0

WireNext ==
  \/ \E p \in Payloads : CastSends(p)
  \/ \E n \in 1 .. TMP : ReadBytes(n)
  \/ TakeFrame
  \/ NoFrame

WireSpec == WireInit /\ [][WireNext]_wireVars

-----------------------------------------------------------------------------
(* Between two reads, what was sent answers exactly the frames that have        *)
(* arrived whole, each once and in their order, wherever the link cut the      *)
(* bytes: a PONG to whoever asked, and for the first status that names a        *)
(* transport of ours its CONNECT and LOAD, never again after that. A frame     *)
(* that does not decode is answered by nothing, nor is any that comes after    *)
(* it: proto.rs:79-81 takes None for a lack of bytes, so it stays in the        *)
(* buffer's way for good.                                                  *)
Heard ==
  LET whole == {k \in 0 .. Len(sent) :
                  \A i \in 1 .. k : ends[i] <= arrived /\ sent[i] \notin Garbled}
  IN [i \in 1 .. Max(whole) |-> CHOOSE m \in Messages : Bytes[m] = sent[i]]

LoadsAt(heard) ==
  {i \in DOMAIN heard : /\ heard[i].type = "RECEIVER_STATUS"
                        /\ LaunchedTransportId(heard[i]) # NoTransport}

Answered(heard) ==
  [i \in DOMAIN heard |-> Reply(heard[i], \E j \in LoadsAt(heard) : j < i)]

WireAnswered == ~drains => answers = Answered(Heard)
=============================================================================
