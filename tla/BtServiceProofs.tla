-------------------------- MODULE BtServiceProofs --------------------------
(***************************************************************************)
(* The pairing window and the name of the adapter, for any durations, names,  *)
(* queues and faults, and however often the process is started.             *)
(***************************************************************************)
EXTENDS BtService, SequenceTheorems, TLAPS

-----------------------------------------------------------------------------
(* The window. Its second setter follows the first, so that the adapter is   *)
(* not discoverable any more when it runs.                                 *)
OffInv ==
  "setterFails" \notin faults =>
    /\ pc \in {"off2", "end2"} => ~discoverable
    /\ pc \in {"closed", "done"} => ~discoverable /\ ~pairable /\ ~openState

LEMMA SettersWork ==
  ASSUME "setterFails" \notin faults, NEW on \in BOOLEAN
  PROVE  /\ SetDiscoverable(on) => (discoverable' <=> on)
         /\ SetPairable(on) => (pairable' <=> on)
<1>1. faults \cap {"setterFails"} = {}
  OBVIOUS
<1> QED
  BY <1>1 DEF SetDiscoverable, SetPairable

LEMMA WindowStep == OffInv /\ Window => OffInv'
<1> SUFFICES ASSUME OffInv, Window, "setterFails" \notin faults'
             PROVE  OffInv'
  BY DEF OffInv
<1> USE DEF OffInv
<1>1. CASE BeginOff \/ BeginEnd
  BY <1>1, SettersWork DEF BeginOff, BeginEnd, Discoverable, process
<1>2. CASE EnterClosed \/ End
  BY <1>2, SettersWork DEF EnterClosed, End, Closed
<1>3. CASE BeginOn \/ BeginAgain
  BY <1>3 DEF BeginOn, BeginAgain, Discoverable
<1>4. CASE EnterOpen
  BY <1>4 DEF EnterOpen
<1>5. ASSUME NEW d \in Durations, Open(d) \/ Reopen(d)
      PROVE  OffInv'
  BY <1>5 DEF Open, Reopen
<1>6. CASE IgnoreClose
  BY <1>6 DEF IgnoreClose, Receive, adapter
<1>7. CASE CloseNow \/ Expire
  BY <1>7 DEF CloseNow, Expire
<1>8. CASE SenderGone
  BY <1>8 DEF SenderGone, adapter
<1>9. CASE SeeShutdown
  BY <1>9 DEF SeeShutdown, CloseFirst, adapter
<1> QED
  BY <1>1, <1>2, <1>3, <1>4, <1>5, <1>6, <1>7, <1>8, <1>9 DEF Window

(* What the service does beside the window leaves it alone.                  *)
LEMMA ServiceLeavesWindow ==
  ASSUME Service \/ \E r \in BtCommands : Request(r)
  PROVE  UNCHANGED vars
BY DEF Service, Resolve, PowerAndAlias, SetupHciName, RegisterAgent, TakeRequest,
     DeviceCall, Rename, RenameHci, SetAlias, SetHciName, Truncate, SaveName,
     PublishName, LoopEnds, Request

LEMMA OffStep == OffInv /\ [ServiceNext]_allVars => OffInv'
<1> SUFFICES ASSUME OffInv, [ServiceNext]_allVars PROVE OffInv'
  OBVIOUS
<1>1. CASE UNCHANGED vars
  BY <1>1 DEF vars, adapter, OffInv
<1>2. CASE Service \/ \E r \in BtCommands : Request(r)
  BY <1>1, <1>2, ServiceLeavesWindow
<1>3. CASE Window
  BY <1>3, WindowStep
<1>4. CASE Tick
  BY <1>4 DEF Tick, OffInv
<1>5. ASSUME NEW c \in Commands, Submit(c)
      PROVE  OffInv'
  BY <1>5 DEF Submit, adapter, OffInv
<1>6. CASE SenderDrops \/ RequestShutdown
  BY <1>6 DEF SenderDrops, RequestShutdown, adapter, OffInv
<1>7. CASE Exit \/ Start
  BY <1>7 DEF Exit, Start, adapter, OffInv
<1>8. CASE AdapterReset
  BY <1>8 DEF AdapterReset, OffInv
<1> QED
  BY <1>1, <1>2, <1>3, <1>4, <1>5, <1>6, <1>7, <1>8
     DEF ServiceNext, JoinedWindow, ProcessExit, ProcessStart, allVars

(* pairing.rs:20 "The closed state always drives discoverable/pairable OFF",  *)
(* in every behaviour of the service in which BlueZ does not refuse.          *)
THEOREM ClosedHolds == ServiceSpec => []ClosedIsOff
<1>1. ServiceInit => OffInv
  BY DEF ServiceInit, Init, OffInv
<1>2. OffInv => ClosedIsOff
  BY DEF OffInv, ClosedIsOff
<1> QED
  BY <1>1, <1>2, OffStep, PTL DEF ServiceSpec

-----------------------------------------------------------------------------
(* The window by itself. The service adds to what it does and takes nothing    *)
(* away, so all that is said of PairingWindow holds below the service.         *)
LEMMA ServiceIsWindow == [ServiceNext]_allVars => [Next]_vars
<1> SUFFICES ASSUME [ServiceNext]_allVars PROVE [Next]_vars
  OBVIOUS
<1>1. CASE Service \/ \E r \in BtCommands : Request(r)
  BY <1>1, ServiceLeavesWindow
<1>2. CASE UNCHANGED allVars
  BY <1>2 DEF allVars
<1>3. CASE \/ JoinedWindow \/ Tick \/ SenderDrops \/ RequestShutdown
           \/ ProcessExit \/ ProcessStart \/ AdapterReset
           \/ \E c \in Commands : Submit(c)
  BY <1>3 DEF JoinedWindow, ProcessExit, ProcessStart, Next
<1> QED
  BY <1>1, <1>2, <1>3 DEF ServiceNext

(* run_bluetooth is a run of the pairing window with something around it: it    *)
(* sets up before, and is told of commands, but never moves the window or the  *)
(* two properties of the adapter itself (service.rs 93-108).                  *)
THEOREM ServiceRunsWindow == ServiceSpec => Spec
<1>1. ServiceInit => Init
  BY DEF ServiceInit
<1> QED
  BY <1>1, ServiceIsWindow, PTL DEF ServiceSpec, Spec

(* How far the deadline is off is bounded by the Open it was set for, which     *)
(* need not be the one being handled.                                        *)
LEMMA WindowTypesInit == Init => TypeOK
<1> SUFFICES ASSUME Init PROVE TypeOK
  OBVIOUS
<1>1. left \in UNION {0 .. d : d \in Durations \cup {0}}
  BY DEF Init
<1>2. cmds \in Seq(Commands) /\ Len(cmds) <= QueueCap /\ starts \in 1 .. MaxStarts
  BY DurationsAssumption DEF Init
<1> QED
  BY <1>1, <1>2 DEF Init, TypeOK, Places, Commands, Close

LEMMA ReceivedTypes ==
  ASSUME TypeOK, NEW c, Receive(c)
  PROVE  cmds' \in Seq(Commands) /\ Len(cmds') <= QueueCap
<1>1. cmds \in Seq(Commands) /\ cmds # <<>> /\ cmds' = Tail(cmds) /\ Len(cmds) <= QueueCap
  BY DEF TypeOK, Receive
<1>2. cmds' \in Seq(Commands) /\ Len(cmds') = Len(cmds) - 1 /\ Len(cmds) \in Nat
  BY <1>1, HeadTailProperties, LenProperties
<1> QED
  BY <1>1, <1>2, DurationsAssumption

LEMMA WindowTypesStep == TypeOK /\ [Next]_vars => TypeOK'
<1> SUFFICES ASSUME TypeOK, [Next]_vars PROVE TypeOK'
  OBVIOUS
<1> DEFINE lefts == UNION {0 .. d : d \in Durations \cup {0}}
<1>1. \A n \in Durations \cup {0} : n \in lefts
  BY DurationsAssumption
<1>2. \A n \in lefts : n \in Nat /\ (n > 0 => n - 1 \in lefts)
  BY DurationsAssumption
<1>3. left \in lefts /\ (left' \in lefts => left' \in UNION {0 .. d : d \in Durations \cup {0}})
  BY DEF TypeOK
<1> HIDE DEF lefts
<1> USE DEF timer, adapter, mailbox, process, Places
<1>4. CASE BeginOff \/ BeginEnd \/ BeginOn \/ BeginAgain
  <2>1. discoverable' \in BOOLEAN
    BY <1>4 DEF BeginOff, BeginEnd, BeginOn, BeginAgain, Discoverable, SetDiscoverable, TypeOK
  <2> QED
    BY <1>4, <2>1 DEF BeginOff, BeginEnd, BeginOn, BeginAgain, Discoverable, TypeOK
<1>5. CASE EnterClosed \/ End
  <2>1. pairable' \in BOOLEAN
    BY <1>5 DEF EnterClosed, End, Closed, SetPairable, TypeOK
  <2> QED
    BY <1>5, <2>1 DEF EnterClosed, End, Closed, TypeOK
<1>6. CASE EnterOpen
  <2>1. pairable' \in BOOLEAN
    BY <1>6 DEF EnterOpen, SetPairable, TypeOK
  <2>2. left' \in lefts
    BY <1>1, <1>6 DEF EnterOpen, Deadline, TypeOK
  <2> QED
    BY <1>3, <1>6, <2>1, <2>2 DEF EnterOpen, TypeOK
<1>7. ASSUME NEW d \in Durations, Open(d) \/ Reopen(d)
      PROVE  TypeOK'
  <2>1. Receive(d) /\ duration' = d /\ pc' \in {"on", "again"}
    BY <1>7 DEF Open, Reopen
  <2> QED
    BY <1>7, <2>1, ReceivedTypes DEF Receive, TypeOK
<1>8. CASE IgnoreClose \/ CloseNow
  <2>1. Receive(Close) /\ UNCHANGED duration /\ pc' \in {pc, "off"}
    BY <1>8 DEF IgnoreClose, CloseNow
  <2> QED
    BY <2>1, ReceivedTypes DEF Receive, TypeOK
<1>9. CASE Expire \/ SenderGone \/ SeeShutdown
  BY <1>9 DEF Expire, SenderGone, SeeShutdown, CloseFirst, TypeOK
<1>10. CASE Tick
  <2>1. left' \in lefts
    BY <1>2, <1>3, <1>10 DEF Tick
  <2>2. age' \in Nat
    BY <1>10 DEF Tick, TypeOK
  <2> QED
    BY <1>3, <1>10, <2>1, <2>2 DEF Tick, TypeOK
<1>11. ASSUME NEW c \in Commands, Submit(c)
       PROVE  TypeOK'
  <2>1. cmds' \in Seq(Commands) /\ Len(cmds') <= QueueCap
    BY <1>11, DurationsAssumption DEF Submit, HasRoom, TypeOK
  <2> QED
    BY <1>11, <2>1 DEF Submit, TypeOK
<1>12. CASE Start
  <2>1. cmds' \in Seq(Commands) /\ Len(cmds') <= QueueCap
    BY <1>12, DurationsAssumption DEF Start
  <2>2. starts' \in 1 .. MaxStarts /\ asked' \in Commands
    BY <1>12, DurationsAssumption DEF Start, TypeOK, Commands
  <2> QED
    BY <1>12, <2>1, <2>2 DEF Start, TypeOK
<1>13. CASE SenderDrops \/ RequestShutdown \/ Exit \/ AdapterReset
  <2>1. CASE SenderDrops
    BY <2>1 DEF SenderDrops, TypeOK
  <2>2. CASE RequestShutdown
    BY <2>2 DEF RequestShutdown, TypeOK
  <2>3. CASE Exit
    BY <2>3 DEF Exit, TypeOK
  <2>4. CASE AdapterReset
    BY <2>4 DEF AdapterReset, TypeOK
  <2> QED
    BY <1>13, <2>1, <2>2, <2>3, <2>4
<1>14. CASE UNCHANGED vars
  BY <1>14 DEF vars, TypeOK
<1> QED
  BY <1>4, <1>5, <1>6, <1>7, <1>8, <1>9, <1>10, <1>11, <1>12, <1>13, <1>14 DEF Next, Window

(* Every variable of the window keeps its type, below the service too: a        *)
(* deadline is never further off than the longest window (pairing.rs).        *)
THEOREM WindowTypeCorrect == Spec => []TypeOK
<1> QED
  BY WindowTypesInit, WindowTypesStep, PTL DEF Spec

-----------------------------------------------------------------------------
(* The commands. Until the last one is handled it is the last in the channel; *)
(* then the window is on its way to what it asked for, and an open one has     *)
(* spent no more of its duration than has passed.                            *)
WindowTypes ==
  /\ cmds \in Seq(Commands)
  /\ asked \in Commands
  /\ duration \in Durations \cup {0}
  /\ left \in Nat
  /\ age \in Nat

Handled ==
  /\ pc \in {"on", "on2", "again", "again2", "open"} =>
       asked = duration /\ asked # Close
  /\ pc \in {"off", "off2", "closed"} /\ asked # Close => age >= asked

CommandInv ==
  /\ pc = "open" => age + left >= duration
  /\ cmds # <<>> => asked = cmds[Len(cmds)]
  /\ cmds = <<>> /\ ~gone /\ ~shutdown => Handled

LEMMA CommandTypes == Commands \subseteq Nat /\ Durations \subseteq Commands
BY DurationsAssumption DEF Commands, Close

LEMMA LastReceived ==
  ASSUME NEW q \in Seq(Commands), q # <<>>
  PROVE  /\ Head(q) \in Commands /\ Tail(q) \in Seq(Commands)
         /\ Tail(q) = <<>> => Head(q) = q[Len(q)]
         /\ Tail(q) # <<>> => Tail(q)[Len(Tail(q))] = q[Len(q)]
<1>1. Head(q) = q[1] /\ Head(q) \in Commands /\ Tail(q) \in Seq(Commands)
  BY HeadTailProperties
<1>2. Len(Tail(q)) = Len(q) - 1 /\ Len(q) \in Nat \ {0}
  BY HeadTailProperties, EmptySeq
<1>3. Len(Tail(q)) = 0 => Len(q) = 1
  <2>1. \A n \in Nat \ {0} : \A m : m = n - 1 /\ m = 0 => n = 1
    OBVIOUS
  <2> QED
    BY <1>2, <2>1, Zenon
<1>4. ASSUME Tail(q) = <<>>
      PROVE  Head(q) = q[Len(q)]
  <2>1. Len(Tail(q)) = 0
    BY <1>4, EmptySeq
  <2> QED
    BY <1>1, <1>3, <2>1
<1>5. ASSUME Tail(q) # <<>>
      PROVE  Tail(q)[Len(Tail(q))] = q[Len(q)]
  <2>1. Len(Tail(q)) \in 1 .. Len(q) - 1
    BY <1>1, <1>2, <1>5, EmptySeq
  <2>2. Tail(q)[Len(Tail(q))] = q[Len(Tail(q)) + 1]
    BY <1>2, <2>1, HeadTailProperties
  <2>3. Len(Tail(q)) + 1 = Len(q)
    BY <1>2
  <2> QED
    BY <2>2, <2>3
<1> QED
  BY <1>1, <1>4, <1>5

LEMMA ReceiveStep ==
  ASSUME WindowTypes, CommandInv, NEW c \in Commands, Receive(c)
  PROVE  /\ cmds' \in Seq(Commands)
         /\ cmds' = <<>> => c = asked
         /\ cmds' # <<>> => asked = cmds'[Len(cmds')]
         /\ UNCHANGED <<left, age, gone, asked, shutdown>>
BY LastReceived DEF WindowTypes, CommandInv, Receive, process

LEMMA TickStep ==
  WindowTypes /\ CommandInv /\ Tick => WindowTypes' /\ CommandInv'
<1> SUFFICES ASSUME WindowTypes, CommandInv, Tick
             PROVE  WindowTypes' /\ CommandInv'
  OBVIOUS
<1> USE DEF WindowTypes, CommandInv, Handled, mailbox, process
<1>1. /\ left' = left - 1 /\ left' \in Nat
      /\ UNCHANGED <<pc, cmds, asked, duration, gone, shutdown>>
  BY DEF Tick
<1>2. pc \in {"open", "again", "again2"}
  BY DEF Tick
<1>3. CASE \E d \in Durations : age < d
  <2>1. age' = age + 1
    BY <1>3 DEF Tick
  <2> QED
    BY <1>1, <1>2, <2>1
<1>4. CASE ~ \E d \in Durations : age < d
  <2>1. age' = age
    BY <1>4 DEF Tick
  <2>2. age' + left' >= duration'
    BY <1>1, <1>4, <2>1, CommandTypes
  <2> QED
    BY <1>1, <1>2, <2>1, <2>2
<1> QED
  BY <1>3, <1>4

LEMMA CommandWindowStep ==
  WindowTypes /\ CommandInv /\ Window => WindowTypes' /\ CommandInv'
<1> SUFFICES ASSUME WindowTypes, CommandInv, Window
             PROVE  WindowTypes' /\ CommandInv'
  OBVIOUS
<1> USE CommandTypes DEF WindowTypes, CommandInv, Handled
<1>1. CASE BeginOff \/ BeginEnd \/ BeginOn \/ BeginAgain
  BY <1>1 DEF BeginOff, BeginEnd, BeginOn, BeginAgain, Discoverable, timer,
       mailbox, process
<1>2. CASE EnterClosed \/ End
  BY <1>2 DEF EnterClosed, End, Closed, timer, mailbox, process
<1>3. CASE EnterOpen
  BY <1>3 DEF EnterOpen, Deadline, mailbox, process
<1>4. ASSUME NEW d \in Durations, Open(d) \/ Reopen(d)
      PROVE  WindowTypes' /\ CommandInv'
  <2>1. d # Close /\ d \in Commands /\ duration' = d /\ pc' \in {"on", "again"}
    BY <1>4, DurationsAssumption DEF Open, Reopen, Close
  <2>2. Receive(d)
    BY <1>4 DEF Open, Reopen
  <2> QED
    BY <2>1, <2>2, ReceiveStep
<1>5. CASE IgnoreClose
  <2>1. Close \in Commands
    BY DEF Commands
  <2>2. Receive(Close) /\ pc = "closed" /\ UNCHANGED <<pc, duration>>
    BY <1>5 DEF IgnoreClose
  <2> QED
    BY <2>1, <2>2, ReceiveStep
<1>6. CASE CloseNow
  <2>1. Close \in Commands
    BY DEF Commands
  <2>2. Receive(Close) /\ pc' = "off" /\ UNCHANGED duration
    BY <1>6 DEF CloseNow
  <2> QED
    BY <2>1, <2>2, ReceiveStep
<1>7. CASE Expire
  BY <1>7 DEF Expire, Elapsed, timer, mailbox, process
<1>8. CASE SenderGone
  BY <1>8 DEF SenderGone, timer, mailbox, process
<1>9. CASE SeeShutdown
  BY <1>9 DEF SeeShutdown, CloseFirst, timer, mailbox, process
<1> QED
  BY <1>1, <1>2, <1>3, <1>4, <1>5, <1>6, <1>7, <1>8, <1>9 DEF Window

LEMMA SubmitStep ==
  ASSUME WindowTypes, CommandInv, NEW c \in Commands, Submit(c)
  PROVE  WindowTypes' /\ CommandInv'
<1>1. cmds' \in Seq(Commands) /\ cmds' # <<>> /\ cmds'[Len(cmds')] = c
  BY DEF Submit, WindowTypes
<1> QED
  BY <1>1 DEF Submit, WindowTypes, CommandInv, timer, process

LEMMA CommandStep ==
  WindowTypes /\ CommandInv /\ [ServiceNext]_allVars
    => WindowTypes' /\ CommandInv'
<1> SUFFICES ASSUME WindowTypes, CommandInv, [ServiceNext]_allVars
             PROVE  WindowTypes' /\ CommandInv'
  OBVIOUS
<1>1. CASE UNCHANGED vars
  BY <1>1 DEF vars, timer, mailbox, process, WindowTypes, CommandInv, Handled
<1>2. CASE Service \/ \E r \in BtCommands : Request(r)
  BY <1>1, <1>2, ServiceLeavesWindow
<1>3. CASE Window
  BY <1>3, CommandWindowStep
<1>4. CASE Tick
  BY <1>4, TickStep
<1>5. ASSUME NEW c \in Commands, Submit(c)
      PROVE  WindowTypes' /\ CommandInv'
  BY <1>5, SubmitStep
<1>6. CASE SenderDrops \/ RequestShutdown
  BY <1>6 DEF SenderDrops, RequestShutdown, timer, mailbox, WindowTypes,
       CommandInv, Handled
<1>7. CASE Exit \/ AdapterReset
  BY <1>7 DEF Exit, AdapterReset, timer, mailbox, process, WindowTypes,
       CommandInv, Handled
<1>8. CASE Start
  BY <1>8 DEF Start, timer, WindowTypes, CommandInv, Handled, Commands, Close
<1> QED
  BY <1>1, <1>2, <1>3, <1>4, <1>5, <1>6, <1>7, <1>8
     DEF ServiceNext, JoinedWindow, ProcessExit, ProcessStart, allVars

(* With every command handled, the window is what the last one made of it,    *)
(* for any durations, however often it was extended and at whatever place its *)
(* deadline ran out (pairing.rs 29-78).                                     *)
THEOREM LastCommandHolds == ServiceSpec => []LastCommandWins
<1>1. ServiceInit => WindowTypes /\ CommandInv
  BY DEF ServiceInit, Init, WindowTypes, CommandInv, Handled, Commands, Close
<1>2. CommandInv => LastCommandWins
  BY DEF CommandInv, Handled, LastCommandWins, Rest
<1> QED
  BY <1>1, <1>2, CommandStep, PTL DEF ServiceSpec

-----------------------------------------------------------------------------
(* The name. What is being given to the adapter, and what users are shown     *)
(* once that is done.                                                      *)
Target == IF at \in {"loop", "device"} THEN shown ELSE naming

AliasDone == at \in {"hci", "agent", "loop", "device", "rehci", "save", "write",
                    "publish"}
HciDone   == at \in {"agent", "loop", "device", "save", "write", "publish"}
FileDone  == at \in {"power", "hci", "agent", "loop", "device", "publish"}

NameTypes ==
  /\ requests \in Seq(BtCommands)
  /\ naming \in Names \cup {Default}
  /\ file \in Names \cup {Default, Empty}

(* Each effect that is behind is that of the target, or failed. The file has  *)
(* the name shown before or the one to come, except while it is written.     *)
NameInv ==
  /\ AliasDone => "alias" \in failed \/ alias = Target
  /\ HciDone => "hci" \in failed \/ hciName = Target
  /\ FileDone => "file" \in failed \/ ResolveName(file) = Target
  /\ at # "write" => "file" \in failed \/ ResolveName(file) \in {shown, naming}
  /\ at \in {"power", "hci", "agent"} => shown = naming

(* The service is gone with its process.                                   *)
GoneWithProcess == pc = "exited" => at = "out"

LEMMA GoneStep == GoneWithProcess /\ [ServiceNext]_allVars => GoneWithProcess'
<1> SUFFICES ASSUME GoneWithProcess, [ServiceNext]_allVars
             PROVE  GoneWithProcess'
  OBVIOUS
<1> USE DEF GoneWithProcess
<1>1. CASE Service \/ \E r \in BtCommands : Request(r)
  <2>1. UNCHANGED pc /\ (at = "out" => at' = "out")
    BY <1>1 DEF Service, Resolve, PowerAndAlias, SetupHciName, RegisterAgent,
         TakeRequest, DeviceCall, Rename, RenameHci, SetAlias, SetHciName,
         Truncate, SaveName, PublishName, LoopEnds, Request, vars
  <2> QED
    BY <2>1
<1>2. CASE JoinedWindow
  <2>1. pc' # "exited"
    BY <1>2 DEF JoinedWindow, Window, BeginOff, EnterClosed, BeginEnd, End,
         BeginOn, BeginAgain, EnterOpen, Open, IgnoreClose, Reopen, CloseNow,
         Expire, SenderGone, SeeShutdown, CloseFirst, Discoverable, Closed
  <2> QED
    BY <2>1
<1>3. CASE Tick /\ UNCHANGED service
  BY <1>3 DEF Tick, service
<1>4. ASSUME NEW c \in Commands, Submit(c), UNCHANGED service
      PROVE  GoneWithProcess'
  BY <1>4 DEF Submit, service
<1>5. CASE (SenderDrops \/ RequestShutdown \/ AdapterReset) /\ UNCHANGED service
  BY <1>5 DEF SenderDrops, RequestShutdown, AdapterReset, service
<1>6. CASE ProcessExit \/ ProcessStart
  BY <1>6 DEF ProcessExit, ProcessStart, Start
<1>7. CASE UNCHANGED allVars
  BY <1>7 DEF allVars, vars, service
<1> QED
  BY <1>1, <1>2, <1>3, <1>4, <1>5, <1>6, <1>7 DEF ServiceNext

LEMMA NameInit == ServiceInit => NameTypes /\ NameInv
<1> SUFFICES ASSUME ServiceInit PROVE NameTypes /\ NameInv
  OBVIOUS
<1>1. NameTypes
  BY DEF ServiceInit, NameTypes
<1>2. NameInv
  BY DEF ServiceInit, NameInv, AliasDone, HciDone, FileDone
<1> QED
  BY <1>1, <1>2

(* Nothing but the service gives names, and its process ends between any two  *)
(* of its steps.                                                           *)
LEMMA NameStep ==
  NameTypes /\ NameInv /\ GoneWithProcess /\ [ServiceNext]_allVars
    => (NameTypes /\ NameInv)'
<1> SUFFICES ASSUME NameTypes, NameInv, GoneWithProcess, [ServiceNext]_allVars
             PROVE  (NameTypes /\ NameInv)'
  OBVIOUS
<1> USE DEF NameTypes, NameInv, Target, AliasDone, HciDone, FileDone, names
<1>1. CASE Resolve
  <2>1. ResolveName(file) \in Names \cup {Default}
    BY NamesAssumption DEF ResolveName
  <2>2. CASE at' = "power" /\ naming' = ResolveName(file) /\ shown' = naming'
              /\ failed' = {}
    BY <1>1, <2>1, <2>2 DEF Resolve
  <2>3. CASE GoesDown /\ UNCHANGED <<naming, shown, failed>>
    BY <1>1, <2>3 DEF Resolve, GoesDown
  <2> QED
    BY <1>1, <2>2, <2>3 DEF Resolve
<1>2. CASE PowerAndAlias \/ Rename
  BY <1>2 DEF PowerAndAlias, Rename, SetAlias, Works, Fails
<1>3. CASE SetupHciName \/ RenameHci
  BY <1>3 DEF SetupHciName, RenameHci, SetHciName, AfterHciName, Works, Fails
<1>4. CASE RegisterAgent
  BY <1>4 DEF RegisterAgent, GoesDown
<1>5. CASE TakeRequest
  <2>1. Head(requests) \in BtCommands /\ requests' \in Seq(BtCommands)
    BY <1>5 DEF TakeRequest
  <2>2. CASE Head(requests) = Device
    BY <1>5, <2>1, <2>2 DEF TakeRequest
  <2>3. CASE Head(requests) # Device
    BY <1>5, <2>1, <2>3 DEF TakeRequest, BtCommands
  <2> QED
    BY <2>2, <2>3
<1>6. CASE DeviceCall
  BY <1>6 DEF DeviceCall
<1>7. CASE Truncate
  BY <1>7 DEF Truncate, Fails
<1>8. CASE SaveName
  <2>1. ResolveName(naming) = naming
    BY NamesAssumption DEF ResolveName
  <2>2. CASE Works("file") /\ file' = naming
    BY <1>8, <2>1, <2>2 DEF SaveName, Works
  <2>3. CASE Fails("file") /\ UNCHANGED file
    BY <1>8, <2>3 DEF SaveName, Fails
  <2> QED
    BY <1>8, <2>2, <2>3 DEF SaveName
<1>9. CASE PublishName
  BY <1>9 DEF PublishName
<1>10. CASE LoopEnds
  BY <1>10 DEF LoopEnds
<1>11. ASSUME NEW r \in BtCommands, Request(r)
       PROVE  (NameTypes /\ NameInv)'
  BY <1>11 DEF Request
<1>12. CASE ProcessExit
  <2>1. at' = "out" /\ requests' = <<>> /\ UNCHANGED <<naming, names>>
    BY <1>12 DEF ProcessExit
  <2>2. at # "write" => failed' = failed
    BY <1>12 DEF ProcessExit
  <2>3. at = "write" => "file" \in failed'
    BY <1>12 DEF ProcessExit
  <2>4. NameTypes'
    BY <2>1
  <2>5. "file" \in failed' \/ ResolveName(file') \in {shown', naming'}
    BY <2>1, <2>2, <2>3
  <2> QED
    BY <2>1, <2>4, <2>5
<1>13. CASE ProcessStart
  <2>1. at = "out"
    BY <1>13 DEF ProcessStart, Start, GoneWithProcess
  <2> QED
    BY <1>13, <2>1 DEF ProcessStart
<1>14. CASE UNCHANGED service
  BY <1>14 DEF service
<1> QED
  BY <1>1, <1>2, <1>3, <1>4, <1>5, <1>6, <1>7, <1>8, <1>9, <1>10, <1>11, <1>12,
     <1>13, <1>14 DEF ServiceNext, Service, JoinedWindow, allVars

THEOREM NameInvariant == ServiceSpec => [](NameTypes /\ NameInv)
<1>1. ServiceInit => GoneWithProcess
  BY DEF ServiceInit, Init, GoneWithProcess
<1> QED
  BY <1>1, NameInit, NameStep, GoneStep, PTL DEF ServiceSpec

(* However renames, failures and restarts follow each other, alias, HCI name  *)
(* and file are what users are shown, each unless its own update failed       *)
(* (service.rs 145-163).                                                   *)
THEOREM NamesAgree == ServiceSpec => []NameAgrees
<1>1. NameInv => NameAgrees
  BY DEF NameInv, NameAgrees, Target, AliasDone, HciDone, FileDone
<1> QED
  BY <1>1, NameInvariant, PTL

(* A new process shows the name the one before showed or was giving, unless   *)
(* the write of it failed or was cut short (service.rs:146).                 *)
THEOREM NameSurvives == ServiceSpec => NameKept
<1>1. NameTypes /\ NameInv /\ [ServiceNext]_allVars
        => [at = "start" /\ at' = "power" /\ "file" \notin failed
              => shown' \in {shown, naming}]_allVars
  <2> SUFFICES ASSUME NameInv, [ServiceNext]_allVars, ~UNCHANGED allVars,
                      at = "start", at' = "power", "file" \notin failed
               PROVE  shown' \in {shown, naming}
    OBVIOUS
  <2>1. Resolve
    BY DEF ServiceNext, Service, Resolve, PowerAndAlias, SetupHciName,
           RegisterAgent, TakeRequest, DeviceCall, Rename, RenameHci, SetAlias,
           SetHciName, Truncate, SaveName, PublishName, LoopEnds, Request,
           JoinedWindow, service, ProcessExit, ProcessStart
  <2>2. shown' = ResolveName(file)
    BY <2>1 DEF Resolve, GoesDown
  <2> QED
    BY <2>2 DEF NameInv
<1> QED
  BY <1>1, NameInvariant, PTL DEF ServiceSpec, NameKept
=============================================================================
