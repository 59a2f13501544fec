----------------------------- MODULE BtService -----------------------------
(***************************************************************************)
(* The Bluetooth service around the pairing window (bluetooth/service.rs):   *)
(* the setup of the adapter at every start, then a command loop joined to     *)
(* the window. A rename has four effects one after the other, each of which   *)
(* may fail: the BlueZ alias, the HCI name, the file that outlives the        *)
(* process (bluetooth/name_config.rs) and AppState.                         *)
(***************************************************************************)
EXTENDS PairingWindow

CONSTANTS
  Names,     \* what users call the adapter, trimmed and not too long
  Default,   \* DEFAULT_NAME
  EnvName,   \* SOUNDSYNC_NAME; Empty if it is not set
  Empty,     \* no name: a file that is absent, unreadable or empty
  BtCap      \* capacity of the BtCommand channel (16)

ASSUME NamesAssumption ==
  /\ Empty \notin Names \cup {Default}
  /\ EnvName \in Names \cup {Default, Empty}
  /\ BtCap \in Nat \ {0}

VARIABLES
  at,        \* the await, or the effect of a rename, the service is at
  naming,    \* the name being given to the adapter
  requests,  \* BtCommands accepted and not received
  file,      \* ~/.config/soundsync/device-name
  shown,     \* AppState.device_name (history while no process runs)
  alias,     \* BlueZ
  hciName,   \* the controller
  failed     \* history: the effects of the last naming that failed

names   == <<file, shown, alias, hciName>>
service == <<at, naming, requests, names, failed>>
allVars == <<vars, service>>

(* BtCommand: SetName is its name; Connect, Disconnect and Forget, whose     *)
(* effect is BlueZ's, are one.                                             *)
Device     == "device"
BtCommands == Names \cup {Device}

(* The window and the command loop run once the adapter is set up.           *)
Joined == at \notin {"out", "start", "power", "hci", "agent", "down"}

-----------------------------------------------------------------------------
(* POST /api/settings/name and /api/bluetooth/:addr/:action.                *)
Request(r) ==
  /\ "renames" \in faults
  /\ at \notin {"out", "down", "ended"}
  /\ ~gone
  /\ Len(requests) < BtCap
  /\ requests' = Append(requests, r)
  /\ UNCHANGED <<vars, at, naming, names, failed>>

(* A call that works, or fails and leaves what it should change alone.       *)
Works(effect) == failed' = failed \ {effect}
Fails(effect) == "refused" \in faults /\ failed' = failed \cup {effect}

-----------------------------------------------------------------------------
(* run_bluetooth.                                                          *)

(* Variant: the environment comes before what the user chose.               *)
EnvFirst(persisted) ==
  IF EnvName # Empty THEN EnvName
  ELSE IF persisted # Empty THEN persisted ELSE Default

ResolveName(persisted) ==
  IF persisted # Empty THEN persisted
  ELSE IF EnvName # Empty THEN EnvName ELSE Default

GoesDown == "refused" \in faults /\ at' = "down"

(* The name is shown before anything is done about it.                      *)
Resolve ==
  /\ at = "start"
  /\ \/ /\ at' = "power"
        /\ naming' = ResolveName(file)
        /\ shown' = naming'
        /\ failed' = {}
     \/ GoesDown /\ UNCHANGED <<naming, shown, failed>>
  /\ UNCHANGED <<vars, requests, file, alias, hciName>>

SetAlias(from, to) ==
  /\ at = from
  /\ \/ Works("alias") /\ alias' = naming
     \/ Fails("alias") /\ UNCHANGED alias
  /\ at' = to
  /\ UNCHANGED <<vars, naming, requests, file, shown, hciName>>

SetHciName(from, to) ==
  /\ at = from
  /\ \/ Works("hci") /\ hciName' = naming
     \/ Fails("hci") /\ UNCHANGED hciName
  /\ at' = to
  /\ UNCHANGED <<vars, naming, requests, file, shown, alias>>

PowerAndAlias == SetAlias("power", "hci")
SetupHciName  == SetHciName("hci", "agent")

(* Discovery, which is started next, may fail without any consequence here.  *)
RegisterAgent ==
  /\ at = "agent"
  /\ at' = "loop" \/ GoesDown
  /\ UNCHANGED <<vars, naming, requests, names, failed>>

-----------------------------------------------------------------------------
(* run_bt_command_loop.                                                    *)

TakeRequest ==
  /\ at = "loop"
  /\ ~shutdown
  /\ requests # <<>>
  /\ requests' = Tail(requests)
  /\ IF Head(requests) = Device
     THEN at' = "device" /\ UNCHANGED naming
     ELSE at' = "alias" /\ naming' = Head(requests)
  /\ UNCHANGED <<vars, names, failed>>

DeviceCall ==
  /\ at = "device"
  /\ at' = "loop"
  /\ UNCHANGED <<vars, naming, requests, names, failed>>

(* Variant: a rename that BlueZ refuses is not saved.                       *)
OnlyIfRenamed == IF failed = {} THEN "save" ELSE "publish"

AfterHciName == "save"

Rename     == SetAlias("alias", "rehci")
RenameHci  == SetHciName("rehci", AfterHciName)

(* save_device_name: the file is emptied, then written.                     *)
Truncate ==
  /\ at = "save"
  /\ \/ at' = "write" /\ file' = Empty /\ UNCHANGED failed
     \/ at' = "publish" /\ Fails("file") /\ UNCHANGED file
  /\ UNCHANGED <<vars, naming, requests, shown, alias, hciName>>

SaveName ==
  /\ at = "write"
  /\ \/ Works("file") /\ file' = naming
     \/ Fails("file") /\ UNCHANGED file
  /\ at' = "publish"
  /\ UNCHANGED <<vars, naming, requests, shown, alias, hciName>>

PublishName ==
  /\ at = "publish"
  /\ shown' = naming
  /\ at' = "loop"
  /\ UNCHANGED <<vars, naming, requests, file, alias, hciName, failed>>

LoopEnds ==
  /\ at = "loop"
  /\ shutdown \/ (gone /\ requests = <<>>)
  /\ at' = "ended"
  /\ UNCHANGED <<vars, naming, requests, names, failed>>

-----------------------------------------------------------------------------
(* The process, whose end may cut a write short.                            *)

ProcessExit ==
  /\ Exit
  /\ at' = "out"
  /\ failed' = IF at = "write" THEN failed \cup {"file"} ELSE failed
  /\ requests' = <<>>
  /\ UNCHANGED <<naming, names>>

ProcessStart ==
  /\ Start
  /\ at' = "start"
  /\ UNCHANGED <<naming, requests, names, failed>>

ServiceInit ==
  /\ Init
  /\ at = "start"
  /\ naming = Default
  /\ requests = <<>>
  /\ file \in {Empty} \cup {n \in Names : "renames" \in faults}
  /\ shown = ResolveName(file)
  /\ alias = Default
  /\ hciName = Default
  /\ failed = {}

Service ==
  \/ Resolve
  \/ PowerAndAlias
  \/ SetupHciName
  \/ RegisterAgent
  \/ TakeRequest
  \/ DeviceCall
  \/ Rename
  \/ RenameHci
  \/ Truncate
  \/ SaveName
  \/ PublishName
  \/ LoopEnds

JoinedWindow == Joined /\ Window /\ UNCHANGED service

ServiceNext ==
  \/ Service
  \/ JoinedWindow
  \/ Tick /\ UNCHANGED service
  \/ "renames" \notin faults /\ (\E c \in Commands : Submit(c)) /\ UNCHANGED service
  \/ \E r \in BtCommands : Request(r)
  \/ SenderDrops /\ UNCHANGED service
  \/ RequestShutdown /\ UNCHANGED service
  \/ ProcessExit
  \/ ProcessStart
  \/ AdapterReset /\ UNCHANGED service

ServiceSpec ==
  /\ ServiceInit
  /\ [][ServiceNext]_allVars
  /\ WF_allVars(Service)
  /\ WF_allVars(JoinedWindow)
  /\ WF_allVars(Tick /\ UNCHANGED service)
  /\ WF_allVars(ProcessStart /\ ~shutdown)

-----------------------------------------------------------------------------
(* Between two commands the adapter's alias, its HCI name and the file stand   *)
(* for the name the users are shown, each unless its own update failed: no    *)
(* failure of one keeps another from following (service.rs 145-163).         *)
NameAgrees ==
  at = "loop" =>
    /\ "alias" \in failed \/ alias = shown
    /\ "hci" \in failed \/ hciName = shown
    /\ "file" \in failed \/ ResolveName(file) = shown

(* service.rs:146 "we still persist + publish so the name sticks across         *)
(* restarts even if the live update failed": a process that starts shows what   *)
(* the one before showed last, or the name it was just giving, unless the      *)
(* write of that name failed or was cut short by the end of the process.      *)
NameKept ==
  [][at = "start" /\ at' = "power" /\ "file" \notin failed
       => shown' \in {shown, naming}]_allVars
=============================================================================
