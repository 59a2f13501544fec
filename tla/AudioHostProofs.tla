-------------------------- MODULE AudioHostProofs ---------------------------
(***************************************************************************)
(* The EQ controller, its supervised filter chain and the nodes it drives,   *)
(* for any gains, any queue capacity, any number of processes and any faults; *)
(* and the subcommands that configure and examine the host, for any binaries, *)
(* adapters and accidents.                                                  *)
(***************************************************************************)
EXTENDS EqRouting, Installation, TLAPS

-----------------------------------------------------------------------------
(* Type correctness. A node belongs to a process that was spawned.           *)

NodesSpawned == nodes \subseteq 1 .. spawned /\ proc \in 0 .. spawned

LEMMA InitType == Init => TypeOK /\ NodesSpawned
<1> SUFFICES ASSUME Init PROVE TypeOK /\ NodesSpawned
  OBVIOUS
<1>1. cmds \in Seq(Commands) /\ Len(cmds) <= QueueCap
  BY BoundsAssumption DEF Init
<1>2. nodeGains \in [Procs -> Gains] /\ nodes \in SUBSET Procs /\ NodesSpawned
  BY GainsAssumption DEF Init, NodesSpawned
<1>3. ui \in [enabled : BOOLEAN, gains : Gains]
  BY GainsAssumption DEF Init
<1> QED
  BY <1>1, <1>2, <1>3, GainsAssumption DEF Init, TypeOK, Sinks

LEMMA TypeStep ==
  TypeOK /\ NodesSpawned /\ [Next]_vars => TypeOK' /\ NodesSpawned'
<1> SUFFICES ASSUME TypeOK, NodesSpawned, [Next]_vars
             PROVE  TypeOK' /\ NodesSpawned'
  OBVIOUS
<1> USE BoundsAssumption DEF TypeOK, NodesSpawned, eqVars, supVars, loopVars,
        graphVars
<1>1. ASSUME NEW c \in Commands, Submit(c)
      PROVE  TypeOK' /\ NodesSpawned'
  BY <1>1 DEF Submit, HasRoom
<1>2. CASE RequestShutdown
  BY <1>2 DEF RequestShutdown
<1>3. CASE ControllerEnds
  BY <1>3 DEF ControllerEnds
<1>4. CASE Enable
  BY <1>4 DEF Enable, Receive
<1>5. CASE NodeSeen
  BY <1>5 DEF NodeSeen, SendRoute, Listed, Sinks
<1>6. CASE NodeMissing
  BY <1>6 DEF NodeMissing
<1>7. CASE Disable
  BY <1>7 DEF Disable, Receive, SendRoute, Sinks
<1>8. CASE Aborted
  <2>1. ui' \in [enabled : BOOLEAN, gains : Gains]
    BY <1>8 DEF Aborted
  <2> QED
    BY <1>8, <2>1 DEF Aborted, Abort, KillOnDrop, SendRoute, Sinks
<1>9. ASSUME NEW g \in Gains, UpdateGains(g)
      PROVE  TypeOK' /\ NodesSpawned'
  <2>1. ui' \in [enabled : BOOLEAN, gains : Gains]
    <3>1. CASE sup = "none"
      <4>1. ui' = [enabled |-> FALSE, gains |-> g]
        BY <1>9, <3>1 DEF UpdateGains
      <4> QED
        BY <4>1
    <3>2. CASE sup # "none"
      BY <1>9, <3>2 DEF UpdateGains
    <3> QED
      BY <3>1, <3>2
  <2> QED
    BY <1>9, <2>1 DEF UpdateGains, Receive
<1>10. CASE Probe
  BY <1>10 DEF Probe, Probed, Listed
<1>11. CASE SetGains
  <2>1. ui' \in [enabled : BOOLEAN, gains : Gains]
    BY <1>11 DEF SetGains
  <2>2. nodeGains' \in [Procs -> Gains]
    BY <1>11 DEF SetGains
  <2> QED
    BY <1>11, <2>1, <2>2 DEF SetGains
<1>12. CASE SpawnChain
  <2>1. /\ spawned' = spawned + 1 /\ proc' = spawned' /\ spawned \in Nat
        /\ spawned' \in Procs
    BY <1>12 DEF SpawnChain, Procs
  <2>2. NodesSpawned'
    BY <1>12, <2>1 DEF SpawnChain
  <2>3. TypeOK'
    BY <1>12, <2>1 DEF SpawnChain
  <2> QED
    BY <2>2, <2>3
<1>13. CASE ChainExits \/ Respawn \/ ChainStops
  <2>1. proc' \in {0, proc} /\ sup' \in {"none", "starting", "running", "backoff"}
    BY <1>13 DEF ChainExits, Respawn, ChainStops, KillOnDrop
  <2>2. UNCHANGED <<eqVars, supGains, spawned, loopVars, graphVars, shutdown, faults>>
    BY <1>13 DEF ChainExits, Respawn, ChainStops
  <2>3. spawned \in Nat
    BY DEF Procs
  <2> QED
    BY <2>1, <2>2, <2>3
<1>14. CASE NodeAppears
  <2>1. proc \in Procs /\ proc \in 1 .. spawned
    BY <1>14 DEF NodeAppears
  <2> QED
    BY <1>14, <2>1 DEF NodeAppears
<1>15. CASE NodeVanishes
  BY <1>15 DEF NodeVanishes
<1>16. CASE DefaultDrifts
  BY <1>16 DEF DefaultDrifts
<1>17. CASE FirstEvent \/ Drain \/ ReconcileEnds
  <2>1. events' \in BOOLEAN
    BY <1>17 DEF FirstEvent, Drain, ReconcileEnds
  <2>2. rPc' \in {"wait", "debounce", "apply", "ended"}
    BY <1>17 DEF FirstEvent, Drain, ReconcileEnds
  <2>3. UNCHANGED <<eqVars, supVars, busy, got, done, nodes, nodeGains, default,
                    shutdown, faults>>
    BY <1>17 DEF FirstEvent, Drain, ReconcileEnds
  <2> QED
    BY <2>1, <2>2, <2>3
<1>18. CASE Reconcile \/ Reassert
  <2>1. /\ rPc' \in {rPc, "apply"} /\ busy' \in {"reconcile", "admin"} /\ got' = route
        /\ UNCHANGED <<eqVars, supVars, done, graphVars, shutdown, faults>>
    BY <1>18 DEF Reconcile, Reassert
  <2> QED
    BY <2>1
<1>19. CASE SetDefault
  <2>1. events' \in BOOLEAN
    BY <1>19 DEF SetDefault, EventsAfterSet
  <2>2. /\ default' \in Sinks \cup {"other"} /\ done' \in BOOLEAN
        /\ rPc' \in {"wait", "debounce", "apply", "ended"} /\ busy' = "none"
    <3>1. done' \in BOOLEAN
      BY <1>19 DEF SetDefault
    <3>2. default' \in Sinks \cup {"other"}
      BY <1>19 DEF SetDefault, Applied
    <3> QED
      BY <1>19, <3>1, <3>2 DEF SetDefault
  <2>3. UNCHANGED <<eqVars, supVars, got, nodes, nodeGains, shutdown, faults>>
    BY <1>19 DEF SetDefault
  <2> QED
    BY <2>1, <2>2, <2>3
<1>20. CASE UNCHANGED vars
  BY <1>20 DEF vars
<1> QED
  BY <1>1, <1>2, <1>3, <1>4, <1>5, <1>6, <1>7, <1>8, <1>9, <1>10, <1>11, <1>12,
     <1>13, <1>14, <1>15, <1>16, <1>17, <1>18, <1>19, <1>20
     DEF Next, EqController, Supervisor, Daemon, PipeWire

THEOREM TypeCorrect == Spec => []TypeOK
<1>1. Init => TypeOK /\ NodesSpawned
  BY InitType
<1>2. TypeOK /\ NodesSpawned /\ [Next]_vars => (TypeOK /\ NodesSpawned)'
  BY TypeStep
<1> QED
  BY <1>1, <1>2, PTL DEF Spec

-----------------------------------------------------------------------------
(* What the user is told. Inductive only with the halves of each command: a   *)
(* process runs under a supervisor that says so; while the controller waits    *)
(* for a node the supervisor's factory holds its gains; while it drives one,   *)
(* the EQ is on. Without faults of the process it drives the node of the       *)
(* process, which was up when the waiting ended, so no later appearance can     *)
(* bring the factory's older gains back.                                    *)

Calm == faults \subseteq {"drift", "admin"}

Driving == ePc \in {"idle", "probe", "set"} /\ sup # "none"

Told ==
  ePc = "idle" =>
    /\ ui.enabled <=> sup # "none"
    /\ route = "eq" <=> sup # "none"
    /\ ui.gains = gains

Halves ==
  /\ proc # 0 => sup = "running"
  /\ ePc = "wait" => sup # "none" /\ supGains = gains
  /\ ePc \in {"probe", "set"} => sup # "none" /\ route = "eq"

Driven ==
  Calm =>
    /\ Driving => sup = "running" /\ proc \in nodes \cup {0}
    /\ ePc = "set" /\ proc # 0 => nodeId = proc
    /\ ePc \in {"idle", "wait"} /\ proc \in nodes => nodeGains[proc] = gains

EqInv == Told /\ Halves /\ Driven

LEMMA EqInit == Init => EqInv
BY DEF Init, EqInv, Told, Halves, Driven, Driving, Calm

LEMMA CommandStep ==
  ASSUME TypeOK, NodesSpawned, EqInv, EqController
  PROVE  EqInv'
<1> USE DEF EqInv, Told, Halves, Driven, Driving, Calm, supVars, loopVars,
        graphVars, NodesSpawned
<1>0. /\ spawned \in Nat /\ 0 \notin nodes
      /\ sup \in {"none", "starting", "running", "backoff"}
      /\ nodeGains \in [Procs -> Gains] /\ nodes \subseteq Procs
      /\ ui \in [enabled : BOOLEAN, gains : Gains]
  BY DEF TypeOK, Procs
<1>1. CASE ControllerEnds
  BY <1>0, <1>1 DEF ControllerEnds
<1>2. CASE Enable
  <2>1. CASE sup = "none"
    BY <1>0, <1>2, <2>1 DEF Enable, Receive
  <2>2. CASE sup # "none"
    BY <1>0, <1>2, <2>2 DEF Enable, Receive
  <2> QED
    BY <2>1, <2>2
<1>3. CASE NodeSeen
  <2>1. faults \subseteq {"drift", "admin"} => Listed = nodes \cap {proc}
    BY DEF Listed
  <2> QED
    BY <1>0, <1>3, <2>1 DEF NodeSeen, SendRoute
<1>4. CASE NodeMissing
  BY <1>0, <1>4 DEF NodeMissing
<1>5. CASE Disable
  BY <1>0, <1>5 DEF Disable, Receive, SendRoute
<1>6. CASE Aborted
  BY <1>0, <1>6 DEF Aborted, Abort, KillOnDrop, SendRoute
<1>7. ASSUME NEW g \in Gains, UpdateGains(g)
      PROVE  EqInv'
  <2>1. CASE sup = "none"
    BY <1>0, <1>7, <2>1 DEF UpdateGains, Receive
  <2>2. CASE sup # "none"
    BY <1>0, <1>7, <2>2 DEF UpdateGains, Receive
  <2> QED
    BY <2>1, <2>2
<1>8. CASE Probe
  <2>1. faults \subseteq {"drift", "admin"} =>
          Probed = IF proc \in nodes THEN {proc} ELSE {0}
    BY DEF Probed, Listed
  <2> QED
    BY <1>0, <1>8, <2>1 DEF Probe
<1>9. CASE SetGains
  <2>1. ui'.gains = gains' /\ (ui'.enabled <=> sup' # "none")
    BY <1>9 DEF SetGains
  <2>2. faults \subseteq {"drift", "admin"} /\ proc \in nodes =>
          nodeGains'[proc] = gains
    BY <1>0, <1>9 DEF SetGains
  <2> QED
    BY <1>0, <1>9, <2>1, <2>2 DEF SetGains
<1> QED
  BY <1>1, <1>2, <1>3, <1>4, <1>5, <1>6, <1>7, <1>8, <1>9 DEF EqController

LEMMA ChainStep ==
  ASSUME TypeOK, NodesSpawned, EqInv,
         Supervisor \/ ChainExits \/ PipeWire
  PROVE  EqInv'
<1> USE DEF EqInv, Told, Halves, Driven, Driving, Calm, eqVars, loopVars,
        graphVars, NodesSpawned
<1>0. /\ spawned \in Nat /\ 0 \notin nodes
      /\ sup \in {"none", "starting", "running", "backoff"}
      /\ nodeGains \in [Procs -> Gains] /\ nodes \subseteq Procs
      /\ proc \in Procs \cup {0}
  BY DEF TypeOK, Procs
<1>1. CASE SpawnChain
  <2>1. proc' \notin nodes' /\ sup # "none"
    BY <1>0, <1>1 DEF SpawnChain
  <2>2. faults \subseteq {"drift", "admin"} => ePc \notin {"idle", "probe", "set"}
    BY <1>1 DEF SpawnChain
  <2> QED
    BY <1>0, <1>1, <2>1, <2>2 DEF SpawnChain
<1>2. CASE Respawn
  BY <1>0, <1>2 DEF Respawn
<1>3. CASE ChainStops
  BY <1>0, <1>3 DEF ChainStops, KillOnDrop
<1>4. CASE ChainExits
  BY <1>0, <1>4 DEF ChainExits
<1>5. CASE NodeAppears
  <2>1. nodeGains'[proc] = supGains /\ sup = "running"
    BY <1>0, <1>5 DEF NodeAppears
  <2> QED
    BY <1>0, <1>5, <2>1 DEF NodeAppears, supVars
<1>6. CASE NodeVanishes
  BY <1>0, <1>6 DEF NodeVanishes, supVars
<1> QED
  BY <1>1, <1>2, <1>3, <1>4, <1>5, <1>6 DEF Supervisor, PipeWire

LEMMA EqStep ==
  TypeOK /\ NodesSpawned /\ EqInv /\ [Next]_vars => EqInv'
<1> SUFFICES ASSUME TypeOK, NodesSpawned, EqInv, [Next]_vars PROVE EqInv'
  OBVIOUS
<1>1. ASSUME UNCHANGED <<ePc, nodeId, gains, route, ui, supVars, nodes,
                         nodeGains, faults>>
      PROVE  EqInv'
  BY <1>1 DEF EqInv, Told, Halves, Driven, Driving, Calm, supVars
<1>2. ASSUME NEW c \in Commands, Submit(c)
      PROVE  EqInv'
  BY <1>1, <1>2 DEF Submit, graphVars
<1>3. CASE RequestShutdown \/ DefaultDrifts \/ Drain \/ Reassert
  BY <1>1, <1>3 DEF RequestShutdown, DefaultDrifts, Drain, Reassert, eqVars,
     graphVars
<1>4. CASE Daemon
  BY <1>1, <1>4 DEF Daemon, FirstEvent, Reconcile, SetDefault, ReconcileEnds,
     eqVars, graphVars
<1>5. CASE EqController
  BY <1>5, CommandStep
<1>6. CASE Supervisor \/ ChainExits \/ PipeWire
  BY <1>6, ChainStep
<1>7. CASE UNCHANGED vars
  BY <1>1, <1>7 DEF vars, eqVars, graphVars
<1> QED
  BY <1>2, <1>3, <1>4, <1>5, <1>6, <1>7 DEF Next

(* Between two commands what the user is told of the EQ is true, for any gains, *)
(* however many commands wait and whichever faults there are.                *)
THEOREM UiHolds == Spec => []UiTruthful
<1>1. Init => TypeOK /\ NodesSpawned /\ EqInv
  BY InitType, EqInit
<1>2. TypeOK /\ NodesSpawned /\ EqInv /\ [Next]_vars
        => (TypeOK /\ NodesSpawned /\ EqInv)'
  BY TypeStep, EqStep
<1>3. EqInv => UiTruthful
  BY DEF EqInv, Told, Driven, Calm, UiTruthful, GainsLive
<1> QED
  BY <1>1, <1>2, <1>3, PTL DEF Spec

-----------------------------------------------------------------------------
(* What moved the default sink left an event, or the loop is on its way.      *)

LEMMA NoticedStep ==
  TypeOK /\ DriftNoticed /\ [Next]_vars => DriftNoticed'
<1> SUFFICES ASSUME TypeOK, DriftNoticed, [Next]_vars PROVE DriftNoticed'
  OBVIOUS
<1> USE DEF DriftNoticed
<1>1. ASSUME UNCHANGED <<loopVars, default>>, events' \in {events, TRUE}
      PROVE  DriftNoticed'
  BY <1>1 DEF loopVars
<1>2. ASSUME NEW c \in Commands, Submit(c)
      PROVE  UNCHANGED <<loopVars, graphVars>>
  BY <1>2 DEF Submit
<1>3. CASE EqController
  <2>1. UNCHANGED <<loopVars, events, default>>
    BY <1>3 DEF EqController, ControllerEnds, Enable, NodeSeen, NodeMissing,
       Disable, Aborted, UpdateGains, Probe, SetGains, graphVars
  <2> QED
    BY <1>1, <2>1 DEF loopVars
<1>4. CASE Supervisor \/ ChainExits \/ RequestShutdown
  <2>1. UNCHANGED <<loopVars, events, default>>
    BY <1>4 DEF Supervisor, SpawnChain, Respawn, ChainStops, ChainExits,
       RequestShutdown, graphVars
  <2> QED
    BY <1>1, <2>1 DEF loopVars
<1>5. CASE NodeAppears
  BY <1>1, <1>5 DEF NodeAppears
<1>6. CASE NodeVanishes \/ DefaultDrifts
  BY <1>6 DEF NodeVanishes, DefaultDrifts, loopVars
<1>7. CASE FirstEvent \/ Drain \/ Reconcile \/ Reassert \/ ReconcileEnds
  BY <1>7 DEF FirstEvent, Drain, Reconcile, Reassert, ReconcileEnds, loopVars,
     graphVars
<1>8. CASE SetDefault
  BY <1>8 DEF SetDefault, Applied
<1>9. CASE UNCHANGED vars
  BY <1>1, <1>9 DEF vars, graphVars
<1> QED
  BY <1>1, <1>2, <1>3, <1>4, <1>5, <1>6, <1>7, <1>8, <1>9
     DEF Next, PipeWire, Daemon, graphVars

(* A reconcile loop that sleeps has nothing to do, whoever moved the default   *)
(* sink, for any number of faults and of restarts.                           *)
THEOREM NoticedHolds == Spec => []DriftNoticed
<1>1. Init => DriftNoticed
  BY DEF Init, DriftNoticed
<1>2. TypeOK /\ DriftNoticed /\ [Next]_vars => DriftNoticed'
  BY NoticedStep
<1> QED
  BY <1>1, <1>2, TypeCorrect, PTL DEF Spec

-----------------------------------------------------------------------------
(* The subcommands. A file is absent or whole, whoever wrote it.              *)
FileTexts == [set : SUBSET REQUIRED_WP_KEYS, said : SUBSET REQUIRED_WP_KEYS]

HostTypes ==
  /\ lacks \in SUBSET Needs
  /\ reads \in Formats
  /\ files \in [Formats -> FileTexts \cup {Absent}]

(* What a configuring subcommand has done so far; undisturbed, it was about    *)
(* the format that WirePlumber reads.                                        *)
ApplyInv ==
  /\ apply = [at |-> apply.at, restarted |-> apply.restarted, hci |-> apply.hci,
              calm |-> apply.calm, format |-> apply.format,
              answered |-> apply.answered]
  /\ apply.at \in {"none", "version", "remove", "write", "rename", "restart",
                   "class", "name", "ok", "failed"}
  /\ apply.at \in {"none", "version", "class", "name"} => apply.format = Unset
  /\ apply.at \in {"remove", "write", "rename", "restart"} => apply.format \in Formats
  /\ apply.at \notin {"ok", "failed"} => ~apply.restarted
  /\ apply.at = "rename" => tmp = Generate(apply.format)
  /\ apply.calm =>
       /\ apply.answered /\ apply.at \in {"remove", "write", "rename", "restart"} =>
            apply.format = reads
       /\ apply.at \in {"write", "rename", "restart"} =>
            files[Opposite(apply.format)] = Absent
       /\ apply.at = "restart" => files[apply.format] = Generate(apply.format)
       /\ apply.answered /\ apply.at = "ok" /\ apply.format # Unset =>
            /\ files[reads] = Generate(reads)
            /\ files[Opposite(reads)] = Absent
            /\ apply.restarted => live = files[reads]

(* The checks in their order.                                                *)
AfterHci      == {"web", "done"}
AfterRead     == {"hci"} \cup AfterHci
AfterProbe    == {"read"} \cup AfterRead
AfterPactl    == {"version", "probe"} \cup AfterProbe
AfterBinaries == {"pactl"} \cup AfterPactl

Judged == IF doctor.answered THEN reads
          ELSE IF files["SpaJson"] # Absent /\ files["Lua"] = Absent THEN "SpaJson"
          ELSE "Lua"

(* An undisturbed doctor has failed and warned of what is wrong, and of       *)
(* nothing else.                                                            *)
DoctorInv ==
  /\ doctor = [at |-> doctor.at, fails |-> doctor.fails, warns |-> doctor.warns,
               calm |-> doctor.calm, format |-> doctor.format,
               answered |-> doctor.answered]
  /\ doctor.at \in {"none", "binaries"} \cup AfterBinaries
  /\ doctor.fails \subseteq {"binaries", "pipewire-running", "wp-config"}
  /\ doctor.at = "probe" => ~doctor.answered
  /\ doctor.calm =>
       /\ "binaries" \in doctor.fails <=> doctor.at \in AfterBinaries /\ lacks \cap Bins # {}
       /\ "pipewire-running" \in doctor.fails <=>
            doctor.at \in AfterPactl /\ lacks \cap {"pactl", "pipewire"} # {}
       /\ doctor.at \in AfterProbe => doctor.format = Judged
       /\ "wp-config" \in doctor.fails <=> doctor.at \in AfterRead /\ Drifted(Judged)
       /\ "bt-adapter" \in doctor.warns <=> doctor.at \in AfterHci /\ ~HciAnswers(ResolveAdapter)

InstallInv == HostTypes /\ ApplyInv /\ DoctorInv

LEMMA GenerateIs ==
  ASSUME NEW f \in Formats
  PROVE  /\ Generate(f) \in FileTexts
         /\ Opposite(f) \in Formats /\ Opposite(f) # f
         /\ ExpectedKeys(f) = Generate(f).set
<1>1. f \in {"Lua", "SpaJson"}
  BY DEF Formats
<1>2. Generate(f) \in FileTexts /\ Opposite(f) \in Formats /\ Opposite(f) # f
  BY <1>1 DEF Generate, FileTexts, REQUIRED_WP_KEYS, Opposite, Formats
<1>3. Generate(f).said \subseteq Generate(f).set /\ Generate(f).set \subseteq REQUIRED_WP_KEYS
  BY <1>1 DEF Generate, REQUIRED_WP_KEYS
<1> QED BY <1>2, <1>3 DEF ExpectedKeys, Mentions

LEMMA InstallBegins ==
  InstallInit => InstallInv
<1> SUFFICES ASSUME InstallInit
             PROVE  InstallInv
  OBVIOUS
<1>1. HostTypes
  BY DEF InstallInit, HostTypes, Needs
<1>2. ApplyInv
  BY DEF InstallInit, ApplyInv, Configuring
<1>3. DoctorInv
  BY DEF InstallInit, DoctorInv, Diagnosing, AfterBinaries, AfterPactl, AfterProbe,
         AfterRead, AfterHci
<1> QED BY <1>1, <1>2, <1>3 DEF InstallInv

-----------------------------------------------------------------------------
(* A process that is disturbed, or left alone, keeps its part.                *)

LEMMA ApplyDisturbed ==
  ASSUME ApplyInv, apply' = Disturbed(apply), tmp' = tmp
  PROVE  ApplyInv'
BY DEF ApplyInv, Disturbed

LEMMA ApplyAlone ==
  ASSUME ApplyInv, UNCHANGED <<apply, reads, files, tmp>>, live' \in {live, files[reads]}
  PROVE  ApplyInv'
BY DEF ApplyInv

LEMMA DoctorDisturbed ==
  ASSUME DoctorInv, doctor' = Disturbed(doctor)
  PROVE  DoctorInv'
BY DEF DoctorInv, Disturbed

LEMMA DoctorSees ==
  ASSUME UNCHANGED <<lacks, hcis, files, reads>>
  PROVE  /\ \A f : Drifted(f)' <=> Drifted(f)
         /\ HciAnswers(ResolveAdapter)' <=> HciAnswers(ResolveAdapter)
BY DEF Drifted, HciAnswers, ResolveAdapter

LEMMA DoctorAlone ==
  ASSUME DoctorInv, UNCHANGED <<doctor, lacks, hcis, files, reads>>
  PROVE  DoctorInv'
BY DoctorSees DEF DoctorInv, Judged

LEMMA HostAlone ==
  ASSUME HostTypes, UNCHANGED <<lacks, reads, files>>
  PROVE  HostTypes'
BY DEF HostTypes

-----------------------------------------------------------------------------
(* What others do to the host.                                               *)
LEMMA HostStep ==
  ASSUME InstallInv,
         \/ \E f \in Formats, k \in REQUIRED_WP_KEYS : Edit(f, k) \/ Drop(f, k)
         \/ \E f \in Formats : RemoveOrRestore(f)
         \/ HostChanges
  PROVE  InstallInv'
<1>1. apply' = Disturbed(apply) /\ doctor' = Disturbed(doctor) /\ tmp' = tmp
  BY DEF Edit, Drop, RemoveOrRestore, HostChanges, Change
<1>2. ApplyInv' /\ DoctorInv'
  BY <1>1, ApplyDisturbed, DoctorDisturbed DEF InstallInv
<1>3. CASE HostChanges
  <2>1. lacks' \subseteq Needs /\ reads' \in Formats /\ files' = files
    BY <1>3, GenerateIs DEF HostChanges, InstallInv, HostTypes
  <2> QED BY <1>2, <2>1 DEF InstallInv, HostTypes
<1>4. ASSUME NEW f \in Formats, RemoveOrRestore(f)
      PROVE  HostTypes'
  <2>1. Generate(f) \in FileTexts
    BY GenerateIs
  <2> QED BY <1>4, <2>1 DEF RemoveOrRestore, host, InstallInv, HostTypes
<1>5. ASSUME NEW f \in Formats, NEW k \in REQUIRED_WP_KEYS, Edit(f, k) \/ Drop(f, k)
      PROVE  HostTypes'
  <2>1. files[f] \in FileTexts /\ UNCHANGED <<lacks, reads>>
    BY <1>5 DEF Edit, Drop, host, InstallInv, HostTypes
  <2>2. PICK set \in SUBSET REQUIRED_WP_KEYS, said \in SUBSET REQUIRED_WP_KEYS :
          files[f] = [set |-> set, said |-> said]
    BY <2>1 DEF FileTexts
  <2>3. \A t \in FileTexts : [files EXCEPT ![f] = t] \in [Formats -> FileTexts \cup {Absent}]
    BY DEF InstallInv, HostTypes
  <2>4. \/ files' = [files EXCEPT ![f] = [set |-> set \ {k}, said |-> said \cup {k}]]
        \/ files' = [files EXCEPT ![f] = [set |-> set \ {k}, said |-> said \ {k}]]
        \/ files' = [files EXCEPT ![f] = [set |-> set \ {k}, said |-> said]]
    BY <1>5, <2>2 DEF Edit, Drop, InstallInv, HostTypes
  <2>5. /\ [set |-> set \ {k}, said |-> said \cup {k}] \in FileTexts
        /\ [set |-> set \ {k}, said |-> said \ {k}] \in FileTexts
        /\ [set |-> set \ {k}, said |-> said] \in FileTexts
    BY <2>2 DEF FileTexts
  <2>6. files' \in [Formats -> FileTexts \cup {Absent}]
    BY <2>3, <2>4, <2>5, Zenon
  <2> QED BY <2>1, <2>6 DEF InstallInv, HostTypes
<1> QED BY <1>2, <1>3, <1>4, <1>5 DEF InstallInv

(* What a configuring subcommand does.                                       *)
LEMMA ApplyStep ==
  ASSUME InstallInv,
         \/ DetectFormat \/ RemoveStale \/ WriteTmp \/ Rename \/ RestartWirePlumber
         \/ SetClass \/ SetName \/ Killed
  PROVE  InstallInv'
<1>1. CASE DetectFormat
  <2>1. ApplyInv'
    BY <1>1, InstallAssumption
       DEF DetectFormat, Banner, host, InstallInv, HostTypes, ApplyInv, Formats
  <2> QED BY <1>1, <2>1, HostAlone, DoctorAlone DEF DetectFormat, host, InstallInv
<1>2. CASE RemoveStale /\ apply'.at # "failed"
  <2>1. /\ apply.at = "remove" /\ apply' = [apply EXCEPT !.at = "write"]
        /\ files' = [files EXCEPT ![StaleFormat] = Absent]
        /\ doctor' = Disturbed(doctor)
        /\ UNCHANGED <<lacks, reads, tmp>>
    BY <1>2 DEF RemoveStale, Refused, host, InstallInv, ApplyInv
  <2>2. StaleFormat \in Formats /\ StaleFormat = Opposite(apply.format)
    BY <2>1, GenerateIs DEF StaleFormat, InstallInv, ApplyInv
  <2>3. HostTypes' /\ files'[Opposite(apply.format)] = Absent
    BY <2>1, <2>2 DEF InstallInv, HostTypes
  <2>4. ApplyInv'
    BY <2>1, <2>3 DEF InstallInv, ApplyInv
  <2> QED BY <2>1, <2>3, <2>4, DoctorDisturbed DEF InstallInv
<1>3. CASE WriteTmp /\ apply'.at # "failed"
  <2>1. /\ apply.at = "write" /\ apply' = [apply EXCEPT !.at = "rename"]
        /\ tmp' = Generate(apply.format)
        /\ UNCHANGED <<host, files, live, doctor>>
    BY <1>3 DEF WriteTmp, Refused, InstallInv, ApplyInv
  <2>2. ApplyInv'
    BY <2>1 DEF InstallInv, ApplyInv, host
  <2> QED BY <2>1, <2>2, HostAlone, DoctorAlone DEF InstallInv, host
<1>4. CASE Rename /\ apply'.at # "failed"
  <2>1. /\ apply.at = "rename" /\ apply' = [apply EXCEPT !.at = "restart"]
        /\ files' = [files EXCEPT ![apply.format] = tmp]
        /\ doctor' = Disturbed(doctor)
        /\ UNCHANGED <<lacks, reads>>
    BY <1>4 DEF Rename, Refused, host, InstallInv, ApplyInv
  <2>2. /\ apply.format \in Formats /\ tmp = Generate(apply.format) /\ tmp \in FileTexts
        /\ Opposite(apply.format) \in Formats /\ Opposite(apply.format) # apply.format
    BY <2>1, GenerateIs DEF InstallInv, ApplyInv
  <2>3. HostTypes'
    BY <2>1, <2>2 DEF InstallInv, HostTypes
  <2>4. /\ files'[apply.format] = Generate(apply.format)
        /\ files'[Opposite(apply.format)] = files[Opposite(apply.format)]
    BY <2>1, <2>2 DEF InstallInv, HostTypes
  <2>5. ApplyInv'
    BY <2>1, <2>2, <2>4 DEF InstallInv, ApplyInv
  <2> QED BY <2>1, <2>3, <2>5, DoctorDisturbed DEF InstallInv
<1>5. CASE RestartWirePlumber
  <2>1. ApplyInv'
    BY <1>5 DEF RestartWirePlumber, InstallInv, ApplyInv, host
  <2> QED BY <1>5, <2>1, HostAlone, DoctorAlone DEF RestartWirePlumber, InstallInv, host
<1>6. CASE (SetClass \/ SetName) /\ apply'.at # "failed"
  <2>1. ApplyInv'
    BY <1>6, InstallAssumption DEF SetClass, SetName, Refused, InstallInv, ApplyInv, host
  <2> QED BY <1>6, <2>1, HostAlone, DoctorAlone DEF SetClass, SetName, InstallInv, host
<1>7. ASSUME apply' = [apply EXCEPT !.at = "failed"],
             UNCHANGED <<host, files, live, doctor>>
      PROVE  InstallInv'
  <2>1. ApplyInv'
    BY <1>7 DEF InstallInv, ApplyInv
  <2> QED BY <1>7, <2>1, HostAlone, DoctorAlone DEF InstallInv, host
<1>8. CASE /\ RemoveStale \/ WriteTmp \/ Rename \/ SetClass \/ SetName \/ Killed
           /\ apply'.at = "failed"
  <2>1. apply' = [apply EXCEPT !.at = "failed"] /\ UNCHANGED <<host, files, live, doctor>>
    BY <1>8 DEF RemoveStale, WriteTmp, Rename, SetClass, SetName, Killed, Refused,
                InstallInv, ApplyInv
  <2> QED BY <1>7, <2>1
<1>9. CASE Killed
  BY <1>7, <1>9 DEF Killed
<1> QED BY <1>1, <1>2, <1>3, <1>4, <1>5, <1>6, <1>8, <1>9

(* What a doctor does.                                                       *)
LEMMA DoctorStep ==
  ASSUME InstallInv,
         \/ CheckBinaries \/ CheckPipewire \/ CheckVersion \/ ProbeFiles \/ CheckConfig
         \/ CheckAdapter \/ CheckWebDir
  PROVE  InstallInv'
<1> USE DEF AfterBinaries, AfterPactl, AfterProbe, AfterRead, AfterHci
<1>1. UNCHANGED <<lacks, hcis, reads, files, tmp, live, apply>>
  BY DEF CheckBinaries, CheckPipewire, CheckVersion, ProbeFiles, CheckConfig,
         CheckAdapter, CheckWebDir, host
<1>2. HostTypes' /\ ApplyInv'
  BY <1>1, HostAlone, ApplyAlone DEF InstallInv
<1>3. /\ \A f : Drifted(f)' <=> Drifted(f)
      /\ HciAnswers(ResolveAdapter)' <=> HciAnswers(ResolveAdapter)
  BY <1>1, DoctorSees
<1>4. CASE CheckBinaries
  BY <1>1, <1>2, <1>3, <1>4 DEF CheckBinaries, Check, InstallInv, DoctorInv, Judged
<1>5. CASE CheckPipewire
  BY <1>1, <1>2, <1>3, <1>5 DEF CheckPipewire, Check, InstallInv, DoctorInv, Judged
<1>6. CASE CheckVersion
  <2>1. /\ doctor.at = "version"
        /\ \/ doctor' = [doctor EXCEPT !.at = "probe", !.format = Unset, !.answered = FALSE]
           \/ doctor' = [doctor EXCEPT !.at = "read", !.format = reads, !.answered = TRUE]
    BY <1>6, InstallAssumption
       DEF CheckVersion, Banner, InstallInv, HostTypes, Formats
  <2>2. DoctorInv'
    <3>1. CASE doctor' = [doctor EXCEPT !.at = "probe", !.format = Unset, !.answered = FALSE]
      BY <1>1, <1>3, <2>1, <3>1 DEF InstallInv, DoctorInv
    <3>2. CASE doctor' = [doctor EXCEPT !.at = "read", !.format = reads, !.answered = TRUE]
      <4>1. Judged' = reads /\ doctor'.format = reads
        BY <1>1, <3>2 DEF Judged, InstallInv, DoctorInv
      <4> QED BY <1>1, <1>3, <2>1, <3>2, <4>1 DEF InstallInv, DoctorInv
    <3> QED BY <2>1, <3>1, <3>2
  <2> QED BY <1>2, <2>2 DEF InstallInv
<1>7. CASE ProbeFiles
  BY <1>1, <1>2, <1>3, <1>7 DEF ProbeFiles, InstallInv, DoctorInv, Judged
<1>8. CASE CheckConfig
  BY <1>1, <1>2, <1>3, <1>8 DEF CheckConfig, Check, InstallInv, DoctorInv, Judged
<1>9. CASE CheckAdapter
  BY <1>1, <1>2, <1>3, <1>9 DEF CheckAdapter, Check, InstallInv, DoctorInv, Judged
<1>10. CASE CheckWebDir
  BY <1>1, <1>2, <1>3, <1>10 DEF CheckWebDir, Check, InstallInv, DoctorInv, Judged
<1> QED BY <1>4, <1>5, <1>6, <1>7, <1>8, <1>9, <1>10

LEMMA InvokeStep ==
  ASSUME InstallInv, NEW arg, InvokeAny(arg)
  PROVE  InstallInv'
<1>1. UNCHANGED <<lacks, hcis, reads, files, tmp, live>>
  BY DEF InvokeAny, host
<1>2. ApplyInv'
  <2>1. CASE UNCHANGED apply
    BY <1>1, <2>1, ApplyAlone DEF InstallInv
  <2>2. CASE ~UNCHANGED apply
    BY <2>2 DEF InvokeAny, Invoke, Configuring, ApplyInv
  <2> QED BY <2>1, <2>2
<1>3. DoctorInv'
  <2>1. CASE UNCHANGED doctor
    BY <1>1, <2>1, DoctorAlone DEF InstallInv
  <2>2. CASE ~UNCHANGED doctor
    BY <2>2 DEF InvokeAny, Invoke, Diagnosing, DoctorInv, AfterBinaries, AfterPactl,
                AfterProbe, AfterRead, AfterHci
  <2> QED BY <2>1, <2>2
<1> QED BY <1>1, <1>2, <1>3, HostAlone DEF InstallInv

LEMMA InstallStep ==
  ASSUME InstallInv, [InstallNext]_installVars
  PROVE  InstallInv'
<1>1. CASE UNCHANGED installVars \/ WirePlumberStarts
  <2>1. /\ UNCHANGED <<lacks, hcis, reads, files, tmp, apply, doctor>>
        /\ live' \in {live, files[reads]}
    BY <1>1 DEF installVars, WirePlumberStarts, host
  <2> QED BY <2>1, ApplyAlone, DoctorAlone, HostAlone DEF InstallInv
<1> QED BY <1>1, HostStep, ApplyStep, DoctorStep, InvokeStep DEF InstallNext

LEMMA InstallAlways ==
  InstallSpec => []InstallInv
<1>1. InstallInv /\ [InstallNext]_installVars => InstallInv'
  BY InstallStep
<1> QED BY InstallBegins, <1>1, PTL DEF InstallSpec

(* AppliedMeansDone for any adapters and accidents (apply.rs, fs.rs): the      *)
(* order of the two file operations and the rename are what it rests on.      *)
THEOREM AppliedHolds == InstallSpec => []AppliedMeansDone
<1>1. InstallInv => AppliedMeansDone
  BY TornAssumption DEF InstallInv, HostTypes, ApplyInv, AppliedMeansDone, FileTexts
<1> QED BY <1>1, InstallAlways, PTL

(* DoctorTruthful for any binaries, adapters and accidents (doctor.rs,         *)
(* probe.rs): whatever else happens, an undisturbed doctor is right.           *)
THEOREM DoctorHolds == InstallSpec => []DoctorTruthful
<1> SUFFICES InstallInv => DoctorTruthful
  BY InstallAlways, PTL
<1> SUFFICES ASSUME InstallInv, doctor.at = "done", doctor.calm
             PROVE  DoctorTruthful
  BY DEF DoctorTruthful
<1>1. /\ doctor.fails \subseteq {"binaries", "pipewire-running", "wp-config"}
      /\ "binaries" \in doctor.fails <=> lacks \cap Bins # {}
      /\ "pipewire-running" \in doctor.fails <=> lacks \cap {"pactl", "pipewire"} # {}
      /\ "wp-config" \in doctor.fails <=> Drifted(Judged)
      /\ "bt-adapter" \in doctor.warns <=> ~HciAnswers(ResolveAdapter)
  BY DEF InstallInv, DoctorInv, AfterBinaries, AfterPactl, AfterProbe, AfterRead, AfterHci
<1>2. /\ reads \in Formats
      /\ ExpectedKeys(reads) = Generate(reads).set
      /\ Generate(reads).set \subseteq REQUIRED_WP_KEYS
  BY GenerateIs DEF InstallInv, HostTypes, ExpectedKeys
<1>3. lacks \cap Hard # {} <=>
        lacks \cap Bins # {} \/ lacks \cap {"pactl", "pipewire"} # {}
  BY InstallAssumption DEF InstallInv, HostTypes, Hard, Needs
<1>4. Drifted(reads) <=> \/ files[reads] = Absent
                        \/ \E k \in Generate(reads).set : ~Mentions(files[reads], k)
  BY <1>2 DEF Drifted
<1>5. doctor.answered => Judged = reads
  BY DEF Judged
<1>6. ~doctor.answered /\ files[reads] # Absent =>
        Judged = reads \/ Absent \notin {files[f] : f \in Formats}
  BY <1>2 DEF Judged, Formats
<1>7. Ok => /\ lacks \cap Hard = {}
            /\ doctor.answered =>
                 /\ files[reads] # Absent
                 /\ \A k \in REQUIRED_WP_KEYS :
                      k \in Generate(reads).set => Mentions(files[reads], k)
  BY <1>1, <1>3, <1>4, <1>5 DEF Ok
<1>8. ~Ok => \/ lacks \cap Hard # {}
             \/ files[reads] = Absent
             \/ \E k \in Generate(reads).set : k \notin files[reads].set
             \/ ~doctor.answered /\ Absent \notin {files[f] : f \in Formats}
  BY <1>1, <1>3, <1>4, <1>5, <1>6 DEF Ok, Mentions
<1> QED BY <1>1, <1>7, <1>8 DEF DoctorTruthful
=============================================================================
