---------------------------- MODULE Installation ----------------------------
(***************************************************************************)
(* The one-shot subcommands of the binary: apply-wireplumber-config and       *)
(* apply-adapter-config, which configure the host (install.rs,               *)
(* wireplumber/apply.rs), and doctor, which says what is wrong with it        *)
(* (doctor.rs). They are processes of their own: what a package upgrade        *)
(* applies, what an administrator edits, and a doctor that looks at both,     *)
(* interleave call by call.                                                *)
(*                                                                         *)
(* Of a configuration file the model keeps the load-bearing keys: those that  *)
(* are set, and those that a comment mentions in the words doctor looks for.  *)
(***************************************************************************)
EXTENDS Naturals, Sequences, SequencesExt

CONSTANTS
  Bins,        \* REQUIRED_BINS; "hciconfig" is one of them
  SysOrder,    \* the hci* names there may be, in the order of strings
  HciEnv,      \* SOUNDSYNC_HCI, trimmed; Unset if empty
  Unset,
  Absent,      \* the file that is not there
  Torn,        \* a file that was written in part
  HostEnvironments, \* the sets of accidents among which a behaviour has one
  MaxChanges   \* bound: changes of the host by others

(***************************************************************************)
(* "edit":    an administrator edits, removes or puts back a file;           *)
(* "drop":    such an edit drops the setting of a key and no comment;        *)
(* "host":    packages, adapters and the audio server come and go;           *)
(* "mute":    `wireplumber --version` gives nothing that can be parsed;       *)
(* "refused": a file operation or a restart fails;                          *)
(* "killed":  a subcommand dies between two calls.                          *)
(***************************************************************************)
AccidentKinds == {"edit", "drop", "host", "mute", "refused", "killed"}

ASSUME InstallAssumption ==
  /\ "hciconfig" \in Bins
  /\ {"pipewire", "web"} \cap Bins = {}
  /\ Unset \notin ToSet(SysOrder) \cup {"Lua", "SpaJson"}
  /\ HostEnvironments \subseteq SUBSET AccidentKinds
  /\ MaxChanges \in Nat

VARIABLES
  lacks,    \* what the host lacks of Needs
  hcis,     \* the adapters it has
  reads,    \* the format that the installed WirePlumber reads
  files,    \* the file of each format
  tmp,      \* the temporary file of write_atomic
  live,     \* the configuration WirePlumber runs with
  classed,  \* the adapters with our class and name
  changes,  \* changes of the host so far (bounded by MaxChanges)
  apply,    \* a configuring subcommand
  doctor,   \* a doctor: its place, and what its checks said
  accidents \* what may happen in this behaviour; never changes

host        == <<lacks, hcis, reads>>
installVars == <<host, files, tmp, live, classed, changes, apply, doctor,
                 accidents>>

Formats == {"Lua", "SpaJson"}
Hard  == Bins \cup {"pipewire"}
Needs == Hard \cup {"web"}

-----------------------------------------------------------------------------
(* The configuration (wireplumber/config.rs) and the keys doctor looks for.   *)

REQUIRED_WP_KEYS == {"seat-monitoring", "a2dp_sink", "codecs", "hw-volume"}

(* The header of the SPA-JSON file explains its first key in that key's words. *)
Generate(format) ==
  IF format = "SpaJson"
  THEN [set |-> REQUIRED_WP_KEYS, said |-> {"seat-monitoring"}]
  ELSE [set |-> REQUIRED_WP_KEYS \ {"seat-monitoring"}, said |-> {}]

ASSUME TornAssumption ==
  Torn \notin {Absent} \cup [set : SUBSET REQUIRED_WP_KEYS, said : SUBSET REQUIRED_WP_KEYS]

Mentions(file, key) == key \in file.set \cup file.said

(* Variant: the keys of one format are asked of both.                        *)
AllKeys(format) == REQUIRED_WP_KEYS

ExpectedKeys(format) == {k \in REQUIRED_WP_KEYS : Mentions(Generate(format), k)}

Opposite(format) == IF format = "Lua" THEN "SpaJson" ELSE "Lua"

(* WpVersion::parse and config_format: Unset is a version nobody could read.   *)
Banner == {reads} \cup {Unset : a \in accidents \cap {"mute"}}

FirstOf(adapters) ==
  LET found == SelectSeq(SysOrder, LAMBDA h : h \in adapters)
  IN IF found = <<>> THEN "hci0" ELSE found[1]

ResolveAdapter == IF HciEnv # Unset THEN HciEnv ELSE FirstOf(hcis)

HciAnswers(hci) == hci \in hcis /\ "hciconfig" \notin lacks

-----------------------------------------------------------------------------
(* Calm: since a subcommand began, nobody else has changed what it looks at.   *)
Disturbed(process) == [process EXCEPT !.calm = FALSE]

ParseArgs(arg) ==
  CASE arg = "apply-wireplumber-config" -> "ApplyWpConfig"
    [] arg = "apply-adapter-config" -> "ApplyAdapterConfig"
    [] arg = "doctor" -> "Doctor"
    [] OTHER -> "Help"

Configuring(place, adapter) ==
  [at |-> place, restarted |-> FALSE, hci |-> adapter, calm |-> TRUE,
   format |-> Unset, answered |-> TRUE]

Diagnosing(place) ==
  [at |-> place, fails |-> {}, warns |-> {}, calm |-> TRUE, format |-> Unset,
   answered |-> TRUE]

Invoke(arg) ==
  \/ /\ ParseArgs(arg) = "ApplyWpConfig"
     /\ apply.at \in {"none", "ok", "failed"}
     /\ apply' = Configuring("version", Unset)
     /\ UNCHANGED doctor
  \/ /\ ParseArgs(arg) = "ApplyAdapterConfig"
     /\ apply.at \in {"none", "ok", "failed"}
     /\ apply' = Configuring("class", ResolveAdapter)
     /\ UNCHANGED doctor
  \/ /\ ParseArgs(arg) = "Doctor"
     /\ doctor.at \in {"none", "done"}
     /\ doctor' = Diagnosing("binaries")
     /\ UNCHANGED apply

InvokeAny(arg) ==
  /\ Invoke(arg)
  /\ UNCHANGED <<host, files, tmp, live, classed, changes, accidents>>

-----------------------------------------------------------------------------
(* apply-wireplumber-config.                                               *)

(* An unreadable version is taken for an old one.                            *)
DetectFormat ==
  /\ apply.at = "version"
  /\ \E v \in Banner :
       apply' = [apply EXCEPT !.at = "remove", !.answered = v # Unset,
                              !.format = IF v = Unset THEN "Lua" ELSE v]
  /\ UNCHANGED <<host, files, tmp, live, classed, changes, doctor, accidents>>

Refused == "refused" \in accidents /\ apply' = [apply EXCEPT !.at = "failed"]

(* Variant: the file to remove is the one about to be written.               *)
OwnFormat == apply.format

StaleFormat == Opposite(apply.format)

(* A file that is not there was removed.                                     *)
RemoveStale ==
  /\ apply.at = "remove"
  /\ \/ /\ apply' = [apply EXCEPT !.at = "write"]
        /\ files' = [files EXCEPT ![StaleFormat] = Absent]
        /\ doctor' = Disturbed(doctor)
     \/ Refused /\ UNCHANGED <<files, doctor>>
  /\ UNCHANGED <<host, tmp, live, classed, changes, accidents>>

WriteTmp ==
  /\ apply.at = "write"
  /\ \/ apply' = [apply EXCEPT !.at = "rename"] /\ tmp' = Generate(apply.format)
     \/ Refused /\ tmp' \in {tmp, Torn}
  /\ UNCHANGED <<host, files, live, classed, changes, doctor, accidents>>

Rename ==
  /\ apply.at = "rename"
  /\ \/ /\ apply' = [apply EXCEPT !.at = "restart"]
        /\ files' = [files EXCEPT ![apply.format] = tmp]
        /\ tmp' = Absent
        /\ doctor' = Disturbed(doctor)
     \/ Refused /\ UNCHANGED <<files, tmp, doctor>>
  /\ UNCHANGED <<host, live, classed, changes, accidents>>

(* A restart that fails is reported, and is no error.                        *)
RestartWirePlumber ==
  /\ apply.at = "restart"
  /\ \/ /\ apply' = [apply EXCEPT !.at = "ok", !.restarted = TRUE]
        /\ live' = files[reads]
     \/ /\ "refused" \in accidents
        /\ apply' = [apply EXCEPT !.at = "ok"]
        /\ UNCHANGED live
  /\ UNCHANGED <<host, files, tmp, classed, changes, doctor, accidents>>

-----------------------------------------------------------------------------
(* apply-adapter-config: the class, then the name, each by hciconfig.         *)

SetClass ==
  /\ apply.at = "class"
  /\ \/ HciAnswers(apply.hci) /\ apply' = [apply EXCEPT !.at = "name"]
     \/ ~HciAnswers(apply.hci) /\ apply' = [apply EXCEPT !.at = "failed"]
     \/ Refused
  /\ UNCHANGED <<host, files, tmp, live, classed, changes, doctor, accidents>>

SetName ==
  /\ apply.at = "name"
  /\ \/ /\ HciAnswers(apply.hci)
        /\ apply' = [apply EXCEPT !.at = "ok"]
        /\ classed' = classed \cup {apply.hci}
     \/ /\ ~HciAnswers(apply.hci)
        /\ apply' = [apply EXCEPT !.at = "failed"]
        /\ UNCHANGED classed
     \/ Refused /\ UNCHANGED classed
  /\ UNCHANGED <<host, files, tmp, live, changes, doctor, accidents>>

Killed ==
  /\ "killed" \in accidents
  /\ apply.at \notin {"none", "ok", "failed"}
  /\ apply' = [apply EXCEPT !.at = "failed"]
  /\ tmp' \in {tmp, IF apply.at = "write" THEN Torn ELSE tmp}
  /\ UNCHANGED <<host, files, live, classed, changes, doctor, accidents>>

-----------------------------------------------------------------------------
(* doctor (run_checks).                                                    *)

Check(from, to, name, kind, bad) ==
  /\ doctor.at = from
  /\ doctor' = IF bad
               THEN [doctor EXCEPT !.at = to, ![kind] = @ \cup {name}]
               ELSE [doctor EXCEPT !.at = to]

(* One `command -v` after the other; none depends on another.                *)
CheckBinaries ==
  /\ Check("binaries", "pactl", "binaries", "fails", lacks \cap Bins # {})
  /\ UNCHANGED <<host, files, tmp, live, classed, changes, apply, accidents>>

CheckPipewire ==
  /\ Check("pactl", "version", "pipewire-running", "fails",
           lacks \cap {"pactl", "pipewire"} # {})
  /\ UNCHANGED <<host, files, tmp, live, classed, changes, apply, accidents>>

CheckVersion ==
  /\ doctor.at = "version"
  /\ \E v \in Banner :
       doctor' = [doctor EXCEPT !.at = IF v = Unset THEN "probe" ELSE "read",
                                !.format = v, !.answered = v # Unset]
  /\ UNCHANGED <<host, files, tmp, live, classed, changes, apply, accidents>>

(* Without a version, the one file that is there decides.                    *)
ProbeFiles ==
  /\ doctor.at = "probe"
  /\ doctor' = [doctor EXCEPT !.at = "read",
                  !.format = IF /\ files["SpaJson"] # Absent
                                /\ files["Lua"] = Absent
                             THEN "SpaJson" ELSE "Lua"]
  /\ UNCHANGED <<host, files, tmp, live, classed, changes, apply, accidents>>

Drifted(format) ==
  \/ files[format] = Absent
  \/ \E k \in ExpectedKeys(format) : ~Mentions(files[format], k)

CheckConfig ==
  /\ Check("read", "hci", "wp-config", "fails", Drifted(doctor.format))
  /\ UNCHANGED <<host, files, tmp, live, classed, changes, apply, accidents>>

CheckAdapter ==
  /\ Check("hci", "web", "bt-adapter", "warns", ~HciAnswers(ResolveAdapter))
  /\ UNCHANGED <<host, files, tmp, live, classed, changes, apply, accidents>>

CheckWebDir ==
  /\ Check("web", "done", "web-dir", "warns", "web" \in lacks)
  /\ UNCHANGED <<host, files, tmp, live, classed, changes, apply, accidents>>

(* DoctorReport::ok, the exit code: warnings do not count.                   *)
Ok == doctor.fails = {}

-----------------------------------------------------------------------------
(* The host.                                                               *)

Change(kind) ==
  /\ kind \in accidents
  /\ changes < MaxChanges
  /\ changes' = changes + 1
  /\ apply' = Disturbed(apply)
  /\ doctor' = Disturbed(doctor)

(* Keys are commented out, or deleted with what was said of them.            *)
Edit(format, k) ==
  /\ Change("edit")
  /\ files[format] # Absent
  /\ \/ files' = [files EXCEPT ![format].set = @ \ {k}, ![format].said = @ \cup {k}]
     \/ files' = [files EXCEPT ![format].set = @ \ {k}, ![format].said = @ \ {k}]
  /\ UNCHANGED <<host, tmp, live, classed, accidents>>

(* Only the setting is deleted.                                              *)
Drop(format, k) ==
  /\ Change("drop")
  /\ files[format] # Absent
  /\ files' = [files EXCEPT ![format].set = @ \ {k}]
  /\ UNCHANGED <<host, tmp, live, classed, accidents>>

RemoveOrRestore(format) ==
  /\ Change("edit")
  /\ files' = [files EXCEPT ![format] =
                 IF @ = Absent THEN Generate(format) ELSE Absent]
  /\ UNCHANGED <<host, tmp, live, classed, accidents>>

HostChanges ==
  /\ Change("host")
  /\ \/ \E n \in Needs :
          /\ lacks' = IF n \in lacks THEN lacks \ {n} ELSE lacks \cup {n}
          /\ UNCHANGED <<hcis, reads>>
     \/ \E h \in ToSet(SysOrder) :
          /\ hcis' = IF h \in hcis THEN hcis \ {h} ELSE hcis \cup {h}
          /\ UNCHANGED <<lacks, reads>>
     \/ reads' = Opposite(reads) /\ UNCHANGED <<lacks, hcis>>
  /\ UNCHANGED <<files, tmp, live, classed, accidents>>

(* WirePlumber comes up again by itself, at the latest with the next boot.    *)
WirePlumberStarts ==
  /\ live # files[reads]
  /\ live' = files[reads]
  /\ UNCHANGED <<host, files, tmp, classed, changes, apply, doctor, accidents>>

-----------------------------------------------------------------------------
InstallInit ==
  /\ accidents \in HostEnvironments
  /\ lacks = {}
  /\ hcis \in SUBSET ToSet(SysOrder)
  /\ reads \in Formats
  /\ files = [f \in Formats |-> Absent]
  /\ tmp = Absent
  /\ live = Absent
  /\ classed = {}
  /\ changes = 0
  /\ apply = Configuring("none", Unset)
  /\ doctor = Diagnosing("none")

InstallNext ==
  \/ \E arg \in {"apply-wireplumber-config", "apply-adapter-config", "doctor"} :
       InvokeAny(arg)
  \/ DetectFormat
  \/ RemoveStale
  \/ WriteTmp
  \/ Rename
  \/ RestartWirePlumber
  \/ SetClass
  \/ SetName
  \/ Killed
  \/ CheckBinaries
  \/ CheckPipewire
  \/ CheckVersion
  \/ ProbeFiles
  \/ CheckConfig
  \/ CheckAdapter
  \/ CheckWebDir
  \/ \E f \in Formats, k \in REQUIRED_WP_KEYS : Edit(f, k) \/ Drop(f, k)
  \/ \E f \in Formats : RemoveOrRestore(f)
  \/ HostChanges
  \/ WirePlumberStarts

InstallSpec == InstallInit /\ [][InstallNext]_installVars

-----------------------------------------------------------------------------
(* What doctor says of a host that nobody touches meanwhile is true           *)
(* (doctor.rs 10-25, probe.rs 23-36). When it is content, nothing hard is      *)
(* missing, and WirePlumber's own file has every required key, as far as its   *)
(* text tells: those its header only speaks of are left to DriftReported. When *)
(* it is not, something really is wrong: a momentary silence of WirePlumber    *)
(* makes no false alarm unless the files of both formats are there. And it     *)
(* warns of the adapter exactly when the one the daemon would use is missing.  *)
DoctorTruthful ==
  doctor.at = "done" /\ doctor.calm =>
    /\ Ok => /\ lacks \cap Hard = {}
             /\ doctor.answered =>
                  /\ files[reads] # Absent
                  /\ \A k \in REQUIRED_WP_KEYS :
                       k \in Generate(reads).set => Mentions(files[reads], k)
    /\ ~Ok => \/ lacks \cap Hard # {}
              \/ files[reads] = Absent
              \/ \E k \in Generate(reads).set : k \notin files[reads].set
              \/ ~doctor.answered /\ Absent \notin {files[f] : f \in Formats}
    /\ "bt-adapter" \in doctor.warns <=> ~HciAnswers(ResolveAdapter)

(* A configuring subcommand that says it worked did (apply.rs 31-34): what     *)
(* WirePlumber reads is whole, the other format's file cannot masquerade, and  *)
(* if it says so WirePlumber runs with it. And whatever fails or dies on the   *)
(* way, no file is ever half written (fs.rs 20-26).                           *)
AppliedMeansDone ==
  /\ apply.at = "ok" /\ apply.calm /\ apply.answered /\ apply.format # Unset =>
       /\ files[reads] = Generate(reads)
       /\ files[Opposite(reads)] = Absent
       /\ apply.restarted => live = files[reads]
  /\ Torn \notin {files[f] : f \in Formats}

(* doctor.rs 10-14: a file that exists but had a key dropped is reported as a   *)
(* FAIL rather than a Pass.                                                *)
DriftReported ==
  doctor.at = "done" /\ doctor.calm /\ doctor.answered /\ files[reads] # Absent
    /\ Generate(reads).set \ files[reads].set # {} => ~Ok
=============================================================================
