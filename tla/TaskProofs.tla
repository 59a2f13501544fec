----------------------------- MODULE TaskProofs -----------------------------
(***************************************************************************)
(* What ends, is stopped or gives up. The process: its types, what FATAL and *)
(* the forced exit mean, and the time a teardown has, for any set of critical *)
(* tasks and of units, any timeouts and any faults. A helper call: that its  *)
(* output is whole. A cast session task, however many frames a read completes *)
(* and however often the receiver reports its status: its types, one LOAD, no *)
(* false loss of the link, and that it lives as CastLife says. And its bytes: *)
(* every frame that came whole is answered once and in order.              *)
(***************************************************************************)
EXTENDS Shutdown, CommandRun, CastSession, CastWire, Integers, WellFoundedInduction,
        SequenceTheorems, TLAPS

-----------------------------------------------------------------------------
(* The process.                                                            *)

(* A task that ended, ended by itself or was asked to; the supervisor yields  *)
(* only for one that ended; and the backstop is armed by the request alone.  *)
EndsAccounted ==
  /\ died # {} \/ shutdown \/ ~sender \/ ended = {}
  /\ supervisor = "yielded" => ended # {}
  /\ armed => shutdown

ExitInv == EndsAccounted /\ FatalIsReal /\ NeverForcedInService

LEMMA InitExit == Init => ExitInv
  BY DEF Init, ExitInv, EndsAccounted, FatalIsReal, NeverForcedInService

LEMMA StepExit == ExitInv /\ [Next]_vars => ExitInv'
<1> SUFFICES ASSUME ExitInv, [Next]_vars PROVE ExitInv'
  OBVIOUS
<1> USE DEF ExitInv, EndsAccounted, FatalIsReal, NeverForcedInService, Alive,
            Polled
<1>1. CASE Signal
  BY <1>1 DEF Signal
<1>2. CASE NoSignals
  BY <1>2 DEF NoSignals
<1>3. ASSUME NEW t \in Critical, TaskEnds(t)
      PROVE  ExitInv'
  <2>1. CASE Requested
    BY <1>3, <2>1 DEF TaskEnds, Requested
  <2>2. CASE ~Requested
    BY <1>3, <2>2 DEF TaskEnds, Requested
  <2> QED
    BY <2>1, <2>2
<1>4. ASSUME NEW k \in Kids, KidEnds(k)
      PROVE  ExitInv'
  BY <1>4 DEF KidEnds
<1>5. CASE Setup \/ BroughtUp \/ LoopsEnd \/ RunHelpers
  BY <1>5 DEF Setup, BroughtUp, LoopsEnd, RunHelpers
<1>6. CASE StopsInBringUp \/ DaemonReturns \/ BringUpFails
  BY <1>6 DEF StopsInBringUp, DaemonReturns, BringUpFails
<1>7. CASE Arm
  BY <1>7 DEF Arm, ArmedBy
<1>8. CASE ForceExit
  BY <1>8 DEF ForceExit
<1>9. CASE SeesEnd
  BY <1>9 DEF SeesEnd
<1>10. CASE Classify
  <2>1. CASE shutdown
    BY <1>10, <2>1 DEF Classify, FlagReread
  <2>2. CASE ~shutdown
    BY <1>10, <2>2 DEF Classify, FlagReread
  <2> QED
    BY <2>1, <2>2
<1>11. CASE Tick
  BY <1>11 DEF Tick
<1>12. CASE Kill
  BY <1>12 DEF Kill
<1>13. CASE UNCHANGED vars
  BY <1>13 DEF vars
<1> QED
  BY <1>1, <1>2, <1>3, <1>4, <1>5, <1>6, <1>7, <1>8, <1>9, <1>10, <1>11, <1>12,
     <1>13 DEF Next, Daemon, Watchdogs

THEOREM ExitInvariant == Spec => []ExitInv
<1> QED
  BY InitExit, StepExit, PTL DEF Spec

(* The process calls itself fatal only if a critical task ended before a      *)
(* shutdown was asked for, or no signal could be heard at all: the flag is    *)
(* read again after the yield, so a task that ends in a shutdown is expected. *)
THEOREM FatalHolds == Spec => []FatalIsReal
<1>1. ExitInv => FatalIsReal
  BY DEF ExitInv
<1> QED
  BY <1>1, ExitInvariant, PTL

(* However long it served, the backstop ends only a process that was asked to *)
(* end (main.rs, run_shutdown_backstop).                                    *)
THEOREM BackstopHolds == Spec => []NeverForcedInService
<1>1. ExitInv => NeverForcedInService
  BY DEF ExitInv
<1> QED
  BY <1>1, ExitInvariant, PTL

LEMMA Bounded ==
  ASSUME NEW h \in Nat, NEW n \in Nat, NEW c \in Nat, h <= n
  PROVE  h * c \in 0 .. n * c
<1>1. PICK k \in Nat : n = h + k
  <2>1. n - h \in Nat /\ n = h + (n - h)
    OBVIOUS
  <2> QED
    BY <2>1
<1>2. h * c \in Nat /\ k * c \in Nat /\ n * c = h * c + k * c
  BY <1>1
<1> QED
  BY <1>2

(* What main spends in helper calls that follow each other.                   *)
LEMMA HelpersBlock ==
  ASSUME NEW n \in Nat, n <= MaxCalls, Helpers(n)
  PROVE  blocked' \in 0 .. MaxCalls * COMMAND_TIMEOUT
<1>1. PICK hung \in 0 .. n : blocked' = hung * COMMAND_TIMEOUT
  BY DEF Helpers
<1>2. hung \in Nat /\ hung <= MaxCalls
  BY ConstantsAssumption
<1> QED
  BY <1>1, <1>2, Bounded, ConstantsAssumption

LEMMA LessIs ==
  ASSUME NEW n \in Nat, NEW m \in 0 .. n
  PROVE  Less(m) \in 0 .. n /\ Less(m) + 1 >= m
BY DEF Less

LEMMA TypesInit == Init => TypeOK
<1> SUFFICES ASSUME Init PROVE TypeOK
  OBVIOUS
<1> DEFINE most == MaxCalls * COMMAND_TIMEOUT
<1>1. most \in Nat
  BY ConstantsAssumption
<1> HIDE DEF most
<1>2. blocked \in 0 .. most
  BY <1>1 DEF Init
<1>3. died \in SUBSET ended /\ ended \in SUBSET Critical
  BY DEF Init
<1>4. kids \in [Kids -> {"none", "up", "ended"}]
  BY DEF Init
<1>5. timer \in 0 .. BACKSTOP /\ age \in 0 .. TimeoutStopSec
  BY ConstantsAssumption DEF Init
<1> QED
  BY <1>2, <1>3, <1>4, <1>5 DEF Init, TypeOK, most

LEMMA TypesStep == TypeOK /\ [Next]_vars => TypeOK'
<1> SUFFICES ASSUME TypeOK, [Next]_vars PROVE TypeOK'
  OBVIOUS
<1> DEFINE most == MaxCalls * COMMAND_TIMEOUT
<1>1. most \in Nat /\ blocked \in 0 .. most
  BY ConstantsAssumption DEF TypeOK
<1> HIDE DEF most
<1>2. CASE Signal \/ NoSignals
  BY <1>2 DEF Signal, NoSignals, TypeOK
<1>3. ASSUME NEW t \in Critical, TaskEnds(t)
      PROVE  TypeOK'
  BY <1>3 DEF TaskEnds, TypeOK
<1>4. ASSUME NEW k \in Kids, KidEnds(k)
      PROVE  TypeOK'
  BY <1>4 DEF KidEnds, TypeOK
<1>5. CASE Setup
  <2>1. 1 \in Nat /\ 1 <= MaxCalls
    BY ConstantsAssumption
  <2>2. blocked' \in 0 .. MaxCalls * COMMAND_TIMEOUT
    BY <1>5, <2>1, HelpersBlock DEF Setup
  <2> QED
    BY <1>5, <2>2 DEF Setup, TypeOK
<1>6. CASE RunHelpers
  <2>1. MaxCalls \in Nat /\ MaxCalls <= MaxCalls
    BY ConstantsAssumption
  <2>2. blocked' \in 0 .. MaxCalls * COMMAND_TIMEOUT
    BY <1>6, <2>1, HelpersBlock DEF RunHelpers
  <2> QED
    BY <1>6, <2>2 DEF RunHelpers, TypeOK
<1>7. CASE BroughtUp \/ LoopsEnd
  BY <1>7 DEF BroughtUp, LoopsEnd, TypeOK
<1>8. CASE BringUpFails \/ StopsInBringUp \/ DaemonReturns \/ ForceExit \/ Kill
  BY <1>8 DEF BringUpFails, StopsInBringUp, DaemonReturns, ForceExit, Kill, TypeOK
<1>9. CASE Arm
  BY <1>9, ConstantsAssumption DEF Arm, TypeOK
<1>10. CASE SeesEnd \/ Classify
  BY <1>10 DEF SeesEnd, Classify, TypeOK
<1>11. CASE Tick
  <2>1. Less(blocked) \in 0 .. most
    BY <1>1, LessIs
  <2>2. timer' \in 0 .. BACKSTOP
    BY <1>11, LessIs, ConstantsAssumption DEF Tick, TypeOK
  <2>3. age' \in 0 .. TimeoutStopSec
    BY <1>11, ConstantsAssumption DEF Tick, TypeOK
  <2> QED
    BY <1>11, <2>1, <2>2, <2>3 DEF Tick, TypeOK, most
<1>12. CASE UNCHANGED vars
  BY <1>12 DEF vars, TypeOK
<1> QED
  BY <1>2, <1>3, <1>4, <1>5, <1>6, <1>7, <1>8, <1>9, <1>10, <1>11, <1>12
     DEF Next, Daemon, Watchdogs

(* Every variable of the process keeps its type: whatever wedges, main is       *)
(* blocked for the calls of one stretch at most, and only what ended has died.  *)
THEOREM ProcessTypeCorrect == Spec => []TypeOK
<1> QED
  BY TypesInit, TypesStep, PTL DEF Spec

(* What the backstop still grants and what it has granted.                    *)
Grace == (armed => timer + age >= BACKSTOP) /\ GraceGiven

(* The teardown has all the time the backstop grants, however late the         *)
(* backstop came to see the request (main.rs, run_shutdown_backstop).          *)
THEOREM GraceHolds == Spec => []GraceGiven
<1>1. Init => Grace
  BY DEF Init, Grace, GraceGiven
<1>2. TypeOK /\ ExitInv /\ Grace /\ [Next]_vars => Grace'
  <2> SUFFICES ASSUME TypeOK, ExitInv, Grace, [Next]_vars PROVE Grace'
    OBVIOUS
  <2>1. /\ timer \in 0 .. BACKSTOP /\ age \in Nat /\ BACKSTOP \in Nat
        /\ armed => shutdown
    BY ConstantsAssumption DEF TypeOK, ExitInv, EndsAccounted
  <2>2. CASE UNCHANGED <<armed, timer, age, exit>>
    BY <2>2 DEF Grace, GraceGiven
  <2>3. CASE UNCHANGED <<armed, timer, age>> /\ exit' # "forced"
    BY <2>3 DEF Grace, GraceGiven
  <2>4. CASE Arm
    BY <2>1, <2>4 DEF Arm, Grace, GraceGiven
  <2>5. CASE ForceExit
    BY <2>1, <2>5 DEF ForceExit, Grace, GraceGiven
  <2>6. CASE Tick
    <3>1. exit' = "none"
      BY <2>6 DEF Tick, Alive
    <3>2. armed' => timer' = Less(timer) /\ age' = age + 1
      BY <2>1, <2>6 DEF Tick
    <3>3. Less(timer) + 1 >= timer /\ Less(timer) \in 0 .. BACKSTOP
      BY <2>1, LessIs
    <3>4. armed' => timer' + age' >= BACKSTOP
      BY <2>1, <2>6, <3>2, <3>3 DEF Tick, Grace
    <3> QED
      BY <3>1, <3>4 DEF Grace, GraceGiven
  <2>7. CASE \/ Signal \/ NoSignals \/ Setup \/ BroughtUp \/ LoopsEnd \/ RunHelpers
             \/ SeesEnd \/ UNCHANGED vars
    BY <2>2, <2>7 DEF Signal, NoSignals, Setup, BroughtUp, LoopsEnd, RunHelpers, SeesEnd,
       vars
  <2>8. ASSUME \/ \E t \in Critical : TaskEnds(t)
               \/ \E k \in Kids : KidEnds(k)
        PROVE  Grace'
    BY <2>2, <2>8 DEF TaskEnds, KidEnds
  <2>9. CASE BringUpFails \/ StopsInBringUp \/ DaemonReturns \/ Kill
    BY <2>3, <2>9 DEF BringUpFails, StopsInBringUp, DaemonReturns, Kill
  <2>10. CASE Classify
    BY <2>2, <2>3, <2>10 DEF Classify
  <2> QED
    BY <2>4, <2>5, <2>6, <2>7, <2>8, <2>9, <2>10 DEF Next, Daemon, Watchdogs
<1>3. Grace => GraceGiven
  BY DEF Grace
<1> QED
  BY <1>1, <1>2, <1>3, ProcessTypeCorrect, ExitInvariant, PTL DEF Spec

LEMMA HangIs == LongestHang \in Nat
  BY ConstantsAssumption DEF LongestHang

(* What main spends in them counts only where helper calls may hang.          *)
LEMMA HelpersHang ==
  ASSUME NEW n \in Nat, n <= MaxCalls, Helpers(n)
  PROVE  blocked' \in 0 .. LongestHang
<1>1. CASE "wedged" \in Faults
  BY <1>1, HelpersBlock DEF LongestHang
<1>2. CASE "wedged" \notin Faults
  <2>1. PICK hung \in 0 .. 0 : blocked' = hung * COMMAND_TIMEOUT
    BY <1>2 DEF Helpers
  <2>2. hung = 0
    OBVIOUS
  <2> QED
    BY <1>2, <2>1, <2>2, ConstantsAssumption DEF LongestHang
<1> QED
  BY <1>1, <1>2

(* While main still polls its select: the age counts from the request, and no  *)
(* stretch of helper calls begins after one, but for that of the setup, which is *)
(* over in no time. So the age of a request not yet seen is what such a stretch *)
(* has taken, and from then on the backstop counts down as the age grows.      *)
InTime ==
  /\ blocked <= LongestHang
  /\ ~shutdown => age = 0
  /\ daemon = "setup" => blocked = 0 /\ age = 0
  /\ shutdown /\ ~armed => age + blocked <= LongestHang
  /\ armed => \/ age + blocked <= LongestHang
              \/ blocked = 0 /\ age + timer <= LongestHang + BACKSTOP

PatienceInv ==
  /\ Alive /\ main = "select" => InTime
  /\ KilledOnlyParked

LEMMA PatienceStep == TypeOK /\ ExitInv /\ PatienceInv /\ [Next]_vars => PatienceInv'
<1> SUFFICES ASSUME TypeOK, ExitInv, PatienceInv, [Next]_vars PROVE PatienceInv'
  OBVIOUS
<1> DEFINE L == LongestHang
<1>1. /\ L \in Nat /\ BACKSTOP \in Nat /\ TimeoutStopSec \in Nat \ {0}
      /\ blocked \in Nat /\ timer \in 0 .. BACKSTOP /\ age \in Nat
      /\ main \in {"select", "parked"}
      /\ armed => shutdown
  BY HangIs, ConstantsAssumption DEF TypeOK, ExitInv, EndsAccounted
<1> HIDE DEF L
<1>2. CASE UNCHANGED <<main, daemon, blocked, armed, timer, shutdown, age, exit>>
  BY <1>2 DEF PatienceInv, InTime, KilledOnlyParked, Alive
<1>3. CASE Signal
  <2>1. Alive /\ main = "select" => InTime'
    BY <1>1, <1>3 DEF Signal, PatienceInv, InTime, L
  <2> QED
    BY <1>3, <2>1 DEF Signal, PatienceInv, KilledOnlyParked, Alive
<1>4. CASE NoSignals \/ SeesEnd
  BY <1>2, <1>4 DEF NoSignals, SeesEnd
<1>5. ASSUME \/ \E t \in Critical : TaskEnds(t)
             \/ \E k \in Kids : KidEnds(k)
      PROVE  PatienceInv'
  BY <1>2, <1>5 DEF TaskEnds, KidEnds
<1>6. CASE Setup
  <2>1. blocked' \in 0 .. L
    <3>1. 1 \in Nat /\ 1 <= MaxCalls
      BY ConstantsAssumption
    <3> QED
      BY <1>6, <3>1, HelpersHang DEF Setup, L
  <2>2. InTime /\ age = 0
    BY <1>6 DEF Setup, Polled, PatienceInv, InTime
  <2>3. InTime'
    <3>1. blocked' \in Nat /\ blocked' <= L /\ age = 0
      BY <1>1, <2>1, <2>2
    <3>2. daemon' # "setup" /\ shutdown' = shutdown /\ armed' = armed /\ age' = age
      BY <1>6 DEF Setup
    <3>3. age' + blocked' <= L
      <4>1. age' = 0
        BY <3>1, <3>2
      <4>2. 0 + blocked' <= L
        BY <3>1
      <4> QED
        BY <4>1, <4>2
    <3> QED
      BY <1>1, <2>2, <3>1, <3>2, <3>3 DEF InTime, L
  <2> QED
    BY <1>6, <2>3 DEF Setup, Polled, Alive, PatienceInv, KilledOnlyParked
<1>7. CASE RunHelpers
  <2>1. blocked' \in 0 .. L
    <3>1. MaxCalls \in Nat /\ MaxCalls <= MaxCalls
      BY ConstantsAssumption
    <3> QED
      BY <1>7, <3>1, HelpersHang DEF RunHelpers, L
  <2>2. InTime /\ ~shutdown /\ ~armed /\ daemon # "setup"
    BY <1>1, <1>7 DEF RunHelpers, Polled, Requested, PatienceInv
  <2>3. InTime'
    <3>1. blocked' <= L
      BY <1>1, <2>1
    <3>2. UNCHANGED <<shutdown, armed, age, daemon>>
      BY <1>7 DEF RunHelpers
    <3> QED
      BY <2>2, <3>1, <3>2 DEF InTime, L
  <2> QED
    BY <1>7, <2>3 DEF RunHelpers, Polled, Alive, PatienceInv, KilledOnlyParked
<1>8. CASE BroughtUp \/ LoopsEnd
  <2>1. InTime /\ daemon' # "setup"
    BY <1>8 DEF BroughtUp, LoopsEnd, Polled, PatienceInv
  <2>2. InTime'
    BY <1>8, <2>1 DEF BroughtUp, LoopsEnd, InTime
  <2> QED
    BY <1>8, <2>2 DEF BroughtUp, LoopsEnd, Polled, Alive, PatienceInv,
       KilledOnlyParked
<1>9. CASE BringUpFails \/ StopsInBringUp \/ DaemonReturns \/ ForceExit
  BY <1>9 DEF BringUpFails, StopsInBringUp, DaemonReturns, ForceExit, PatienceInv,
     KilledOnlyParked, Alive
<1>10. CASE Classify
  <2>1. main' = "parked" \/ exit' = "fatal"
    BY <1>10 DEF Classify
  <2> QED
    BY <1>10, <2>1 DEF Classify, PatienceInv, KilledOnlyParked, Alive
<1>11. CASE Arm
  <2>1. InTime /\ shutdown /\ ~armed
    BY <1>11 DEF Arm, ArmedBy, Polled, PatienceInv
  <2>2. age + blocked <= L
    BY <2>1 DEF InTime, L
  <2>3. InTime'
    BY <1>1, <1>11, <2>1, <2>2 DEF Arm, InTime, L
  <2> QED
    BY <1>11, <2>3 DEF Arm, Polled, Alive, PatienceInv, KilledOnlyParked
<1>12. CASE Tick
  <2>1. ASSUME main = "select"
        PROVE  InTime'
    <3>1. InTime /\ Alive
      BY <1>12, <2>1 DEF Tick, PatienceInv
    <3>2. blocked = 0 => /\ daemon # "setup"
                         /\ shutdown => armed
                         /\ armed => timer > 0
      BY <1>1, <1>12, <2>1, <3>1 DEF Tick, Pending, Polled, ArmedBy
    <3>3. daemon # "setup"
      BY <3>1, <3>2 DEF InTime
    <3>4. /\ blocked' = IF blocked = 0 THEN 0 ELSE blocked - 1
          /\ timer' = IF armed /\ timer # 0 THEN timer - 1 ELSE timer
          /\ age' = IF shutdown THEN age + 1 ELSE 0
          /\ daemon' = daemon /\ shutdown' = shutdown /\ armed' = armed
      BY <1>12 DEF Tick, Less
    <3>5. CASE ~shutdown
      BY <1>1, <3>1, <3>3, <3>4, <3>5 DEF InTime, L
    <3>6. CASE shutdown /\ blocked > 0
      <4>1. age' + blocked' = age + blocked /\ blocked' <= blocked
        BY <1>1, <3>4, <3>6
      <4>2. age + blocked <= L /\ blocked <= L
        BY <1>1, <3>1, <3>6 DEF InTime, L
      <4> QED
        BY <1>1, <3>3, <3>4, <3>6, <4>1, <4>2 DEF InTime, L
    <3>7. CASE shutdown /\ blocked = 0
      <4>1. armed /\ timer > 0
        BY <3>2, <3>7
      <4>2. age + timer <= L + BACKSTOP
        BY <1>1, <3>1, <3>7, <4>1 DEF InTime, L
      <4>3. blocked' = 0 /\ age' + timer' = age + timer
        BY <1>1, <3>4, <3>7, <4>1
      <4> QED
        BY <1>1, <3>3, <3>4, <3>7, <4>1, <4>2, <4>3 DEF InTime, L
    <3> QED
      BY <1>1, <3>5, <3>6, <3>7
  <2> QED
    BY <1>12, <2>1 DEF Tick, PatienceInv, KilledOnlyParked, Alive
<1>13. CASE Kill
  <2>1. ASSUME TimeoutStopSec > L + BACKSTOP, main = "select"
        PROVE  FALSE
    <3>1. InTime /\ age = TimeoutStopSec
      BY <1>13, <2>1 DEF Kill, PatienceInv
    <3>2. age <= L + BACKSTOP
      BY <1>1, <3>1 DEF InTime, L
    <3> QED
      BY <1>1, <2>1, <3>1, <3>2
  <2>2. exit' = "killed" /\ main' = main
    BY <1>13 DEF Kill
  <2> QED
    BY <1>1, <2>1, <2>2 DEF PatienceInv, KilledOnlyParked, Alive, L
<1>14. CASE UNCHANGED vars
  BY <1>2, <1>14 DEF vars
<1> QED
  BY <1>3, <1>4, <1>5, <1>6, <1>7, <1>8, <1>9, <1>10, <1>11, <1>12, <1>13, <1>14
     DEF Next, Daemon, Watchdogs

(* A systemd that waits for longer than the backstop and one stretch of helper *)
(* calls kills only a main that parked itself (main.rs:309-313); with helper    *)
(* calls that answer, longer than the backstop alone.                         *)
THEOREM BackstopInTime == Spec => []KilledOnlyParked
<1>1. Init => PatienceInv
  BY HangIs DEF Init, PatienceInv, InTime, KilledOnlyParked
<1>2. PatienceInv => KilledOnlyParked
  BY DEF PatienceInv
<1> QED
  BY <1>1, <1>2, PatienceStep, ProcessTypeCorrect, ExitInvariant, PTL DEF Spec

-----------------------------------------------------------------------------
(* A helper call. A child that was killed is still to be reaped, and one whose  *)
(* output is being read had nothing more to write.                           *)
CallInv ==
  /\ polls \in 0 .. TIMEOUT
  /\ pipe \in Nat
  /\ child = "none" <=> call \in {"idle", "spawnFailed"}
  /\ call = "draining" => child = "exited" /\ unwritten = 0
  /\ call = "killing" => child = "exited"
  /\ call = "polling" /\ child = "exited" => unwritten = 0
  /\ OutputIsWhole

(* What a call returns as output is all that its child wrote, a timeout is      *)
(* never taken for one, and no child is left behind, whatever the child does,   *)
(* for any size of the pipe and any timeout (sys/command.rs).                  *)
THEOREM CallHolds == CallInit /\ [][CallNext]_callVars => []OutputIsWhole
<1>1. CallInit => CallInv
  BY CallAssumption DEF CallInit, CallInv, OutputIsWhole
<1>2. CallInv /\ [CallNext]_callVars => CallInv'
  <2> SUFFICES ASSUME CallInv, [CallNext]_callVars PROVE CallInv'
    OBVIOUS
  <2> USE CallAssumption DEF CallInv, OutputIsWhole
  <2>1. CASE ChildWrites \/ Wedge \/ ChildExits
    BY <2>1 DEF ChildWrites, Wedge, ChildExits
  <2>2. CASE Spawn
    BY <2>2 DEF Spawn
  <2>3. CASE TryWait
    BY <2>3 DEF TryWait, KillAtDeadline
  <2>4. CASE Reap
    BY <2>4 DEF Reap
  <2>5. CASE Drain
    BY <2>5 DEF Drain
  <2>6. CASE UNCHANGED callVars
    BY <2>6 DEF callVars
  <2> QED
    BY <2>1, <2>2, <2>3, <2>4, <2>5, <2>6 DEF CallNext
<1>3. CallInv => OutputIsWhole
  BY DEF CallInv
<1> QED
  BY <1>1, <1>2, <1>3, PTL

-----------------------------------------------------------------------------
(* A cast session.                                                         *)

LEMMA BoundedSeqIsSeq ==
  ASSUME NEW S, NEW n \in Nat, NEW s \in BoundedSeq(S, n)
  PROVE  s \in Seq(S) /\ Len(s) <= n
<1>1. PICK m \in 0 .. n : s \in [1 .. m -> S]
  BY DEF BoundedSeq, SeqOf
<1> QED
  BY <1>1

(* The types do not bound the LOADs by themselves: none is sent before the   *)
(* launch, nor a second one on the way from a status to its LOAD.            *)
NotLoadedYet ==
  at \in {"tcp", "tls", "connect", "launch", "transport", "load"} => ~loaded

(* While the link was never silent, at most one PING is unanswered.          *)
OnePing ==
  ~quiet =>
    /\ link # "silent"
    /\ since <= 1
    /\ ~owed => since = 0
    /\ at = "ping" => ~owed
    /\ cause # "deadline"

SessionInv == SessionTypeOK /\ LoadedOnce /\ NotLoadedYet /\ OnePing

LEMMA InitInv == SessionInit => SessionInv
<1> SUFFICES ASSUME SessionInit PROVE SessionInv
  OBVIOUS
<1>1. SessionTypeOK
  <2>1. frames \in Seq(Frames) /\ Len(frames) <= MaxFrames
    BY SessionBoundsAssumption DEF SessionInit
  <2>2. at \in SessionPlaces /\ cause \in Causes
    BY DEF SessionInit, SessionPlaces, Causes
  <2>3. since \in 0 .. 3 /\ loads \in 0 .. 1 /\ reads \in 0 .. MaxReads
    BY SessionBoundsAssumption DEF SessionInit
  <2> QED
    BY <2>1, <2>2, <2>3 DEF SessionInit, SessionTypeOK
<1>2. LoadedOnce /\ NotLoadedYet
  BY DEF SessionInit, LoadedOnce, NotLoadedYet
<1>3. OnePing
  BY DEF SessionInit, OnePing
<1> QED
  BY <1>1, <1>2, <1>3 DEF SessionInv

(* A write changes where the task is, and why it ended.                     *)
LEMMA WriteTypes ==
  ASSUME SessionTypeOK, NEW from, NEW to \in SessionPlaces, Write(from, to)
  PROVE  at' \in {to, "ended"} /\ at' \in SessionPlaces /\ cause' \in Causes
         /\ (cause' = "deadline" => cause = "deadline")
  BY DEF SessionTypeOK, SessionPlaces, Causes, Write, End

(* Every variable keeps to its type, and the LOADs are counted.              *)
LEMMA TypeStep ==
  SessionTypeOK /\ LoadedOnce /\ NotLoadedYet /\ [SessionNext]_sessionVars
    => SessionTypeOK' /\ LoadedOnce' /\ NotLoadedYet'
<1> SUFFICES ASSUME SessionTypeOK, LoadedOnce, NotLoadedYet,
                    [SessionNext]_sessionVars
             PROVE  SessionTypeOK' /\ LoadedOnce' /\ NotLoadedYet'
  OBVIOUS
<1> USE SessionBoundsAssumption DEF SessionTypeOK, LoadedOnce, NotLoadedYet
<1>1. CASE Stop
  BY <1>1 DEF Stop
<1>2. CASE TcpConnect \/ TlsConnect
  BY <1>2 DEF TcpConnect, TlsConnect, End, SessionPlaces, Causes
<1>3. CASE SendConnect \/ SendLaunch
  <2>1. /\ at' \in {"launch", "select", "ended"} /\ at' \in SessionPlaces
        /\ cause' \in Causes
    BY <1>3, WriteTypes DEF SendConnect, SendLaunch, SessionPlaces
  <2>2. ~loaded
    BY <1>3 DEF SendConnect, SendLaunch, Write
  <2>3. CASE SendConnect
    BY <2>1, <2>2, <2>3 DEF SendConnect
  <2>4. CASE SendLaunch
    BY <2>1, <2>2, <2>4 DEF SendLaunch
  <2> QED
    BY <1>3, <2>3, <2>4
<1>4. CASE StopSeen \/ SendClose \/ ReadEnds \/ FramesDone \/ Heartbeat
  BY <1>4 DEF StopSeen, SendClose, ReadEnds, FramesDone, Heartbeat, End,
              SessionPlaces, Causes
<1>5. CASE HandleFrame
  BY <1>5 DEF HandleFrame, SessionPlaces
<1>6. CASE SendPong
  BY <1>6, WriteTypes DEF SendPong, SessionPlaces
<1>7. CASE SendTransportConnect
  <2>1. ~loaded
    BY <1>7 DEF SendTransportConnect, Write
  <2> QED
    BY <1>7, <2>1, WriteTypes DEF SendTransportConnect, SessionPlaces
<1>8. CASE SendLoad
  <2>1. at' \in {"frame", "ended"} /\ at' \in SessionPlaces /\ cause' \in Causes
    BY <1>8, WriteTypes DEF SendLoad, SessionPlaces
  <2>2. ~loaded /\ loads = 0
    BY <1>8 DEF SendLoad, Write
  <2>3. CASE at' = "frame"
    BY <1>8, <2>1, <2>2, <2>3 DEF SendLoad
  <2>4. CASE at' = "ended"
    BY <1>8, <2>1, <2>2, <2>4 DEF SendLoad
  <2> QED
    BY <2>1, <2>3, <2>4
<1>9. CASE SendPing
  <2>1. FALSE \in LinkLost(Elapsed) => Elapsed \in 0 .. 3
    <3>1. CASE since = 3
      <4>1. LinkLost(Elapsed) = {TRUE}
        BY <3>1 DEF LinkLost, Elapsed
      <4> QED
        BY ONLY <4>1, Zenon
    <3> QED
      BY <3>1 DEF Elapsed
  <2>2. since' \in 0 .. 3 /\ at' \in {"select", "ended"} /\ cause' \in Causes
    <3>1. CASE link = "closed" /\ End("write") /\ UNCHANGED <<since, owed>>
      BY <3>1 DEF End, Causes
    <3>2. ASSUME NEW lost \in LinkLost(Elapsed), lost, End("deadline"),
                 UNCHANGED <<since, owed>>
          PROVE  since' \in 0 .. 3 /\ at' = "ended" /\ cause' \in Causes
      BY <3>2 DEF End, Causes
    <3>3. ASSUME NEW lost \in LinkLost(Elapsed), ~lost, at' = "select",
                 since' = Elapsed, UNCHANGED cause
          PROVE  since' \in 0 .. 3 /\ at' = "select" /\ cause' \in Causes
      <4>1. lost \in BOOLEAN
        BY DEF LinkLost
      <4>2. lost = FALSE
        BY <3>3, <4>1
      <4> QED
        BY <2>1, <3>3, <4>2
    <3> QED
      BY <1>9, <3>1, <3>2, <3>3 DEF SendPing
  <2>3. owed' \in BOOLEAN
    BY <1>9 DEF SendPing
  <2> QED
    BY <1>9, <2>2, <2>3 DEF SendPing, SessionPlaces
<1>10. ASSUME NEW fs \in BoundedSeq(Frames, MaxFrames), Read(fs)
       PROVE  SessionTypeOK' /\ LoadedOnce' /\ NotLoadedYet'
  <2>1. frames' \in Seq(Frames) /\ Len(frames') <= MaxFrames
    BY <1>10, BoundedSeqIsSeq DEF Read
  <2>2. reads' \in 0 .. MaxReads
    BY <1>10 DEF Read
  <2>3. at' \in {"select", "frame"} /\ at' \in SessionPlaces
    BY <1>10 DEF Read, SessionPlaces
  <2>4. since' \in 0 .. 3 /\ owed' \in BOOLEAN
    <3>1. since' = 0
      BY <1>10 DEF Read, SinceRead
    <3>2. owed' = FALSE
      BY <1>10 DEF Read
    <3>3. owed' \in BOOLEAN
      BY <3>2, Zenon
    <3> QED
      BY <3>1, <3>3
  <2>5. UNCHANGED <<loaded, stop, link, cause, loads, quiet>>
    BY <1>10 DEF Read
  <2> QED
    <3>1. (/\ loaded \in BOOLEAN /\ stop \in BOOLEAN /\ quiet \in BOOLEAN
           /\ link \in {"good", "silent", "closed"}
           /\ cause \in Causes /\ loads \in 0 .. 1)'
      BY <2>5
    <3>2. SessionTypeOK'
      BY <2>1, <2>2, <2>3, <2>4, <3>1
    <3>3. LoadedOnce' /\ NotLoadedYet'
      BY <2>3, <2>5
    <3> QED
      BY <3>2, <3>3
<1>11. CASE UNCHANGED sessionVars
  BY <1>11 DEF sessionVars
<1>12. CASE LinkChanges
  <2>1. quiet' \in BOOLEAN
    <3>1. CASE link' = "silent"
      BY <1>12, <3>1 DEF LinkChanges
    <3>2. CASE link' # "silent"
      BY <1>12, <3>2 DEF LinkChanges
    <3> QED
      BY <3>1, <3>2
  <2>2. /\ link' \in {"good", "silent", "closed"}
        /\ UNCHANGED <<at, frames, loaded, since, stop, owed, cause, loads, reads>>
    BY <1>12 DEF LinkChanges
  <2> QED
    BY <2>1, <2>2
<1> QED
  BY <1>1, <1>2, <1>3, <1>4, <1>5, <1>6, <1>7, <1>8, <1>9, <1>10, <1>11,
     <1>12 DEF SessionNext, Task

-----------------------------------------------------------------------------
(* A ping leaves at most one unanswered on a link that was never silent.     *)
LEMMA OnePingStep ==
  SessionTypeOK /\ OnePing /\ [SessionNext]_sessionVars => OnePing'
<1> SUFFICES ASSUME SessionTypeOK, OnePing, [SessionNext]_sessionVars, ~quiet'
             PROVE  /\ link' # "silent" /\ since' <= 1
                    /\ ~owed' => since' = 0
                    /\ at' = "ping" => ~owed'
                    /\ cause' # "deadline"
  BY DEF OnePing
<1> USE DEF SessionTypeOK, OnePing
<1>1. CASE Stop
  BY <1>1 DEF Stop
<1>2. CASE LinkChanges
  BY <1>2 DEF LinkChanges
<1>3. CASE TcpConnect \/ TlsConnect
  BY <1>3 DEF TcpConnect, TlsConnect, End
<1>4. CASE \/ SendConnect \/ SendLaunch \/ SendPong \/ SendTransportConnect
           \/ SendLoad
  BY <1>4 DEF SendConnect, SendLaunch, SendPong, SendTransportConnect, SendLoad,
              Write, End
<1>5. CASE StopSeen \/ SendClose \/ ReadEnds \/ FramesDone
  BY <1>5 DEF StopSeen, SendClose, ReadEnds, FramesDone, End
<1>6. CASE HandleFrame
  BY <1>6 DEF HandleFrame
<1>7. CASE Heartbeat
  BY <1>7 DEF Heartbeat
<1>8. CASE SendPing
  <2>1. ~quiet /\ ~owed /\ since = 0
    BY <1>8 DEF SendPing
  <2>2. LinkLost(Elapsed) = {FALSE}
    BY <2>1 DEF LinkLost, Elapsed
  <2>3. \/ at' = "select" /\ since' = 1 /\ owed' = TRUE /\ cause' = cause
        \/ at' = "ended" /\ cause' = "write" /\ since' = 0 /\ owed' = owed
    <3>1. ASSUME NEW lost \in LinkLost(Elapsed),
                 IF lost
                 THEN End("deadline") /\ UNCHANGED <<since, owed>>
                 ELSE at' = "select" /\ since' = Elapsed /\ owed' = TRUE
                      /\ UNCHANGED cause
          PROVE  at' = "select" /\ since' = 1 /\ owed' = TRUE /\ cause' = cause
      <4>1. lost = FALSE
        BY <2>2
      <4> QED
        BY <2>1, <3>1, <4>1 DEF Elapsed
    <3>2. ASSUME End("write"), UNCHANGED <<since, owed>>
          PROVE  /\ at' = "ended" /\ cause' = "write"
                 /\ since' = 0 /\ owed' = owed
      BY <2>1, <3>2 DEF End
    <3> QED
      BY <1>8, <3>1, <3>2 DEF SendPing
  <2> QED
    BY <1>8, <2>1, <2>3 DEF SendPing
<1>9. ASSUME NEW fs \in BoundedSeq(Frames, MaxFrames), Read(fs)
      PROVE  /\ link' # "silent" /\ since' <= 1
             /\ ~owed' => since' = 0
             /\ at' = "ping" => ~owed'
             /\ cause' # "deadline"
  BY <1>9 DEF Read, SinceRead
<1>10. CASE UNCHANGED sessionVars
  BY <1>10 DEF sessionVars
<1> QED
  BY <1>1, <1>2, <1>3, <1>4, <1>5, <1>6, <1>7, <1>8, <1>9, <1>10
     DEF SessionNext, Task

THEOREM SessionInvariant == SessionSpec => []SessionInv
<1>1. SessionInv /\ [SessionNext]_sessionVars => SessionInv'
  BY TypeStep, OnePingStep DEF SessionInv
<1> QED
  BY <1>1, InitInv, PTL DEF SessionSpec

(* Every variable keeps to its type (run_cast_session of cast/client.rs).   *)
THEOREM SessionTypeCorrect == SessionSpec => []SessionTypeOK
<1>1. SessionInv => SessionTypeOK
  BY DEF SessionInv
<1> QED
  BY <1>1, SessionInvariant, PTL

(* The stream is loaded at most once, however often the receiver reports its *)
(* status (client.rs, `loaded`).                                           *)
THEOREM LoadsOnce == SessionSpec => []LoadedOnce
<1>1. SessionInv => LoadedOnce
  BY DEF SessionInv
<1> QED
  BY <1>1, SessionInvariant, PTL

(* A link that never went silent is not given up by the inbound deadline     *)
(* (link_lost of client.rs).                                               *)
THEOREM DeadlineIsSilence == SessionSpec => []NoFalseLoss
<1>1. SessionInv => NoFalseLoss
  BY DEF SessionInv, OnePing, NoFalseLoss
<1> QED
  BY <1>1, SessionInvariant, PTL

-----------------------------------------------------------------------------
(* The refinement: the session lives the life the output controller counts   *)
(* on, the abstract phase being read off the await and `loaded`.            *)

LEMMA LifeInit == SessionInit => Life!Init
  BY DEF SessionInit, Life!Init, Phase

LEMMA LifeStep ==
  SessionInv /\ [SessionNext]_sessionVars => [Life!Next]_Life!lifeVars
<1> SUFFICES ASSUME SessionInv, [SessionNext]_sessionVars
             PROVE  Life!Next \/ (Phase' = Phase /\ stop' = stop)
  BY DEF Life!lifeVars
<1> USE DEF SessionInv, SessionTypeOK, SessionPlaces, NotLoadedYet, Phase
<1>1. CASE Stop
  BY <1>1 DEF Stop, Life!Next, Life!Stop
<1>2. CASE LinkChanges
  BY <1>2 DEF LinkChanges
<1>3. CASE TcpConnect \/ TlsConnect \/ SendConnect
  BY <1>3 DEF TcpConnect, TlsConnect, SendConnect, Write, End, Life!Next,
              Life!End
<1>4. CASE SendLaunch
  BY <1>4 DEF SendLaunch, Write, End, Life!Next, Life!End, Life!Launch
<1>5. CASE StopSeen \/ SendClose \/ ReadEnds
  BY <1>5 DEF StopSeen, SendClose, ReadEnds, End, Life!Next, Life!End
<1>6. CASE HandleFrame
  BY <1>6 DEF HandleFrame
<1>7. CASE FramesDone
  BY <1>7 DEF FramesDone, Life!Next, Life!Handled
<1>8. CASE SendPong \/ SendTransportConnect
  BY <1>8 DEF SendPong, SendTransportConnect, Write, End, Life!Next, Life!End
<1>9. CASE SendLoad
  <2>1. Phase = "loading" /\ stop' = stop
    BY <1>9 DEF SendLoad, Write
  <2>2. CASE at' = "frame"
    <3>1. loaded' = TRUE
      BY <1>9, <2>2 DEF SendLoad
    <3>2. Phase' = "playing"
      BY <2>2, <3>1
    <3> QED
      BY <2>1, <3>2 DEF Life!Next, Life!Handled
  <2>3. CASE at' = "ended"
    BY <2>1, <2>3 DEF Life!Next, Life!End
  <2> QED
    BY <1>9, <2>2, <2>3 DEF SendLoad, Write, End
<1>10. CASE Heartbeat
  BY <1>10 DEF Heartbeat
<1>11. CASE SendPing
  BY <1>11 DEF SendPing, End, Life!Next, Life!End
<1>12. ASSUME NEW fs \in BoundedSeq(Frames, MaxFrames), Read(fs)
       PROVE  Life!Next \/ (Phase' = Phase /\ stop' = stop)
  <2>1. at = "select" /\ ~stop /\ stop' = stop /\ loaded' = loaded
    BY <1>12 DEF Read, SeesStop
  <2>2. at' \in {"select", "frame"}
    BY <1>12 DEF Read
  <2>3. CASE loaded
    <3>1. Phase = "playing" /\ Phase' = "playing"
      BY <2>1, <2>2, <2>3
    <3> QED
      BY <2>1, <3>1
  <2>4. CASE ~loaded
    <3>1. Phase = "launched" /\ Phase' \in {"launched", "loading"}
      BY <2>1, <2>2, <2>4
    <3> QED
      BY <2>1, <3>1 DEF Life!Next, Life!Status
  <2> QED
    BY <2>3, <2>4
<1>13. CASE UNCHANGED sessionVars
  BY <1>13 DEF sessionVars
<1> QED
  BY <1>1, <1>2, <1>3, <1>4, <1>5, <1>6, <1>7, <1>8, <1>9, <1>10, <1>11, <1>12,
     <1>13 DEF SessionNext, Task

(* The detailed session implements CastLife: only bytes read before the stop  *)
(* signal lead to a LOAD, and a task that ended stays ended.                *)
THEOREM ImplementsCastLife == SessionSpec => LivesAsReckoned
<1> QED
  BY LifeInit, LifeStep, SessionInvariant, PTL
     DEF SessionSpec, LivesAsReckoned, Life!Spec

-----------------------------------------------------------------------------
(* CastWire: the prefix.                                                    *)

(* A set of naturals has a least member.                                      *)
LEMMA LeastIn ==
  ASSUME NEW S \in SUBSET Nat, S # {}
  PROVE  \E m \in S : \A n \in S : m <= n
<1> DEFINE R == OpToRel(<, Nat)
<1>1. IsWellFoundedOn(R, Nat)
  BY NatLessThanWellFounded
<1>2. PICK m \in S : \A n \in S : <<n, m>> \notin R
  <2> HIDE DEF R
  <2> QED
    BY <1>1, WFMin
<1>3. ASSUME NEW n \in S
      PROVE  m <= n
  <2>1. ~ (n < m)
    BY <1>2 DEF OpToRel
  <2> QED
    BY <2>1
<1> QED
  BY <1>3

(* What is defined from one number to the next is defined.                    *)
Recursive(f, n, base, step) ==
  f = [i \in 0 .. n |-> IF i = 0 THEN base ELSE step[<<i, f[i - 1]>>]]

(* It goes one number further.                                               *)
LEMMA RecursionNext ==
  ASSUME NEW S, NEW base \in S, NEW n \in Nat, NEW step \in [Nat \X S -> S],
         NEW f \in [0 .. n -> S], Recursive(f, n, base, step)
  PROVE  \E g \in [0 .. n + 1 -> S] : Recursive(g, n + 1, base, step)
<1> DEFINE g == [i \in 0 .. n + 1 |-> IF i = n + 1 THEN step[<<n + 1, f[n]>>] ELSE f[i]]
<1>1. f[n] \in S /\ step[<<n + 1, f[n]>>] \in S
  <2>1. f[n] \in S
    OBVIOUS
  <2>2. <<n + 1, f[n]>> \in Nat \X S
    BY <2>1
  <2> QED
    BY <2>1, <2>2
<1>2. g \in [0 .. n + 1 -> S]
  <2>1. ASSUME NEW i \in 0 .. n + 1, i # n + 1
        PROVE  f[i] \in S
    <3>1. i \in 0 .. n
      BY <2>1
    <3> QED
      BY <3>1
  <2> QED
    BY <1>1, <2>1
<1>3. ASSUME NEW i \in 0 .. n + 1
      PROVE  g[i] = IF i = 0 THEN base ELSE step[<<i, g[i - 1]>>]
  <2>1. CASE i = n + 1
    <3>1. i # 0 /\ n \in 0 .. n + 1 /\ n # n + 1 /\ i - 1 = n
      BY <2>1
    <3>2. g[i] = step[<<n + 1, f[n]>>] /\ g[n] = f[n]
      BY <2>1, <3>1
    <3> HIDE DEF g
    <3> QED
      BY <2>1, <3>1, <3>2
  <2>2. CASE i # n + 1
    <3>1. i \in 0 .. n /\ g[i] = f[i]
      BY <2>2
    <3>2. f[i] = IF i = 0 THEN base ELSE step[<<i, f[i - 1]>>]
      BY <3>1 DEF Recursive
    <3>3. i # 0 => g[i - 1] = f[i - 1]
      BY <3>1
    <3> HIDE DEF g
    <3> QED
      BY <3>1, <3>2, <3>3
  <2> QED
    BY <2>1, <2>2
<1>4. Recursive(g, n + 1, base, step)
  <2>1. g = [i \in 0 .. n + 1 |-> g[i]]
    OBVIOUS
  <2> HIDE DEF g
  <2> QED
    BY <1>3, <2>1 DEF Recursive
<1> QED
  BY <1>2, <1>4

(* It goes all the way: a first number it does not reach would be the next of  *)
(* one that it does.                                                       *)
LEMMA Recursion ==
  ASSUME NEW S, NEW base \in S, NEW n \in Nat, NEW step \in [Nat \X S -> S]
  PROVE  \E f \in [0 .. n -> S] : Recursive(f, n, base, step)
<1> DEFINE Defined(k) == \E f \in [0 .. k -> S] : Recursive(f, k, base, step)
           Bad == {k \in 0 .. n : ~ Defined(k)}
<1>1. Defined(0)
  <2> DEFINE f == [i \in 0 .. 0 |-> base]
  <2>1. f \in [0 .. 0 -> S]
    OBVIOUS
  <2>2. Recursive(f, 0, base, step)
    BY DEF Recursive
  <2> QED
    BY <2>1, <2>2
<1>2. SUFFICES ASSUME Bad # {} PROVE FALSE
  <2>1. n \notin Bad => Defined(n)
    OBVIOUS
  <2> QED
    BY <1>2, <2>1
<1>3. PICK m \in Bad : \A k \in Bad : m <= k
  <2>1. Bad \in SUBSET Nat
    OBVIOUS
  <2> HIDE DEF Bad
  <2> QED
    BY <1>2, <2>1, LeastIn
<1>4. m \in 0 .. n /\ ~ Defined(m)
  OBVIOUS
<1>5. m # 0
  BY <1>1, <1>4
<1> DEFINE l == m - 1
<1>6. l \in Nat /\ l \in 0 .. n /\ m = l + 1 /\ ~ (m <= l)
  BY <1>4, <1>5
<1>7. l \notin Bad
  BY <1>3, <1>6
<1>8. Defined(l)
  BY <1>6, <1>7
<1> HIDE DEF l, Bad
<1>9. PICK f \in [0 .. l -> S] : Recursive(f, l, base, step)
  BY <1>8
<1>10. PICK g \in [0 .. l + 1 -> S] : Recursive(g, l + 1, base, step)
  BY <1>6, <1>9, RecursionNext
<1> QED
  BY <1>4, <1>6, <1>10

(* A length shifted out byte by byte.                                        *)
LEMMA ShiftedIs ==
  ASSUME NEW n \in Nat
  PROVE  /\ Shifted(n) \in [0 .. PREFIX -> Nat]
         /\ Shifted(n)[0] = n
         /\ \A i \in 1 .. PREFIX : Shifted(n)[i] = Shifted(n)[i - 1] \div BYTE
<1> DEFINE step == [p \in Nat \X Nat |-> p[2] \div BYTE]
           Shifts(f) == f = [i \in 0 .. PREFIX |-> IF i = 0 THEN n ELSE f[i - 1] \div BYTE]
<1>1. PREFIX \in Nat /\ PREFIX >= 1 /\ BYTE \in Nat /\ BYTE > 1
  BY WireAssumption
<1>2. \A i, x \in Nat : step[<<i, x>>] = x \div BYTE /\ x \div BYTE \in Nat
  BY <1>1
<1>3. step \in [Nat \X Nat -> Nat]
  BY <1>2
<1> HIDE DEF step
<1>4. PICK f \in [0 .. PREFIX -> Nat] : Recursive(f, PREFIX, n, step)
  BY <1>1, <1>3, Recursion
<1>5. Shifts(f)
  <2>1. \A i \in 0 .. PREFIX : i # 0 => i \in Nat /\ f[i - 1] \in Nat
    BY <1>1
  <2>2. \A i \in 0 .. PREFIX : i # 0 => step[<<i, f[i - 1]>>] = f[i - 1] \div BYTE
    BY <1>2, <2>1
  <2> QED
    BY <1>4, <2>2 DEF Recursive
<1> DEFINE s == CHOOSE g : Shifts(g)
<1>6. Shifted(n) = s
  BY DEF Shifted
<1>7. Shifts(s)
  <2> HIDE DEF Shifts
  <2> QED
    BY <1>5
<1> HIDE DEF s
<1>8. \A i \in 0 .. PREFIX : s[i] = IF i = 0 THEN n ELSE s[i - 1] \div BYTE
  BY <1>7
<1>9. \A i \in 0 .. PREFIX : s[i] = f[i]
  <2> DEFINE Bad == {i \in 0 .. PREFIX : s[i] # f[i]}
  <2>1. SUFFICES ASSUME Bad # {} PROVE FALSE
    BY <2>1
  <2>2. PICK m \in Bad : \A k \in Bad : m <= k
    <3>1. Bad \in SUBSET Nat
      BY <1>1
    <3> HIDE DEF Bad
    <3> QED
      BY <2>1, <3>1, LeastIn
  <2>3. m \in 0 .. PREFIX /\ s[m] # f[m]
    OBVIOUS
  <2>4. \A i \in 0 .. PREFIX : f[i] = IF i = 0 THEN n ELSE f[i - 1] \div BYTE
    BY <1>5
  <2>5. m # 0
    BY <1>8, <2>3, <2>4
  <2>6. m - 1 \in 0 .. PREFIX /\ ~ (m <= m - 1)
    BY <1>1, <2>3, <2>5
  <2>7. s[m - 1] = f[m - 1]
    BY <2>2, <2>6
  <2> QED
    BY <1>8, <2>3, <2>4, <2>5, <2>7
<1>10. s = f
  BY <1>5, <1>7, <1>9
<1>11. 0 \in 0 .. PREFIX /\ \A i \in 1 .. PREFIX : i \in 0 .. PREFIX /\ i # 0
  BY <1>1
<1>12. s[0] = n /\ \A i \in 1 .. PREFIX : s[i] = s[i - 1] \div BYTE
  BY <1>8, <1>11, Zenon
<1>13. s \in [0 .. PREFIX -> Nat]
  BY <1>10, Zenon
<1> QED
  BY <1>6, <1>12, <1>13, Zenon

LEMMA Division ==
  ASSUME NEW a \in Nat, NEW b \in Nat \ {0}
  PROVE  /\ a \div b \in Nat
         /\ a % b \in 0 .. b - 1
         /\ a = ((a \div b) * b) + (a % b)
  BY SMTT(20)

(* FromBe reads digits that are there.                                       *)
LEMMA FromBeIs ==
  ASSUME NEW d \in [1 .. PREFIX -> Nat]
  PROVE  \E v : /\ v[0] = 0
                /\ \A i \in 1 .. PREFIX : v[i] = (v[i - 1] * BYTE) + d[i]
                /\ FromBe(d) = v[PREFIX]
<1> DEFINE digit(i) == IF i \in 1 .. PREFIX THEN d[i] ELSE 0
           step == [p \in Nat \X Nat |-> (p[2] * BYTE) + digit(p[1])]
           Reads(f) == f = [i \in 0 .. PREFIX |->
                              IF i = 0 THEN 0 ELSE (f[i - 1] * BYTE) + d[i]]
<1>1. PREFIX \in Nat /\ BYTE \in Nat
  BY WireAssumption
<1>2. \A i, x \in Nat : digit(i) \in Nat /\ x * BYTE \in Nat
  BY <1>1
<1> HIDE DEF digit
<1>3. ASSUME NEW i \in Nat, NEW x \in Nat
      PROVE  (x * BYTE) + digit(i) \in Nat
  <2>1. x * BYTE \in Nat /\ digit(i) \in Nat
    BY <1>2
  <2> QED
    BY <2>1
<1>4. /\ step \in [Nat \X Nat -> Nat]
      /\ \A i, x \in Nat : step[<<i, x>>] = (x * BYTE) + digit(i)
  <2>1. ASSUME NEW p \in Nat \X Nat
        PROVE  (p[2] * BYTE) + digit(p[1]) \in Nat
    <3>1. p[1] \in Nat /\ p[2] \in Nat
      OBVIOUS
    <3> QED
      BY <1>3, <3>1
  <2>2. ASSUME NEW i \in Nat, NEW x \in Nat
        PROVE  step[<<i, x>>] = (x * BYTE) + digit(i)
    OBVIOUS
  <2> QED
    BY <2>1, <2>2
<1> HIDE DEF step
<1>5. PICK f \in [0 .. PREFIX -> Nat] : Recursive(f, PREFIX, 0, step)
  BY <1>1, <1>4, Recursion
<1>6. Reads(f)
  <2>1. \A i \in 0 .. PREFIX : i # 0 => i \in Nat /\ f[i - 1] \in Nat /\ digit(i) = d[i]
    BY <1>1 DEF digit
  <2>2. \A i \in 0 .. PREFIX : i # 0 => step[<<i, f[i - 1]>>] = (f[i - 1] * BYTE) + d[i]
    BY <1>4, <2>1
  <2> QED
    BY <1>5, <2>2 DEF Recursive
<1> DEFINE v == CHOOSE g : Reads(g)
<1>7. FromBe(d) = v[PREFIX]
  BY DEF FromBe
<1>8. Reads(v)
  <2> HIDE DEF Reads
  <2> QED
    BY <1>6
<1> HIDE DEF v
<1>9. \A i \in 0 .. PREFIX : v[i] = IF i = 0 THEN 0 ELSE (v[i - 1] * BYTE) + d[i]
  BY <1>8
<1>10. v[0] = 0 /\ \A i \in 1 .. PREFIX : v[i] = (v[i - 1] * BYTE) + d[i]
  <2>1. 0 \in 0 .. PREFIX /\ \A i \in 1 .. PREFIX : i \in 0 .. PREFIX /\ i # 0
    BY <1>1
  <2> QED
    BY <1>9, <2>1, Zenon
<1> QED
  BY <1>7, <1>10

(* What the prefix says is the length that was written.                       *)
LEMMA RoundTrip ==
  ASSUME NEW n \in Nat, Shifted(n)[PREFIX] = 0
  PROVE  ToBe(n) \in [1 .. PREFIX -> 0 .. BYTE - 1] /\ FromBe(ToBe(n)) = n
<1> DEFINE s == Shifted(n)
           d == ToBe(n)
<1>1. PREFIX \in Nat /\ PREFIX >= 1 /\ BYTE \in Nat \ {0}
  BY WireAssumption
<1>2. s \in [0 .. PREFIX -> Nat] /\ s[0] = n /\ s[PREFIX] = 0
      /\ \A i \in 1 .. PREFIX : s[i] = s[i - 1] \div BYTE
  BY ShiftedIs
<1>3. d = [i \in 1 .. PREFIX |-> s[PREFIX - i] % BYTE]
  BY DEF ToBe
<1> HIDE DEF s, d
<1>4. ASSUME NEW i \in 1 .. PREFIX
      PROVE  /\ PREFIX - i \in 0 .. PREFIX /\ s[PREFIX - i] \in Nat
             /\ d[i] = s[PREFIX - i] % BYTE /\ d[i] \in 0 .. BYTE - 1
             /\ s[PREFIX - i] = (s[PREFIX - (i - 1)] * BYTE) + d[i]
  <2>1. PREFIX - i \in 0 .. PREFIX /\ s[PREFIX - i] \in Nat
    BY <1>1, <1>2
  <2>2. d[i] = s[PREFIX - i] % BYTE
    BY <1>3
  <2>3. PREFIX - (i - 1) \in 1 .. PREFIX /\ (PREFIX - (i - 1)) - 1 = PREFIX - i
    BY <1>1
  <2>4. s[PREFIX - (i - 1)] = s[PREFIX - i] \div BYTE
    BY <1>2, <2>3
  <2>5. /\ s[PREFIX - i] % BYTE \in 0 .. BYTE - 1
        /\ s[PREFIX - i] = ((s[PREFIX - i] \div BYTE) * BYTE) + (s[PREFIX - i] % BYTE)
    BY <1>1, <2>1, Division
  <2> QED
    BY <2>1, <2>2, <2>4, <2>5
<1>5. d \in [1 .. PREFIX -> 0 .. BYTE - 1]
  <2>1. d = [i \in 1 .. PREFIX |-> d[i]]
    BY <1>3
  <2>2. \A i \in 1 .. PREFIX : d[i] \in 0 .. BYTE - 1
    BY <1>4
  <2> QED
    BY <2>1, <2>2
<1>6. d \in [1 .. PREFIX -> Nat]
  <2>1. 0 .. BYTE - 1 \subseteq Nat
    BY <1>1
  <2> QED
    BY <1>5, <2>1
<1>7. PICK v : /\ v[0] = 0
               /\ \A i \in 1 .. PREFIX : v[i] = (v[i - 1] * BYTE) + d[i]
               /\ FromBe(d) = v[PREFIX]
  BY <1>6, FromBeIs
<1>8. \A i \in 0 .. PREFIX : v[i] = s[PREFIX - i]
  <2> DEFINE Bad == {i \in 0 .. PREFIX : v[i] # s[PREFIX - i]}
  <2>1. SUFFICES ASSUME Bad # {} PROVE FALSE
    BY <2>1
  <2>2. PICK m \in Bad : \A k \in Bad : m <= k
    <3>1. Bad \in SUBSET Nat
      BY <1>1
    <3> HIDE DEF Bad
    <3> QED
      BY <2>1, <3>1, LeastIn
  <2>3. m \in 0 .. PREFIX /\ v[m] # s[PREFIX - m]
    OBVIOUS
  <2>4. m # 0
    BY <1>1, <1>2, <1>7, <2>3
  <2>5. m \in 1 .. PREFIX /\ m - 1 \in 0 .. PREFIX /\ ~ (m <= m - 1)
    BY <1>1, <2>3, <2>4
  <2>6. v[m - 1] = s[PREFIX - (m - 1)]
    BY <2>2, <2>5
  <2>7. v[m] = (v[m - 1] * BYTE) + d[m]
    BY <1>7, <2>5
  <2> QED
    BY <1>4, <2>3, <2>5, <2>6, <2>7
<1>9. v[PREFIX] = n
  <2>1. PREFIX \in 0 .. PREFIX /\ PREFIX - PREFIX = 0
    BY <1>1
  <2> QED
    BY <1>2, <1>8, <2>1
<1> QED
  BY <1>5, <1>7, <1>9 DEF d

-----------------------------------------------------------------------------
(* CastWire: the bytes.                                                     *)

Byte == 0 .. BYTE - 1

LEMMA FrameIs ==
  ASSUME NEW p \in Payloads
  PROVE  /\ p \in Seq(Byte) /\ ToBe(Len(p)) \in Seq(Byte) /\ EncodeFrame(p) \in Seq(Byte)
         /\ Len(ToBe(Len(p))) = PREFIX /\ Len(EncodeFrame(p)) = PREFIX + Len(p)
         /\ FromBe(ToBe(Len(p))) = Len(p)
<1>1. PREFIX \in Nat /\ p \in Seq(Byte) /\ Shifted(Len(p))[PREFIX] = 0
  BY WireAssumption DEF Byte
<1>2. Len(p) \in Nat
  BY <1>1
<1>3. ToBe(Len(p)) \in [1 .. PREFIX -> Byte] /\ FromBe(ToBe(Len(p))) = Len(p)
  BY <1>1, <1>2, RoundTrip DEF Byte
<1> HIDE DEF Byte
<1>4. ToBe(Len(p)) \in Seq(Byte) /\ Len(ToBe(Len(p))) = PREFIX
  BY <1>1, <1>3
<1> QED
  BY <1>1, <1>3, <1>4 DEF EncodeFrame

(* The parts of a sequence cut after n, and three sequences joined. The facts   *)
(* have names, so that a step can cite them without unfolding the equations.  *)
Cuts(s, n, S) ==
  /\ SubSeq(s, 1, n) \in Seq(S) /\ SubSeq(s, n + 1, Len(s)) \in Seq(S)
  /\ Len(SubSeq(s, 1, n)) = n /\ Len(SubSeq(s, n + 1, Len(s))) = Len(s) - n
  /\ SubSeq(s, 1, n) \o SubSeq(s, n + 1, Len(s)) = s

Regroups(a, b, c) == (a \o b) \o c = a \o (b \o c)

LEMMA Joins ==
  ASSUME NEW S, NEW a \in Seq(S), NEW b \in Seq(S), NEW c \in Seq(S)
  PROVE  Regroups(a, b, c)
BY ConcatAssociative DEF Regroups

LEMMA JoinedAt ==
  ASSUME NEW S, NEW a \in Seq(S), NEW b \in Seq(S), NEW i \in 1 .. Len(b)
  PROVE  (a \o b)[Len(a) + i] = b[i]
OBVIOUS

(* A sequence cut in two.                                                    *)
LEMMA CutJoins ==
  ASSUME NEW S, NEW s \in Seq(S), NEW n \in 0 .. Len(s)
  PROVE  Cuts(s, n, S)
<1>1. SubSeq(s, 1, n) \o SubSeq(s, n + 1, Len(s)) = SubSeq(s, 1, Len(s))
  <2>1. 1 \in 1 .. Len(s) + 1 /\ n \in 1 - 1 .. Len(s) /\ Len(s) \in n .. Len(s)
    OBVIOUS
  <2> QED
    BY <2>1, ConcatAdjacentSubSeq
<1>2. SubSeq(s, 1, Len(s)) = s
  BY SubSeqFull
<1>3. SubSeq(s, 1, n) \in Seq(S) /\ SubSeq(s, n + 1, Len(s)) \in Seq(S)
  OBVIOUS
<1>4. Len(SubSeq(s, 1, n)) = n /\ Len(SubSeq(s, n + 1, Len(s))) = Len(s) - n
  OBVIOUS
<1> QED
  BY <1>1, <1>2, <1>3, <1>4, Zenon DEF Cuts

(* Of two sequences that begin one sequence the shorter begins the longer.     *)
LEMMA Begins ==
  ASSUME NEW S, NEW a \in Seq(S), NEW b \in Seq(S), NEW c \in Seq(S), NEW d \in Seq(S),
         a \o b = c \o d, Len(c) <= Len(a)
  PROVE  /\ SubSeq(a, 1, Len(c)) = c
         /\ SubSeq(a, Len(c) + 1, Len(a)) \o b = d
<1> DEFINE start == SubSeq(a, 1, Len(c))
           rest == SubSeq(a, Len(c) + 1, Len(a))
<1>1. /\ start \in Seq(S) /\ rest \in Seq(S)
      /\ Len(start) = Len(c) /\ start \o rest = a
  <2>1. Len(c) \in 0 .. Len(a)
    OBVIOUS
  <2>2. Cuts(a, Len(c), S)
    BY <2>1, CutJoins, Zenon
  <2> QED
    BY <2>2 DEF Cuts
<1>2. \A i \in 1 .. Len(c) : start[i] = c[i]
  <2> SUFFICES ASSUME NEW i \in 1 .. Len(c) PROVE start[i] = c[i]
    OBVIOUS
  <2>1. start[i] = a[i]
    OBVIOUS
  <2>2. (a \o b)[i] = a[i] /\ (c \o d)[i] = c[i]
    OBVIOUS
  <2> QED
    BY <2>1, <2>2
<1> HIDE DEF start, rest
<1>3. start = c
  BY <1>1, <1>2, SeqEqual
<1>4. c \o (rest \o b) = c \o d
  <2>1. Regroups(c, rest, b)
    BY <1>1, Joins, Zenon
  <2> QED
    BY <1>1, <1>3, <2>1 DEF Regroups
<1>5. rest \o b \in Seq(S)
  BY <1>1
<1>6. rest \o b = d
  BY <1>4, <1>5, ConcatSimplifications
<1> QED
  BY <1>3, <1>6 DEF start, rest

(* What decode_frame reads if a frame comes first.                           *)
LEMMA FrameRead ==
  ASSUME readBuf \in Seq(Byte), NEW p \in Payloads,
         NEW more \in Seq(Byte), NEW rest \in Seq(Byte),
         readBuf \o more = EncodeFrame(p) \o rest
  PROVE  /\ Complete <=> PREFIX + Len(p) <= Len(readBuf)
         /\ Complete => /\ Payload = p /\ Total = PREFIX + Len(p)
                        /\ SubSeq(readBuf, Total + 1, Len(readBuf)) \o more = rest
<1> DEFINE E == EncodeFrame(p)
           L == ToBe(Len(p))
<1>1. /\ p \in Seq(Byte) /\ L \in Seq(Byte) /\ E \in Seq(Byte)
      /\ Len(L) = PREFIX /\ Len(E) = PREFIX + Len(p) /\ FromBe(L) = Len(p)
      /\ E = L \o p /\ PREFIX \in Nat
  BY FrameIs, WireAssumption DEF EncodeFrame
<1> HIDE DEF L, E, Byte
<1>2. readBuf \o more = L \o (p \o rest) /\ p \o rest \in Seq(Byte)
  <2>1. Regroups(L, p, rest)
    BY <1>1, Joins, Zenon
  <2>2. readBuf \o more = E \o rest
    BY DEF E
  <2>3. readBuf \o more = (L \o p) \o rest
    BY <1>1, <2>2, Zenon
  <2>4. p \o rest \in Seq(Byte)
    BY <1>1
  <2> QED
    BY <2>1, <2>3, <2>4, Zenon DEF Regroups
<1>3. PREFIX <= Len(readBuf) => Total = PREFIX + Len(p)
  <2> SUFFICES ASSUME PREFIX <= Len(readBuf) PROVE Total = PREFIX + Len(p)
    OBVIOUS
  <2>1. SubSeq(readBuf, 1, PREFIX) = L
    BY <1>1, <1>2, Begins
  <2> QED
    BY <1>1, <2>1 DEF Total
<1>4. Complete <=> PREFIX + Len(p) <= Len(readBuf)
  BY <1>1, <1>3 DEF Complete
<1>5. ASSUME Complete
      PROVE  /\ Payload = p /\ Total = PREFIX + Len(p)
             /\ SubSeq(readBuf, Total + 1, Len(readBuf)) \o more = rest
  <2>1. Len(E) <= Len(readBuf) /\ Total = Len(E) /\ Total = PREFIX + Len(p)
    BY <1>1, <1>3, <1>4, <1>5 DEF Complete
  <2>2. /\ SubSeq(readBuf, 1, Len(E)) = E
        /\ SubSeq(readBuf, Len(E) + 1, Len(readBuf)) \o more = rest
    <3>1. readBuf \o more = E \o rest
      BY DEF E
    <3> QED
      BY <1>1, <2>1, <3>1, Begins
  <2>3. Payload \in Seq(Byte) /\ Len(Payload) = Len(p)
    BY <1>1, <2>1 DEF Payload
  <2>4. \A i \in 1 .. Len(p) : Payload[i] = p[i]
    <3> SUFFICES ASSUME NEW i \in 1 .. Len(p) PROVE Payload[i] = p[i]
      OBVIOUS
    <3>1. Payload[i] = readBuf[PREFIX + i]
      BY <1>1, <2>1 DEF Payload
    <3>2. SubSeq(readBuf, 1, Len(E))[PREFIX + i] = readBuf[PREFIX + i]
      BY <1>1, <2>1
    <3>3. E[PREFIX + i] = p[i]
      <4>1. (L \o p)[Len(L) + i] = p[i]
        BY <1>1, JoinedAt, Zenon
      <4> QED
        BY <1>1, <4>1, Zenon
    <3> QED
      BY <2>2, <3>1, <3>2, <3>3
  <2>5. Payload = p
    BY <1>1, <2>3, <2>4, SeqEqual
  <2> QED
    BY <2>1, <2>2, <2>5
<1> QED
  BY <1>4, <1>5

-----------------------------------------------------------------------------
(* CastWire: every frame is answered once and in order.                      *)

Replies == {Reply(m, before) : m \in Messages, before \in BOOLEAN}

WireTypes ==
  /\ wire \in Seq(Byte) /\ readBuf \in Seq(Byte)
  /\ drains \in BOOLEAN /\ launched \in BOOLEAN
  /\ answers \in Seq(Replies) /\ sent \in Seq(Payloads) /\ ends \in Seq(Nat)
  /\ arrived \in Nat

(* The message of the i-th frame, and whether a status names a transport.     *)
Meant(i) == CHOOSE m \in Messages : Bytes[m] = sent[i]

Launches(m) == m.type = "RECEIVER_STATUS" /\ LaunchedTransportId(m) # NoTransport

Launched(i) == \E j \in 1 .. i - 1 : Launches(Meant(j))

(* The frames that were handled.                                             *)
Handled ==
  /\ Len(answers) <= Len(sent) /\ Len(ends) = Len(sent)
  /\ \A i \in 1 .. Len(answers) :
       /\ sent[i] \notin Garbled /\ ends[i] <= arrived
       /\ answers[i] = Reply(Meant(i), Launched(i))
  /\ launched = Launched(Len(answers) + 1)

(* What is left of all the bytes when the first k frames are taken off.        *)
Remains(rest) ==
  /\ rest \in [0 .. Len(sent) -> Seq(Byte)]
  /\ rest[Len(sent)] = <<>>
  /\ \A k \in 1 .. Len(sent) :
       /\ rest[k - 1] = EncodeFrame(sent[k]) \o rest[k]
       /\ ends[k] + Len(rest[k]) = arrived + Len(wire)
  /\ readBuf \o wire = rest[Len(answers)]

(* What was sent is answered up to some frame, what follows it is in the buffer *)
(* and on the link, and between two reads no frame of it is complete.          *)
WireInv ==
  /\ WireTypes
  /\ Handled
  /\ \E rest : Remains(rest)
  /\ ~drains => ~(Complete /\ Decodes)

LEMMA InitWire == WireInit => WireInv
<1> SUFFICES ASSUME WireInit PROVE WireInv
  OBVIOUS
<1>1. WireTypes
  <2>1. \A S : <<>> \in Seq(S)
    OBVIOUS
  <2>2. 0 \in Nat
    OBVIOUS
  <2> QED
    BY <2>1, <2>2, Zenon DEF WireInit, WireTypes
<1>2. Len(answers) = 0 /\ Len(sent) = 0 /\ Len(ends) = 0
  BY DEF WireInit
<1>3. Handled
  <2>1. ~ Launched(Len(answers) + 1)
    BY <1>2 DEF Launched
  <2>2. ~ launched
    BY DEF WireInit
  <2>3. \A i \in 1 .. Len(answers) : FALSE
    BY <1>2
  <2>4. launched \in BOOLEAN /\ Launched(Len(answers) + 1) \in BOOLEAN
    BY DEF WireInit, Launched
  <2> QED
    BY <1>2, <2>1, <2>2, <2>3, <2>4 DEF Handled
<1>4. Remains([k \in 0 .. 0 |-> <<>>])
  <2>1. [k \in 0 .. 0 |-> <<>>] \in [0 .. 0 -> Seq(Byte)]
    OBVIOUS
  <2>2. readBuf \o wire = <<>>
    BY DEF WireInit
  <2> QED
    BY <1>2, <2>1, <2>2 DEF Remains
<1>5. ~Complete
  BY WireAssumption DEF WireInit, Complete
<1> QED
  BY <1>1, <1>3, <1>4, <1>5 DEF WireInv

(* One more frame at the end of the bytes.                                    *)
LEMMA SendsWire ==
  ASSUME WireInv, NEW p \in Payloads, CastSends(p)
  PROVE  WireInv'
<1> DEFINE E == EncodeFrame(p)
           n == Len(sent)
<1>1. /\ WireTypes /\ Handled /\ n \in Nat /\ Len(answers) \in Nat
      /\ E \in Seq(Byte) /\ Len(E) \in Nat
  <2>1. WireTypes /\ Handled
    BY DEF WireInv
  <2>2. n \in Nat /\ Len(answers) \in Nat
    BY <2>1 DEF WireTypes
  <2>3. E \in Seq(Byte)
    BY FrameIs
  <2> HIDE DEF E
  <2>4. Len(E) \in Nat
    BY <2>3
  <2> QED
    BY <2>1, <2>2, <2>3, <2>4
<1>2. PICK rest : Remains(rest)
  BY DEF WireInv
<1> HIDE DEF E
<1>3. /\ wire' = wire \o E /\ sent' = Append(sent, p)
      /\ ends' = Append(ends, arrived + Len(wire) + Len(E))
      /\ UNCHANGED <<readBuf, drains, launched, answers, arrived>>
  BY DEF CastSends, E
<1>4. WireTypes'
  <2>1. wire' \in Seq(Byte) /\ sent' \in Seq(Payloads)
    BY <1>1, <1>3 DEF WireTypes
  <2>2. arrived + Len(wire) + Len(E) \in Nat
    BY <1>1 DEF WireTypes
  <2>3. ends' \in Seq(Nat)
    BY <1>1, <1>3, <2>2 DEF WireTypes
  <2> QED
    BY <1>1, <1>3, <2>1, <2>3 DEF WireTypes
<1>5. /\ Len(sent') = n + 1 /\ sent'[n + 1] = p /\ \A i \in 1 .. n : sent'[i] = sent[i]
      /\ Len(ends') = n + 1 /\ ends'[n + 1] = arrived + Len(wire) + Len(E)
      /\ \A i \in 1 .. n : ends'[i] = ends[i]
      /\ Len(wire') = Len(wire) + Len(E)
  <2> DEFINE end == arrived + Len(wire) + Len(E)
  <2>1. /\ sent \in Seq(Payloads) /\ ends \in Seq(Nat) /\ Len(ends) = n
        /\ wire \in Seq(Byte) /\ end \in Nat
    BY <1>1 DEF WireTypes, Handled
  <2> HIDE DEF end
  <2>2. Len(sent') = n + 1 /\ sent'[n + 1] = p /\ \A i \in 1 .. n : sent'[i] = sent[i]
    BY <1>3, <2>1
  <2>3. Len(ends') = n + 1 /\ ends'[n + 1] = end /\ \A i \in 1 .. n : ends'[i] = ends[i]
    <3>1. ends' = Append(ends, end)
      BY <1>3 DEF end
    <3> HIDE DEF n
    <3> QED
      BY <1>1, <2>1, <3>1
  <2>4. Len(wire') = Len(wire) + Len(E)
    BY <1>1, <1>3, <2>1
  <2> QED
    BY <2>2, <2>3, <2>4 DEF end
<1> HIDE DEF n
<1>6. Handled'
  <2>1. Len(answers) \in 0 .. n
    BY <1>1 DEF Handled, n
  <2>2. \A i \in 1 .. n : Meant(i)' = Meant(i)
    BY <1>5 DEF Meant
  <2>3. ASSUME NEW i \in 1 .. Len(answers) + 1
        PROVE  Launched(i)' = Launched(i)
    <3>1. \A j \in 1 .. i - 1 : j \in 1 .. n
      BY <1>1, <2>1
    <3>2. \A j \in 1 .. i - 1 : Meant(j)' = Meant(j)
      BY <2>2, <3>1
    <3> QED
      BY <3>2, Zenon DEF Launched
  <2>4. launched' = Launched(Len(answers) + 1)'
    <3>1. Len(answers) + 1 \in 1 .. Len(answers) + 1
      BY <1>1
    <3>2. Launched(Len(answers) + 1)' = Launched(Len(answers) + 1)
      <4>1. Len(answers') = Len(answers)
        BY <1>3
      <4> QED
        BY <2>3, <3>1, <4>1
    <3> QED
      BY <1>1, <1>3, <3>2 DEF Handled
  <2>5. \A i \in 1 .. Len(answers) :
          /\ i \in 1 .. n /\ i \in 1 .. Len(answers) + 1
          /\ sent'[i] = sent[i] /\ ends'[i] = ends[i]
    BY <1>1, <1>5, <2>1
  <2>6. \A i \in 1 .. Len(answers) :
          /\ sent'[i] \notin Garbled /\ ends'[i] <= arrived'
          /\ answers'[i] = Reply(Meant(i)', Launched(i)')
    BY <1>1, <1>3, <2>2, <2>3, <2>5 DEF Handled
  <2>7. Len(answers') <= Len(sent') /\ Len(ends') = Len(sent')
    BY <1>1, <1>3, <1>5, <2>1
  <2>8. Len(answers') = Len(answers)
    BY <1>3
  <2> QED
    BY <2>4, <2>6, <2>7, <2>8 DEF Handled
<1>7. PICK more : more = [k \in 0 .. n + 1 |-> IF k = n + 1 THEN <<>> ELSE rest[k] \o E]
  OBVIOUS
<1>8. Remains(more)'
  <2>1. /\ rest \in [0 .. n -> Seq(Byte)] /\ rest[n] = <<>>
        /\ \A k \in 1 .. n : /\ rest[k - 1] = EncodeFrame(sent[k]) \o rest[k]
                             /\ ends[k] + Len(rest[k]) = arrived + Len(wire)
        /\ readBuf \o wire = rest[Len(answers)]
    BY <1>2 DEF Remains, n
  <2>2. /\ \A k \in 0 .. n : /\ rest[k] \in Seq(Byte) /\ more[k] = rest[k] \o E
                             /\ more[k] \in Seq(Byte) /\ Len(more[k]) = Len(rest[k]) + Len(E)
        /\ more[n + 1] = <<>>
    <3>1. ASSUME NEW k \in 0 .. n
          PROVE  /\ rest[k] \in Seq(Byte) /\ more[k] = rest[k] \o E
                 /\ more[k] \in Seq(Byte) /\ Len(more[k]) = Len(rest[k]) + Len(E)
      <4>1. rest[k] \in Seq(Byte) /\ k # n + 1 /\ k \in 0 .. n + 1
        BY <1>1, <2>1
      <4>2. more[k] = rest[k] \o E
        BY <1>7, <4>1
      <4>3. rest[k] \o E \in Seq(Byte) /\ Len(rest[k] \o E) = Len(rest[k]) + Len(E)
        BY <1>1, <4>1
      <4> QED
        BY <4>1, <4>2, <4>3, Zenon
    <3>2. more[n + 1] = <<>>
      BY <1>1, <1>7
    <3> QED
      BY <3>1, <3>2
  <2>3. more \in [0 .. n + 1 -> Seq(Byte)]
    <3>1. ASSUME NEW k \in 0 .. n + 1
          PROVE  more[k] \in Seq(Byte)
      <4>1. k = n + 1 \/ k \in 0 .. n
        BY <1>1
      <4>2. <<>> \in Seq(Byte)
        OBVIOUS
      <4> QED
        BY <2>2, <4>1, <4>2, Zenon
    <3>2. more = [k \in 0 .. n + 1 |-> more[k]]
      BY <1>7
    <3> QED
      BY <3>1, <3>2
  <2>4. ASSUME NEW k \in 1 .. n + 1
        PROVE  /\ more[k - 1] = EncodeFrame(sent'[k]) \o more[k]
               /\ ends'[k] + Len(more[k]) = arrived' + Len(wire')
    <3>1. CASE k = n + 1
      <4>1. k - 1 = n /\ n \in 0 .. n
        BY <1>1, <3>1
      <4>2. more[k - 1] = <<>> \o E /\ more[k] = <<>> /\ EncodeFrame(sent'[k]) = E
        BY <1>5, <2>1, <2>2, <3>1, <4>1 DEF E
      <4>3. more[k - 1] = EncodeFrame(sent'[k]) \o more[k]
        BY <1>1, <4>2
      <4>4. ends'[k] + Len(more[k]) = arrived' + Len(wire')
        BY <1>1, <1>3, <1>5, <3>1, <4>2 DEF WireTypes
      <4> QED
        BY <4>3, <4>4
    <3>2. CASE k \in 1 .. n
      <4> DEFINE F == EncodeFrame(sent[k])
      <4>1. k - 1 \in 0 .. n /\ k \in 0 .. n /\ sent'[k] = sent[k] /\ ends'[k] = ends[k]
        BY <1>1, <1>5, <3>2
      <4>2. F \in Seq(Byte) /\ rest[k] \in Seq(Byte)
        <5>1. sent[k] \in Payloads
          BY <1>1, <3>2 DEF WireTypes, n
        <5> QED
          BY <2>2, <4>1, <5>1, FrameIs
      <4>3. more[k - 1] = (F \o rest[k]) \o E /\ more[k] = rest[k] \o E
        BY <2>1, <2>2, <3>2, <4>1
      <4> HIDE DEF F
      <4>4. (F \o rest[k]) \o E = F \o (rest[k] \o E)
        <5>1. Regroups(F, rest[k], E)
          BY <1>1, <4>2, Joins, Zenon
        <5> QED
          BY <5>1 DEF Regroups
      <4>5. more[k - 1] = EncodeFrame(sent'[k]) \o more[k]
        BY <4>1, <4>3, <4>4 DEF F
      <4>6. ends'[k] + Len(more[k]) = arrived' + Len(wire')
        <5>1. ends[k] \in Nat /\ Len(rest[k]) \in Nat /\ arrived \in Nat /\ Len(wire) \in Nat
          <6>1. ends \in Seq(Nat) /\ k \in 1 .. Len(ends)
            BY <1>1, <3>2 DEF WireTypes, Handled, n
          <6>2. arrived \in Nat /\ wire \in Seq(Byte)
            BY <1>1 DEF WireTypes
          <6>3. ends[k] \in Nat
            BY <6>1
          <6>4. Len(rest[k]) \in Nat /\ Len(wire) \in Nat
            BY <4>2, <6>2
          <6> QED
            BY <6>2, <6>3, <6>4
        <5>2. Len(more[k]) = Len(rest[k]) + Len(E)
          BY <2>2, <4>1
        <5>3. ends[k] + Len(rest[k]) = arrived + Len(wire)
          BY <2>1, <3>2
        <5>4. /\ ends'[k] = ends[k] /\ arrived' = arrived
              /\ Len(wire') = Len(wire) + Len(E) /\ Len(E) \in Nat
          BY <1>1, <1>3, <1>5, <4>1
        <5>5. ends'[k] + Len(more[k]) = (ends[k] + Len(rest[k])) + Len(E)
          BY <1>1, <5>1, <5>2, <5>4
        <5> QED
          BY <1>1, <5>1, <5>3, <5>4, <5>5
      <4> QED
        BY <4>5, <4>6
    <3>3. k = n + 1 \/ k \in 1 .. n
      BY <1>1
    <3> QED
      BY <3>1, <3>2, <3>3, Zenon
  <2>5. readBuf' \o wire' = more[Len(answers')]
    <3>1. Len(answers) \in 0 .. n
      BY <1>1 DEF Handled, n
    <3>2. more[Len(answers)] = (readBuf \o wire) \o E
      BY <2>1, <2>2, <3>1
    <3>3. (readBuf \o wire) \o E = readBuf \o (wire \o E)
      <4>1. readBuf \in Seq(Byte) /\ wire \in Seq(Byte)
        BY <1>1 DEF WireTypes
      <4>2. Regroups(readBuf, wire, E)
        BY <1>1, <4>1, Joins, Zenon
      <4> QED
        BY <4>2 DEF Regroups
    <3> QED
      BY <1>3, <3>2, <3>3
  <2> QED
    BY <1>5, <2>2, <2>3, <2>4, <2>5 DEF Remains
<1>9. (~drains => ~(Complete /\ Decodes))'
  BY <1>3 DEF WireInv, Complete, Decodes, Total, Payload
<1> QED
  BY <1>4, <1>6, <1>8, <1>9 DEF WireInv

(* Bytes move from the link to the buffer.                                   *)
LEMMA ReadsWire ==
  ASSUME WireInv, NEW n \in 1 .. TMP, ReadBytes(n)
  PROVE  WireInv'
<1>1. /\ WireTypes /\ Handled /\ n \in Nat /\ n <= Len(wire)
      /\ readBuf' = readBuf \o SubSeq(wire, 1, n)
      /\ wire' = SubSeq(wire, n + 1, Len(wire))
      /\ arrived' = arrived + n /\ drains' = TRUE
      /\ UNCHANGED <<launched, answers, sent, ends>>
  BY WireAssumption DEF WireInv, ReadBytes
<1>2. /\ SubSeq(wire, 1, n) \in Seq(Byte) /\ wire' \in Seq(Byte)
      /\ Len(wire') = Len(wire) - n
      /\ SubSeq(wire, 1, n) \o wire' = wire
  <2>1. wire \in Seq(Byte) /\ n \in 0 .. Len(wire)
    BY <1>1 DEF WireTypes
  <2>2. Cuts(wire, n, Byte)
    BY <2>1, CutJoins, Zenon
  <2> QED
    BY <1>1, <2>2 DEF Cuts
<1>3. WireTypes'
  <2>1. readBuf' \in Seq(Byte)
    BY <1>1, <1>2 DEF WireTypes
  <2> QED
    BY <1>1, <1>2, <2>1 DEF WireTypes
<1>4. Handled'
  <2>1. arrived \in Nat /\ \A i \in 1 .. Len(answers) : ends[i] \in Nat
    <3>1. /\ arrived \in Nat /\ ends \in Seq(Nat)
          /\ Len(answers) \in Nat /\ Len(answers) <= Len(ends)
      BY <1>1 DEF WireTypes, Handled
    <3>2. \A i \in 1 .. Len(answers) : i \in DOMAIN ends
      BY <3>1
    <3> QED
      BY <3>1, <3>2
  <2>2. \A i \in 1 .. Len(answers) : ends[i] <= arrived'
    <3>1. \A i \in 1 .. Len(answers) : ends[i] <= arrived
      BY <1>1 DEF Handled
    <3>2. n \in Nat /\ arrived' = arrived + n
      BY <1>1
    <3> QED
      BY <2>1, <3>1, <3>2
  <2>3. \A i : Meant(i)' = Meant(i)
    BY <1>1 DEF Meant
  <2>4. \A i : Launched(i)' = Launched(i)
    BY <2>3, Zenon DEF Launched
  <2> QED
    BY <1>1, <2>2, <2>3, <2>4 DEF Handled
<1>5. readBuf' \o wire' = readBuf \o wire
  <2>1. PICK a, b, c : a = readBuf /\ b = SubSeq(wire, 1, n) /\ c = wire'
    OBVIOUS
  <2>2. a \in Seq(Byte) /\ b \in Seq(Byte) /\ c \in Seq(Byte)
    BY <1>1, <1>2, <2>1 DEF WireTypes
  <2>3. (a \o b) \o c = a \o (b \o c)
    BY <2>2
  <2> QED
    BY <1>1, <1>2, <2>1, <2>3
<1>6. PICK rest : Remains(rest)
  BY DEF WireInv
<1>7. Remains(rest)'
  <2>1. arrived' + Len(wire') = arrived + Len(wire)
    <3>1. arrived \in Nat /\ Len(wire) \in Nat
      BY <1>1 DEF WireTypes
    <3>2. arrived' = arrived + n /\ Len(wire') = Len(wire) - n /\ n \in Nat
      BY <1>1, <1>2
    <3> QED
      BY <3>1, <3>2
  <2> QED
    BY <1>1, <1>5, <1>6, <2>1 DEF Remains
<1> QED
  BY <1>1, <1>3, <1>4, <1>7 DEF WireInv

(* The frame that comes next.                                                *)
LEMMA NextFrame ==
  ASSUME WireTypes, Handled, NEW rest, Remains(rest), Len(answers) < Len(sent)
  PROVE  LET i == Len(answers) + 1
             p == sent[i]
         IN /\ i \in 1 .. Len(sent) /\ p \in Payloads
            /\ ends[i] <= arrived <=> Complete
            /\ Complete => /\ Payload = p
                           /\ SubSeq(readBuf, Total + 1, Len(readBuf)) \in Seq(Byte)
                           /\ SubSeq(readBuf, Total + 1, Len(readBuf)) \o wire = rest[i]
<1> DEFINE i == Len(answers) + 1
           p == sent[i]
           more == rest[i]
           tail == SubSeq(readBuf, Total + 1, Len(readBuf))
<1>1. i \in 1 .. Len(sent) /\ i - 1 = Len(answers) /\ i \in 0 .. Len(sent)
  BY DEF WireTypes
<1>2. p \in Payloads /\ ends[i] \in Nat
  BY <1>1 DEF WireTypes, Handled
<1>3. /\ more \in Seq(Byte) /\ readBuf \o wire = EncodeFrame(p) \o more
      /\ ends[i] + Len(more) = arrived + Len(wire)
  BY <1>1 DEF Remains
<1>4. /\ readBuf \in Seq(Byte) /\ wire \in Seq(Byte) /\ arrived \in Nat
      /\ Len(readBuf) \in Nat /\ Len(wire) \in Nat
  BY DEF WireTypes
<1> HIDE DEF p, more, i
<1>5. /\ Complete <=> PREFIX + Len(p) <= Len(readBuf)
      /\ Complete => /\ Payload = p /\ Total = PREFIX + Len(p)
                     /\ tail \o wire = more
  BY <1>2, <1>3, <1>4, FrameRead
<1>6. Len(readBuf) + Len(wire) = (PREFIX + Len(p)) + Len(more)
  <2>1. EncodeFrame(p) \in Seq(Byte) /\ Len(EncodeFrame(p)) = PREFIX + Len(p)
    BY <1>2, FrameIs
  <2>2. Len(readBuf \o wire) = Len(readBuf) + Len(wire)
    BY <1>4
  <2>3. PICK E : E = EncodeFrame(p)
    OBVIOUS
  <2>4. E \in Seq(Byte) /\ more \in Seq(Byte) /\ Len(E) = PREFIX + Len(p)
    BY <1>3, <2>1, <2>3
  <2>5. Len(E \o more) = Len(E) + Len(more)
    BY <2>4
  <2> QED
    BY <1>3, <2>2, <2>3, <2>4, <2>5
<1>7. PREFIX + Len(p) \in Nat /\ Len(more) \in Nat
  <2>1. p \in Seq(Byte)
    BY <1>2, FrameIs
  <2> QED
    BY <1>3, <2>1, WireAssumption
<1>8. ends[i] <= arrived <=> Complete
  <2> DEFINE e == ends[i]
             w == Len(wire)
             m == Len(more)
             f == PREFIX + Len(p)
             b == Len(readBuf)
  <2>1. /\ e \in Nat /\ w \in Nat /\ m \in Nat /\ f \in Nat /\ b \in Nat /\ arrived \in Nat
        /\ e + m = arrived + w /\ b + w = f + m
    BY <1>2, <1>3, <1>4, <1>6, <1>7
  <2>2. Complete <=> f <= b
    BY <1>5
  <2> HIDE DEF e, w, m, f, b
  <2>3. e <= arrived <=> f <= b
    BY <2>1
  <2>4. e <= arrived <=> Complete
    BY <2>2, <2>3
  <2> QED
    BY <2>4 DEF e
<1>9. Complete => tail \in Seq(Byte)
  <2>1. Complete => Total \in Nat
    BY <1>5, <1>7
  <2> QED
    BY <1>4, <2>1
<1> QED
  BY <1>1, <1>2, <1>5, <1>8, <1>9 DEF i, p, more

(* The frame that is taken off the buffer is the next one that was sent.      *)
LEMMA TakesWire ==
  ASSUME WireInv, TakeFrame
  PROVE  WireInv'
<1> DEFINE t == Len(answers)
<1>1. WireTypes /\ Handled /\ t \in Nat /\ Complete /\ Decodes
  BY DEF WireInv, TakeFrame, WireTypes
<1>2. PICK rest : Remains(rest)
  BY DEF WireInv
<1>3. t < Len(sent)
  <2>1. t # Len(sent)
    <3> SUFFICES ASSUME t = Len(sent) PROVE FALSE
      OBVIOUS
    <3>1. readBuf \o wire = <<>>
      BY <1>2 DEF Remains
    <3>2. Len(readBuf \o wire) = Len(readBuf) + Len(wire) /\ Len(readBuf) \in Nat /\ Len(wire) \in Nat
      BY <1>1 DEF WireTypes
    <3>3. Len(readBuf) = 0
      BY <3>1, <3>2
    <3> QED
      BY <1>1, <3>3, WireAssumption DEF Complete
  <2> QED
    BY <1>1, <2>1 DEF WireTypes, Handled
<1> DEFINE i == t + 1
           tail == SubSeq(readBuf, Total + 1, Len(readBuf))
<1>4. /\ i \in 1 .. Len(sent) /\ sent[i] \in Payloads /\ ends[i] <= arrived
      /\ Payload = sent[i] /\ tail \in Seq(Byte) /\ tail \o wire = rest[i]
  BY <1>1, <1>2, <1>3, NextFrame
<1>5. sent[i] \notin Garbled
  BY <1>1, <1>4 DEF Decodes
<1> DEFINE m == Meant(i)
           reply == Reply(m, launched)
<1>6. m \in Messages /\ Bytes[m] = sent[i]
  <2>1. \E x \in Messages : Bytes[x] = sent[i]
    BY <1>4, <1>5 DEF Payloads
  <2> QED
    BY <2>1 DEF Meant
<1>7. /\ readBuf' = tail /\ answers' = Append(answers, reply)
      /\ launched' = (launched \/ \E j \in DOMAIN reply : reply[j].type = "LOAD")
      /\ UNCHANGED <<wire, drains, sent, ends, arrived>>
  BY <1>4 DEF TakeFrame, Meant
<1>8. (\E j \in DOMAIN reply : reply[j].type = "LOAD") <=> ~launched /\ Launches(m)
  <2>1. ASSUME NEW x
        PROVE  ~ \E j \in DOMAIN <<PongMsg(x)>> : <<PongMsg(x)>>[j].type = "LOAD"
    BY DEF PongMsg, Msg
  <2>2. ASSUME NEW x
        PROVE  \E j \in DOMAIN <<ConnectMsg(x), LoadMsg(x)>> :
                 <<ConnectMsg(x), LoadMsg(x)>>[j].type = "LOAD"
    <3>1. /\ 2 \in DOMAIN <<ConnectMsg(x), LoadMsg(x)>>
          /\ <<ConnectMsg(x), LoadMsg(x)>>[2] = LoadMsg(x)
      OBVIOUS
    <3>2. LoadMsg(x).type = "LOAD"
      BY DEF LoadMsg
    <3> QED
      BY <3>1, <3>2
  <2>3. CASE m.type = "PING"
    <3>1. reply = <<PongMsg(m.source)>>
      BY <2>3 DEF Reply
    <3> HIDE DEF reply
    <3> QED
      BY <2>1, <2>3, <3>1 DEF Launches
  <2>4. CASE m.type # "PING" /\ ~launched /\ Launches(m)
    <3>1. reply = <<ConnectMsg(LaunchedTransportId(m)), LoadMsg(LaunchedTransportId(m))>>
      BY <2>4 DEF Reply, Launches
    <3> HIDE DEF reply
    <3> QED
      BY <2>2, <2>4, <3>1
  <2>5. CASE m.type # "PING" /\ ~ (~launched /\ Launches(m))
    <3>1. reply = <<>>
      BY <2>5 DEF Reply, Launches
    <3> HIDE DEF reply
    <3> QED
      BY <2>5, <3>1
  <2> QED
    BY <2>3, <2>4, <2>5
<1>9. launched' = (launched \/ Launches(m)) /\ launched' \in BOOLEAN
  BY <1>7, <1>8, Zenon
<1>10. reply \in Replies
  BY <1>1, <1>6 DEF Replies, WireTypes
<1> HIDE DEF reply, tail
<1>11. /\ Len(answers') = t + 1 /\ answers'[t + 1] = reply
       /\ answers' \in Seq(Replies) /\ \A j \in 1 .. t : answers'[j] = answers[j]
  BY <1>1, <1>7, <1>10 DEF WireTypes
<1>12. WireTypes'
  BY <1>1, <1>4, <1>7, <1>9, <1>11 DEF WireTypes
<1>13. launched = Launched(i)
  BY <1>1 DEF Handled
<1>14. Launched(i + 1) <=> Launched(i) \/ Launches(m)
  <2>1. \A j \in 1 .. (i + 1) - 1 : j \in 1 .. i - 1 \/ j = i
    BY <1>1
  <2>2. i \in 1 .. (i + 1) - 1 /\ \A j \in 1 .. i - 1 : j \in 1 .. (i + 1) - 1
    BY <1>1
  <2> HIDE DEF i
  <2> QED
    BY <2>1, <2>2 DEF Launched
<1>15. Handled'
  <2>1. \A j : Meant(j)' = Meant(j)
    BY <1>7 DEF Meant
  <2>2. \A j : Launched(j)' = Launched(j)
    BY <2>1, Zenon DEF Launched
  <2>3. Len(answers') <= Len(sent') /\ Len(ends') = Len(sent')
    BY <1>1, <1>3, <1>4, <1>7, <1>11 DEF Handled, WireTypes
  <2>4. ASSUME NEW j \in 1 .. Len(answers')
        PROVE  /\ sent'[j] \notin Garbled /\ ends'[j] <= arrived'
               /\ answers'[j] = Reply(Meant(j)', Launched(j)')
    <3>1. CASE j = i
      BY <1>4, <1>5, <1>7, <1>11, <1>13, <2>1, <2>2, <3>1 DEF reply
    <3>2. CASE j \in 1 .. t
      BY <1>1, <1>7, <1>11, <2>1, <2>2, <3>2 DEF Handled
    <3> QED
      BY <1>1, <1>11, <3>1, <3>2
  <2>5. launched' = Launched(Len(answers) + 1)'
    <3>1. PICK k : k = i + 1
      OBVIOUS
    <3>2. k = Len(answers') + 1
      BY <1>11, <3>1
    <3>3. Launched(k) \in BOOLEAN
      BY DEF Launched
    <3>4. launched' = Launched(k)
      BY <1>9, <1>13, <1>14, <3>1, <3>3, Zenon
    <3>5. launched' = Launched(k)'
      BY <2>2, <3>4, Zenon
    <3> QED
      BY <3>2, <3>5, Zenon
  <2> QED
    BY <2>3, <2>4, <2>5 DEF Handled
<1>16. Remains(rest)'
  <2>1. readBuf' \o wire' = rest[Len(answers')]
    BY <1>4, <1>7, <1>11
  <2> QED
    BY <1>2, <1>7, <2>1 DEF Remains
<1>17. drains'
  BY <1>7 DEF TakeFrame
<1> QED
  BY <1>12, <1>15, <1>16, <1>17 DEF WireInv

LEMMA StaysWire ==
  ASSUME WireInv, NoFrame \/ UNCHANGED wireVars
  PROVE  WireInv'
<1>1. /\ UNCHANGED <<wire, readBuf, launched, answers, sent, ends, arrived>>
      /\ drains' \in BOOLEAN
      /\ ~drains' => ~(Complete /\ Decodes)
  BY DEF WireInv, WireTypes, NoFrame, wireVars
<1>2. WireTypes'
  BY <1>1 DEF WireInv, WireTypes
<1>3. Handled'
  <2>1. \A j : Meant(j)' = Meant(j)
    BY <1>1 DEF Meant
  <2>2. \A j : Launched(j)' = Launched(j)
    BY <2>1, Zenon DEF Launched
  <2> QED
    BY <1>1, <2>1, <2>2 DEF WireInv, Handled
<1>4. \E rest : Remains(rest)'
  BY <1>1 DEF WireInv, Remains
<1>5. (~drains => ~(Complete /\ Decodes))'
  BY <1>1 DEF Complete, Decodes, Total, Payload
<1> QED
  BY <1>2, <1>3, <1>4, <1>5 DEF WireInv

LEMMA WireAlways == WireSpec => []WireInv
<1>1. WireInv /\ [WireNext]_wireVars => WireInv'
  <2> SUFFICES ASSUME WireInv, [WireNext]_wireVars PROVE WireInv'
    OBVIOUS
  <2>1. CASE \E p \in Payloads : CastSends(p)
    BY <2>1, SendsWire
  <2>2. CASE \E n \in 1 .. TMP : ReadBytes(n)
    BY <2>2, ReadsWire
  <2>3. CASE TakeFrame
    BY <2>3, TakesWire
  <2>4. CASE NoFrame \/ UNCHANGED wireVars
    BY <2>4, StaysWire
  <2> QED
    BY <2>1, <2>2, <2>3, <2>4 DEF WireNext
<1> QED
  BY <1>1, InitWire, PTL DEF WireSpec

(* The frames heard are those handled.                                       *)
LEMMA HeardIsHandled ==
  ASSUME WireInv, ~drains
  PROVE  Heard = [i \in 1 .. Len(answers) |-> Meant(i)]
<1> DEFINE t == Len(answers)
           whole == {k \in 0 .. Len(sent) :
                       \A i \in 1 .. k : ends[i] <= arrived /\ sent[i] \notin Garbled}
<1>1. WireTypes /\ Handled /\ t \in Nat /\ Len(sent) \in Nat
  BY DEF WireInv, WireTypes
<1>2. t \in whole
  BY <1>1 DEF Handled
<1>3. ASSUME NEW k \in whole
      PROVE  k <= t
  <2> SUFFICES ASSUME ~ (k <= t) PROVE FALSE
    OBVIOUS
  <2>1. t < Len(sent) /\ t + 1 \in 1 .. k
    BY <1>1
  <2>2. ends[t + 1] <= arrived /\ sent[t + 1] \notin Garbled
    BY <2>1
  <2>3. PICK rest : Remains(rest)
    BY DEF WireInv
  <2>4. Complete /\ Payload = sent[t + 1]
    BY <1>1, <2>1, <2>2, <2>3, NextFrame
  <2> QED
    BY <2>2, <2>4 DEF WireInv, Decodes
<1>4. Max(whole) = t
  <2>1. \A k \in whole : k \in Nat
    OBVIOUS
  <2> HIDE DEF whole, t
  <2>2. \A k \in whole : t >= k
    BY <1>1, <1>3, <2>1
  <2>3. PICK x : x = Max(whole)
    OBVIOUS
  <2>4. x \in whole /\ \A k \in whole : x >= k
    BY <1>2, <2>2, <2>3 DEF Max
  <2> QED
    BY <1>1, <1>2, <2>1, <2>2, <2>3, <2>4
<1> QED
  BY <1>4 DEF Heard, Meant

(* Every frame that came whole is answered once, in order, and as it deserves, *)
(* wherever the link cut the bytes, for a prefix and bytes of any width        *)
(* (cast/client.rs 356-421, cast/proto.rs 63-95).                             *)
THEOREM WireHolds == WireSpec => []WireAnswered
<1>1. WireInv => WireAnswered
  <2> SUFFICES ASSUME WireInv, ~drains PROVE answers = Answered(Heard)
    BY DEF WireAnswered
  <2>1. PICK h : h = [i \in 1 .. Len(answers) |-> Meant(i)]
    OBVIOUS
  <2>2. Heard = h
    BY <2>1, HeardIsHandled
  <2>3. /\ DOMAIN h = 1 .. Len(answers) /\ \A i \in 1 .. Len(answers) : h[i] = Meant(i)
        /\ Len(answers) \in Nat
    BY <2>1 DEF WireInv, WireTypes
  <2>4. ASSUME NEW i \in 1 .. Len(answers)
        PROVE  answers[i] = Reply(h[i], \E j \in LoadsAt(h) : j < i)
    <3>1. \A j \in 1 .. Len(answers) : j \in LoadsAt(h) <=> Launches(Meant(j))
      BY <2>3 DEF LoadsAt, Launches
    <3>2. LoadsAt(h) \subseteq 1 .. Len(answers)
      BY <2>3 DEF LoadsAt
    <3>3. Launched(i) <=> \E j \in LoadsAt(h) : j < i
      <4>1. \A j \in 1 .. Len(answers) : j < i <=> j \in 1 .. i - 1
        BY <2>3
      <4>2. \A j \in 1 .. i - 1 : j \in 1 .. Len(answers)
        BY <2>3
      <4> QED
        BY <3>1, <3>2, <4>1, <4>2 DEF Launched
    <3>4. Launched(i) = \E j \in LoadsAt(h) : j < i
      BY <3>3, Zenon DEF Launched
    <3> QED
      BY <2>3, <3>4 DEF WireInv, Handled
  <2>5. answers = [i \in 1 .. Len(answers) |-> answers[i]]
    BY DEF WireInv, WireTypes
  <2>6. Answered(h) = [i \in 1 .. Len(answers) |-> Reply(h[i], \E j \in LoadsAt(h) : j < i)]
    BY <2>3 DEF Answered
  <2> QED
    BY <2>2, <2>4, <2>5, <2>6
<1> QED
  BY <1>1, WireAlways, PTL
=============================================================================
