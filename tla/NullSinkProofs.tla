--------------------------- MODULE NullSinkProofs ---------------------------
(***************************************************************************)
(* One null sink, however many module ids there are, whatever was loaded at   *)
(* the start, and however often the process or pipewire-pulse restarts.       *)
(***************************************************************************)
EXTENDS NullSink, FiniteSetTheorems, WellFoundedInduction, TLAPS

-----------------------------------------------------------------------------
(* A list that is not empty has a first module.                              *)
LEMMA LeastId ==
  ASSUME NEW S \in SUBSET Nat, S # {}
  PROVE  \E m \in S : \A n \in S : m <= n
<1> DEFINE R == OpToRel(<, Nat)
<1>1. IsWellFoundedOn(R, Nat)
  BY NatLessThanWellFounded
<1>2. PICK m \in S : \A n \in S : <<n, m>> \notin R
  <2> HIDE DEF R
  <2> QED
    BY <1>1, WFMin
<1>3. ASSUME NEW n \in S
      PROVE  m <= n
  <2>1. ~ (n < m)
    BY <1>2 DEF OpToRel
  <2> QED
    BY <2>1
<1> QED
  BY <1>3

LEMMA FirstIsLoaded == Loaded # {} => FirstLoaded \in Loaded
<1> SUFFICES ASSUME Loaded # {} PROVE FirstLoaded \in Loaded
  OBVIOUS
<1>1. Loaded \in SUBSET Nat
  BY ConstantsAssumption DEF Loaded
<1>2. \E m \in Loaded : \A n \in Loaded : m <= n
  BY <1>1, LeastId
<1> QED
  BY <1>2 DEF FirstLoaded

-----------------------------------------------------------------------------
(* Type correctness.                                                       *)

LEMMA InitType == Init => TypeOK
<1> SUFFICES ASSUME Init PROVE TypeOK
  OBVIOUS
<1>1. modules \in [ModuleIds -> States]
  <2>1. States \ {"dead" : f \in {"deadLeft"} \ faults} \subseteq States
    OBVIOUS
  <2>2. modules \in [ModuleIds -> States \ {"dead" : f \in {"deadLeft"} \ faults}]
    BY DEF Init
  <2> HIDE DEF Init
  <2> QED
    BY <2>1, <2>2
<1>2. attempt \in [Callers -> 1 .. MAX_ATTEMPTS]
  BY ConstantsAssumption DEF Init
<1> QED
  BY <1>1, <1>2 DEF Init, TypeOK, Callers, Calls

(* The outcomes of a call keep the types of what they assign.                *)
LEMMA OutcomeType ==
  ASSUME TypeOK, NEW c \in Callers, Succeed(c) \/ Fail(c)
  PROVE  /\ pc' \in [Callers -> Calls]
         /\ running' \in Callers \cup {None}
         /\ phase' \in {"starting", "running", "failed", "stopped"}
<1>1. CASE Succeed(c)
  <2>1. CASE c = "startup"
    BY <1>1, <2>1 DEF Succeed, Goto, TypeOK, Calls
  <2>2. CASE c # "startup"
    BY <1>1, <2>2 DEF Succeed, Goto, TypeOK, Calls
  <2> QED
    BY <2>1, <2>2
<1>2. CASE Fail(c)
  BY <1>2 DEF Fail, Goto, TypeOK, Calls
<1> QED
  BY <1>1, <1>2

LEMMA CallType ==
  ASSUME TypeOK, NEW c \in Callers, Ensure(c)
  PROVE  TypeOK'
<1> USE DEF TypeOK, pwVars, Goto, States
<1>1. CASE FindExisting(c)
  <2>1. found' \in [Callers -> ModuleIds \cup {None}]
    BY <1>1, FirstIsLoaded DEF FindExisting, Loaded
  <2> QED
    BY <1>1, <2>1, ConstantsAssumption DEF FindExisting, Calls
<1>2. CASE NodePresent(c) \/ NodeUnverified(c)
  BY <1>2, OutcomeType DEF NodePresent, NodeUnverified, UnverifiedIsKept
<1>3. CASE NodeAbsent(c)
  BY <1>3 DEF NodeAbsent, Calls
<1>4. CASE UnloadStale(c)
  <2>1. modules' \in [ModuleIds -> States] /\ events' \in BOOLEAN
    BY <1>4 DEF UnloadStale, Unload, Notify
  <2> QED
    BY <1>4, <2>1 DEF UnloadStale, Calls
<1>5. CASE Load(c)
  <2>1. events' \in BOOLEAN
    BY <1>5 DEF Load, Notify
  <2> QED
    BY <1>5, <2>1 DEF Load, Calls
<1>6. CASE LoadRefused(c)
  <2>1. CASE AttemptsLeft(c)
    <3>1. attempt[c] + 1 \in 1 .. MAX_ATTEMPTS
      BY <2>1, ConstantsAssumption DEF AttemptsLeft
    <3> QED
      BY <1>6, <2>1, <3>1 DEF LoadRefused, Calls
  <2>2. CASE ~AttemptsLeft(c)
    BY <1>6, <2>2 DEF LoadRefused, Calls
  <2> QED
    BY <2>1, <2>2
<1>7. CASE LoadTimedOut(c)
  <2>1. modules' \in [ModuleIds -> States] /\ events' \in BOOLEAN
    BY <1>7 DEF LoadTimedOut, Notify
  <2> QED
    BY <1>7, <2>1, OutcomeType DEF LoadTimedOut
<1>8. CASE Wake(c)
  BY <1>8 DEF Wake, Calls
<1>9. CASE Verified(c)
  <2>1. CASE found[c] # None
    BY <1>9, <2>1, OutcomeType DEF Verified
  <2>2. CASE found[c] = None
    BY <1>9, <2>2 DEF Verified, Calls
  <2> QED
    BY <2>1, <2>2
<1>14. CASE FindAgain(c)
  <2>1. found' \in [Callers -> ModuleIds \cup {None}]
    BY <1>14, FirstIsLoaded DEF FindAgain, Loaded
  <2> QED
    BY <1>14, <2>1, OutcomeType DEF FindAgain
<1>10. CASE NotVerified(c)
  BY <1>10, OutcomeType DEF NotVerified
<1>11. CASE Sweep(c)
  BY <1>11 DEF Sweep, Duplicates, Loaded, Calls
<1>12. CASE SweepOne(c)
  <2>1. modules' \in [ModuleIds -> States] /\ events' \in BOOLEAN
    BY <1>12 DEF SweepOne, Unload, Notify
  <2> QED
    BY <1>12, <2>1 DEF SweepOne
<1>13. CASE RouteDefault(c)
  BY <1>13 DEF RouteDefault, Calls
<1> QED
  BY <1>1, <1>2, <1>3, <1>4, <1>5, <1>6, <1>7, <1>8, <1>9, <1>10, <1>11, <1>12,
     <1>13, <1>14 DEF Ensure

LEMMA TypeStep == TypeOK /\ [Next]_vars => TypeOK'
<1> SUFFICES ASSUME TypeOK, [Next]_vars PROVE TypeOK'
  OBVIOUS
<1>1. ASSUME NEW c \in Callers, Ensure(c) PROVE TypeOK'
  BY <1>1, CallType
<1> USE DEF TypeOK, callVars, pwVars, Goto, States, Callers, Calls
<1>2. CASE ServerRestarts \/ ServerReady \/ Subscribe
  <2>1. CASE ServerRestarts
    BY <2>1 DEF ServerRestarts
  <2>2. CASE ServerReady \/ Subscribe
    BY <2>2 DEF ServerReady, Subscribe
  <2> QED
    BY <1>2, <2>1, <2>2
<1>3. CASE NodeLost
  <2>1. events' \in BOOLEAN
    BY <1>3 DEF NodeLost, Notify
  <2> QED
    BY <1>3, <2>1 DEF NodeLost, Live
<1>4. CASE StartReconcile
  BY <1>4 DEF StartReconcile
<1>6. CASE StartAdmin
  BY <1>6 DEF StartAdmin
<1>7. CASE Stop
  BY <1>7 DEF Stop
<1>8. CASE Restart
  BY <1>8 DEF Restart
<1>5. CASE UNCHANGED vars
  BY <1>5 DEF vars
<1> QED
  BY <1>1, <1>2, <1>3, <1>4, <1>5, <1>6, <1>7, <1>8 DEF Next

THEOREM TypeCorrect == Spec => []TypeOK
BY InitType, TypeStep, PTL DEF Spec

-----------------------------------------------------------------------------
(* One sink. The invariant follows a caller from place to place: nothing      *)
(* lives while one is about to load, one module at most when it has loaded,    *)
(* and when the startup sets the default sink, nothing but what it found and   *)
(* what it has yet to unload. That only one of the two callers is under way is *)
(* what makes these places stable.                                          *)

Answering == faults \subseteq {"serverRestart", "nodeLost", "deadLeft"}

AtMostOne == \A m, n \in Live : m = n

Alone ==
  /\ pc["startup"] # "idle" => phase = "starting"
  /\ pc["reconcile"] # "idle" => phase = "running"
  /\ pc["reconcile"] \notin {"sweep", "route"}
  /\ pc["admin"] = "idle"

Places ==
  /\ \A c \in Callers : pc[c] = "check" => found[c] # None
  /\ \A c \in Callers : pc[c] \in {"unload", "load", "sleep"} => Live = {}
  /\ \A c \in Callers : pc[c] \in {"verify", "recover"} => AtMostOne
  /\ pc["startup"] = "route" => AtMostOne \/ Live \subseteq todo \cup {found["startup"]}
  /\ phase = "running" => AtMostOne

SinkInv ==
  Answering => Alone /\ Places /\ (~server => Loaded = {})

LEMMA SinkInit == Init => SinkInv
BY ConstantsAssumption DEF Init, SinkInv, Alone, Places, Callers

(* A step after which no more nodes live and no caller is elsewhere.          *)
LEMMA FewerKeep ==
  ASSUME TypeOK, SinkInv, UNCHANGED <<pc, found, todo, phase, faults>>,
         Live' \subseteq Live, Answering => (~server' => Loaded' = {})
  PROVE  SinkInv'
BY DEF SinkInv, Answering, Alone, Places, AtMostOne

LEMMA FaultsStay == [Next]_vars => faults' = faults
<1> SUFFICES ASSUME [Next]_vars PROVE faults' = faults
  OBVIOUS
<1>1. ASSUME NEW c \in Callers, Ensure(c) PROVE faults' = faults
  BY <1>1 DEF Ensure, FindExisting, NodePresent, NodeAbsent, NodeUnverified,
     UnloadStale, Load, LoadRefused, LoadTimedOut, Wake, Verified, FindAgain,
     NotVerified, Sweep, SweepOne, RouteDefault
<1>2. CASE ServerRestarts \/ ServerReady \/ Subscribe \/ NodeLost
  BY <1>2 DEF ServerRestarts, ServerReady, Subscribe, NodeLost
<1>3. CASE StartReconcile \/ StartAdmin \/ Stop \/ Restart
  BY <1>3 DEF StartReconcile, StartAdmin, Stop, Restart
<1>4. CASE UNCHANGED vars
  BY <1>4 DEF vars
<1> QED
  BY <1>1, <1>2, <1>3, <1>4 DEF Next

LEMMA EnsureStep ==
  ASSUME TypeOK, SinkInv, NEW c \in Callers, Ensure(c)
  PROVE  SinkInv'
<1> SUFFICES ASSUME Answering
             PROVE  Alone' /\ Places' /\ (~server' => Loaded' = {})
  <2>1. faults' = faults
    BY FaultsStay DEF Next
  <2> QED
    BY <2>1 DEF SinkInv, Answering
<1>0. /\ Alone /\ Places /\ (~server => Loaded = {} /\ Live = {})
      /\ ListFails => ~server
      /\ "refused" \notin faults /\ "timedOut" \notin faults
      /\ Live \subseteq Loaded /\ server \in BOOLEAN
      /\ pc \in [Callers -> Calls] /\ found \in [Callers -> ModuleIds \cup {None}]
      /\ modules \in [ModuleIds -> States]
      /\ c \in {"startup", "reconcile", "admin"}
  BY DEF SinkInv, Answering, ListFails, Live, Loaded, TypeOK, Callers
<1> USE DEF Alone, Callers, Goto, Step
<1>1. CASE FindExisting(c)
  <2>1. CASE Goto(c, "check") /\ found' = [found EXCEPT ![c] = FirstLoaded] /\ Loaded # {}
    <3>1. FirstLoaded # None
      BY <2>1, FirstIsLoaded, ConstantsAssumption DEF Loaded
    <3> QED
      BY <1>0, <1>1, <2>1, <3>1 DEF FindExisting, pwVars, Places, AtMostOne,
         Live, Loaded
  <2>2. CASE Goto(c, "load") /\ found' = [found EXCEPT ![c] = None] /\ Loaded = {}
    BY <1>0, <1>1, <2>2 DEF FindExisting, pwVars, Places, AtMostOne, Live, Loaded
  <2> QED
    BY <1>0, <1>1, <2>1, <2>2 DEF FindExisting
<1>2. CASE NodePresent(c) \/ NodeUnverified(c)
  <2>1. /\ UNCHANGED <<found, todo, modules, server>> /\ Succeed(c)
        /\ pc[c] = "check"
    BY <1>2 DEF NodePresent, NodeUnverified, UnverifiedIsKept, pwVars
  <2>2. CASE c = "startup"
    <3>1. pc' = [pc EXCEPT !["startup"] = "sweep"] /\ phase' = phase
      BY <1>0, <2>1, <2>2 DEF Succeed, Places
    <3> QED
      BY <1>0, <2>1, <2>2, <3>1 DEF Places, AtMostOne, Live, Loaded
  <2>3. CASE c # "startup"
    BY <1>0, <2>1, <2>3 DEF Succeed, Places, AtMostOne, Live, Loaded
  <2> QED
    BY <2>2, <2>3
<1>3. CASE NodeAbsent(c)
  BY <1>0, <1>3 DEF NodeAbsent, NodeListed, pwVars, Places, AtMostOne, Live,
     Loaded
<1>4. CASE UnloadStale(c)
  <2>1. Live = {} /\ Live' = {} /\ (~server' => Loaded' = {})
    BY <1>0, <1>4 DEF UnloadStale, Unload, Places, Live, Loaded
  <2> QED
    BY <1>0, <1>4, <2>1 DEF UnloadStale, Places, AtMostOne
<1>5. CASE Load(c)
  <2>1. Live = {} /\ server' = TRUE
    BY <1>0, <1>5 DEF Load, Places
  <2>2. PICK m \in ModuleIds : modules' = [modules EXCEPT ![m] = "live"]
    BY <1>5 DEF Load
  <2>3. Live' = {m}
    BY <1>0, <2>1, <2>2 DEF Live
  <2> QED
    BY <1>0, <1>5, <2>1, <2>3 DEF Load, Places, AtMostOne
<1>6. CASE LoadRefused(c)
  <2>1. /\ pc' \in {[pc EXCEPT ![c] = "sleep"], [pc EXCEPT ![c] = "verify"]}
        /\ pc[c] = "load" /\ UNCHANGED <<found, todo, phase, modules, server>>
    BY <1>6 DEF LoadRefused, pwVars
  <2>2. Live = {} /\ Live' = {} /\ Loaded' = Loaded
    BY <1>0, <2>1 DEF Places, Live, Loaded
  <2> QED
    BY <1>0, <2>1, <2>2 DEF Places, AtMostOne
<1>7. CASE LoadTimedOut(c)
  BY <1>0, <1>7 DEF LoadTimedOut
<1>8. CASE Wake(c)
  BY <1>0, <1>8 DEF Wake, pwVars, Places, AtMostOne, Live, Loaded
<1>14. CASE Verified(c) /\ found[c] = None
  BY <1>0, <1>14 DEF Verified, pwVars, Places, AtMostOne, Live, Loaded
<1>9. CASE FindAgain(c) \/ (Verified(c) /\ found[c] # None)
  <2>1. /\ UNCHANGED <<todo, modules, server>> /\ Succeed(c)
        /\ pc[c] \in {"verify", "recover"}
        /\ found' \in [Callers -> ModuleIds \cup {None}]
        /\ \A d \in Callers \ {c} : found'[d] = found[d]
    <3>1. Loaded # {} => FirstLoaded \in ModuleIds
      BY FirstIsLoaded DEF Loaded
    <3>2. CASE FindAgain(c)
      BY <1>0, <3>1, <3>2 DEF FindAgain, pwVars
    <3>3. CASE Verified(c) /\ found[c] # None
      BY <1>0, <3>3 DEF Verified, pwVars
    <3> QED
      BY <1>9, <3>2, <3>3
  <2>2. AtMostOne /\ AtMostOne' /\ Live' = Live /\ Loaded' = Loaded
    BY <1>0, <2>1 DEF Places, AtMostOne, Live, Loaded
  <2>3. /\ phase' = phase
        /\ \A d \in Callers : pc'[d] \in {pc[d], "idle", "sweep", "route"}
        /\ c # "startup" => pc' = [pc EXCEPT ![c] = "idle"]
        /\ c = "startup" => pc' \in {[pc EXCEPT ![c] = "route"],
                                    [pc EXCEPT ![c] = "sweep"]}
    <3>1. CASE c = "startup"
      BY <1>0, <2>1, <3>1 DEF Succeed
    <3>2. CASE c # "startup"
      BY <1>0, <2>1, <3>2 DEF Succeed
    <3> QED
      BY <3>1, <3>2
  <2>4. \A d \in Callers : pc'[d] = "check" => pc[d] = "check" /\ d # c
    BY <1>0, <2>1, <2>3
  <2>5. Places'
    BY <1>0, <2>1, <2>2, <2>3, <2>4 DEF Places
  <2> QED
    BY <1>0, <2>1, <2>2, <2>3, <2>5
<1>10. CASE NotVerified(c)
  BY <1>0, <1>10 DEF NotVerified, Fail, pwVars, Places, AtMostOne, Live, Loaded
<1>11. CASE Sweep(c)
  <2>1. c = "startup"
    BY <1>0, <1>11 DEF Sweep
  <2>2. Live \subseteq todo' \cup {found[c]}
    BY <1>0, <1>11 DEF Sweep, Duplicates
  <2> QED
    BY <1>0, <1>11, <2>1, <2>2 DEF Sweep, pwVars, Places, AtMostOne, Live, Loaded
<1>12. CASE SweepOne(c)
  <2>1. c = "startup" /\ phase = "starting"
    BY <1>0, <1>12 DEF SweepOne
  <2>2. PICK d \in todo : Unload(d) /\ todo' = todo \ {d}
    BY <1>12 DEF SweepOne
  <2>3. CASE server
    <3>1. modules' = [modules EXCEPT ![d] = "absent"]
      BY <1>0, <2>2, <2>3 DEF Unload
    <3>2. Live' \subseteq Live \ {d}
      BY <1>0, <3>1, TypeOK DEF Live, TypeOK
    <3> QED
      BY <1>0, <1>12, <2>1, <2>2, <2>3, <3>2 DEF SweepOne, Places, AtMostOne
  <2>4. CASE ~server
    <3>1. UNCHANGED modules
      BY <1>0, <2>2, <2>4 DEF Unload
    <3> QED
      BY <1>0, <1>12, <2>1, <2>2, <2>4, <3>1 DEF SweepOne, Places, AtMostOne,
         Live, Loaded
  <2> QED
    BY <2>3, <2>4
<1>13. CASE RouteDefault(c)
  <2>1. c = "startup" /\ AtMostOne
    BY <1>0, <1>13 DEF RouteDefault, Places, AtMostOne
  <2> QED
    BY <1>0, <1>13, <2>1 DEF RouteDefault, pwVars, Places, AtMostOne, Live, Loaded
<1>15. ASSUME Verified(c) \/ FindAgain(c)
       PROVE  Alone' /\ Places' /\ (~server' => Loaded' = {})
  BY <1>9, <1>14, <1>15
<1> QED
  BY <1>1, <1>2, <1>3, <1>4, <1>5, <1>6, <1>7, <1>8, <1>10, <1>11, <1>12,
     <1>13, <1>15 DEF Ensure

LEMMA SinkStep == TypeOK /\ SinkInv /\ [Next]_vars => SinkInv'
<1> SUFFICES ASSUME TypeOK, SinkInv, [Next]_vars PROVE SinkInv'
  OBVIOUS
<1>1. ASSUME NEW c \in Callers, Ensure(c) PROVE SinkInv'
  BY <1>1, EnsureStep
<1>2. CASE ServerRestarts
  <2>1. Live' = {} /\ Loaded' = {}
    BY <1>2 DEF ServerRestarts, Live, Loaded
  <2> QED
    BY <1>2, <2>1, FewerKeep DEF ServerRestarts, callVars
<1>3. CASE ServerReady
  BY <1>3, FewerKeep DEF ServerReady, callVars, Live, Loaded
<1>4. CASE Subscribe
  BY <1>4, FewerKeep DEF Subscribe, callVars, Live, Loaded, SinkInv
<1>5. CASE NodeLost
  <2>1. Live' \subseteq Live /\ Loaded' = Loaded
    BY <1>5 DEF NodeLost, Live, Loaded, TypeOK
  <2> QED
    BY <1>5, <2>1, FewerKeep DEF NodeLost, callVars, SinkInv
<1>6. CASE StartReconcile
  BY <1>6 DEF StartReconcile, Goto, SinkInv, Answering, Alone, Places,
     AtMostOne, Live, Loaded, TypeOK, Callers
<1>7. CASE StartAdmin
  BY <1>7 DEF StartAdmin, SinkInv, Answering
<1>8. CASE Stop
  BY <1>8 DEF Stop, pwVars, SinkInv, Answering, Alone, Places, AtMostOne, Live,
     Loaded, Callers
<1>9. CASE Restart
  BY <1>9 DEF Restart, Goto, SinkInv, Answering, Alone, Places, AtMostOne, Live,
     Loaded, TypeOK, Callers
<1>10. CASE UNCHANGED vars
  BY <1>10, FewerKeep DEF vars, callVars, pwVars, Live, Loaded, SinkInv
<1> QED
  BY <1>1, <1>2, <1>3, <1>4, <1>5, <1>6, <1>7, <1>8, <1>9, <1>10 DEF Next

(* Once the process is started there is one null sink with a node at most.    *)
THEOREM OneSinkHolds == Spec => []OneNullSink
<1>1. TypeOK /\ SinkInv => OneNullSink
  <2> SUFFICES ASSUME SinkInv, Answering, phase = "running"
               PROVE  Cardinality(Live) <= 1
    BY DEF OneNullSink, NeverTwoSinks, Answering
  <2>1. AtMostOne
    BY DEF SinkInv, Places
  <2>2. CASE Live = {}
    BY <2>2, FS_EmptySet
  <2>3. ASSUME NEW m \in Live
        PROVE  Cardinality(Live) <= 1
    <3>1. Live = {m}
      BY <2>1 DEF AtMostOne
    <3> QED
      BY <3>1, FS_Singleton
  <2> QED
    BY <2>2, <2>3
<1>2. Init => TypeOK /\ SinkInv
  BY InitType, SinkInit
<1>3. TypeOK /\ SinkInv /\ [Next]_vars => (TypeOK /\ SinkInv)'
  BY TypeStep, SinkStep
<1> QED
  BY <1>1, <1>2, <1>3, PTL DEF Spec

-----------------------------------------------------------------------------
(* The live sink. A caller holds the task from the list that found no node to  *)
(* the unload that trusts it, and what the startup keeps lives outside of what  *)
(* it has yet to unload, or nothing lives any more.                          *)

NoneDead == faults \cap {"deadLeft", "nodeLost"} = {}

Turns ==
  /\ \A c \in Callers : pc[c] \notin {"idle", "sleep"} => running = c
  /\ \A c \in Callers : pc[c] \in {"sweep", "route"} => c = "startup"
  /\ pc["startup"] # "idle" => phase = "starting"
  /\ phase # "running" => pc["reconcile"] = "idle" /\ pc["admin"] = "idle"
  /\ phase \in {"failed", "stopped"} => running = None
  /\ pc["startup"] \notin {"idle", "route"} => todo = {}

Kept(c) == found[c] \in Live \/ Live = {}

Holds ==
  /\ Loaded = Live
  /\ \A c \in Callers :
       /\ pc[c] = "unload" => Live = {}
       /\ pc[c] \in {"load", "sleep", "recover"} => found[c] = None
       /\ pc[c] \in {"check", "sweep"} => Kept(c)
       /\ pc[c] = "verify" => found[c] = None \/ Kept(c)
       /\ pc[c] = "route" /\ todo # {} => Kept(c) /\ found[c] \notin todo

KeepInv == NoneDead => Turns /\ Holds /\ (~server => Live = {})

LEMMA KeepInit == Init /\ TypeOK => KeepInv
<1> SUFFICES ASSUME Init, TypeOK, NoneDead PROVE KeepInv
  BY DEF KeepInv
<1>1. modules \in [ModuleIds -> States \ {"dead"}]
  <2>1. {"dead" : f \in {"deadLeft"} \ faults} = {"dead"}
    BY DEF NoneDead
  <2> QED
    BY <2>1 DEF Init
<1>2. Loaded = Live
  BY <1>1 DEF Loaded, Live, States
<1> QED
  BY <1>2, ConstantsAssumption DEF Init, KeepInv, Turns, Holds, Kept, Callers

(* While one caller has the task, the others sleep or are idle, so that only   *)
(* its own place and the places that speak of every module are at stake.      *)
LEMMA KeepEnsure ==
  ASSUME TypeOK, KeepInv, NoneDead, NEW c \in Callers, Ensure(c)
  PROVE  /\ Turns' /\ Holds' /\ (~server' => Live' = {})
         /\ Live # {} => Live' # {}
<1>0. /\ Turns /\ Holds /\ (~server => Live = {}) /\ Loaded = Live
      /\ server \in BOOLEAN /\ todo \subseteq ModuleIds /\ None \notin ModuleIds
      /\ pc \in [Callers -> Calls] /\ found \in [Callers -> ModuleIds \cup {None}]
      /\ modules \in [ModuleIds -> States]
      /\ c \in {"startup", "reconcile", "admin"}
      /\ \A d \in Callers \ {c} : running = c => pc[d] \in {"idle", "sleep"}
  BY ConstantsAssumption DEF KeepInv, TypeOK, Turns, Callers, Holds
<1> USE DEF Callers, Goto, Step
<1>1. CASE FindExisting(c)
  <2>0. Live' = Live /\ Loaded' = Loaded
    BY <1>1 DEF FindExisting, pwVars, Live, Loaded
  <2>1. CASE /\ Goto(c, "check") /\ found' = [found EXCEPT ![c] = FirstLoaded]
             /\ Loaded # {}
    BY <1>0, <1>1, <2>0, <2>1, FirstIsLoaded DEF FindExisting, pwVars, Turns,
       Holds, Kept
  <2>2. CASE Goto(c, "load") /\ found' = [found EXCEPT ![c] = None]
    BY <1>0, <1>1, <2>0, <2>2 DEF FindExisting, pwVars, Turns, Holds, Kept
  <2> QED
    BY <1>1, <2>1, <2>2 DEF FindExisting
<1>2. CASE NodePresent(c) \/ NodeUnverified(c)
  <2>1. /\ UNCHANGED <<found, todo, modules, server>> /\ Succeed(c)
        /\ pc[c] = "check" /\ running = c
    BY <1>2 DEF NodePresent, NodeUnverified, UnverifiedIsKept, pwVars
  <2>2. Live' = Live /\ Loaded' = Loaded
    BY <2>1 DEF Live, Loaded
  <2>3. CASE c = "startup"
    BY <1>0, <2>1, <2>2, <2>3 DEF Succeed, Turns, Holds, Kept
  <2>4. CASE c # "startup"
    BY <1>0, <2>1, <2>2, <2>4 DEF Succeed, Turns, Holds, Kept
  <2> QED
    BY <2>3, <2>4
<1>3. CASE NodeAbsent(c)
  <2>1. Live' = Live /\ Loaded' = Loaded /\ Live = {}
    BY <1>3 DEF NodeAbsent, NodeListed, pwVars, Live, Loaded
  <2> QED
    BY <1>0, <1>3, <2>1 DEF NodeAbsent, pwVars, Turns, Holds, Kept
<1>4. CASE UnloadStale(c)
  <2>1. Live = {} /\ Live' = {} /\ Loaded' = {}
    BY <1>0, <1>4 DEF UnloadStale, Unload, Holds, Live, Loaded
  <2> QED
    BY <1>0, <1>4, <2>1 DEF UnloadStale, Turns, Holds, Kept
<1>5. CASE Load(c)
  <2>1. PICK m \in ModuleIds : /\ modules' = [modules EXCEPT ![m] = "live"]
                               /\ found' = [found EXCEPT ![c] = m]
    BY <1>5 DEF Load
  <2>2. Live' = Live \cup {m} /\ Loaded' = Loaded \cup {m}
    BY <1>0, <2>1 DEF Live, Loaded
  <2> QED
    BY <1>0, <1>5, <2>1, <2>2 DEF Load, Turns, Holds, Kept
<1>6. CASE LoadRefused(c)
  <2>1. /\ \/ pc' = [pc EXCEPT ![c] = "sleep"] /\ running' = None
           \/ pc' = [pc EXCEPT ![c] = "verify"] /\ running' = running
        /\ running = c /\ pc[c] = "load"
        /\ UNCHANGED <<found, todo, phase, modules, server>>
    BY <1>6 DEF LoadRefused, pwVars
  <2>2. Live' = Live /\ Loaded' = Loaded
    BY <2>1 DEF Live, Loaded
  <2>3. phase \notin {"failed", "stopped"}
    BY <1>0, <2>1, ConstantsAssumption DEF Turns
  <2> QED
    BY <1>0, <2>1, <2>2, <2>3 DEF Turns, Holds, Kept
<1>7. CASE LoadTimedOut(c)
  <2>1. /\ \/ \E m \in ModuleIds : modules' = [modules EXCEPT ![m] = "live"]
           \/ UNCHANGED modules
        /\ UNCHANGED <<found, todo, server>> /\ (~server => UNCHANGED modules)
        /\ running = c /\ pc[c] = "load" /\ Fail(c)
    BY <1>7 DEF LoadTimedOut
  <2>2. Live \subseteq Live' /\ Loaded' = Live' /\ (~server => Live' = Live)
    BY <1>0, <2>1 DEF Live, Loaded
  <2>3. \A d \in Callers : pc'[d] \in {"idle", "sleep"} /\ (pc'[d] = "sleep" => pc[d] = "sleep")
    BY <1>0, <2>1 DEF Fail
  <2>4. Turns'
    BY <1>0, <2>1, <2>3 DEF Fail, Turns
  <2>5. Holds'
    BY <1>0, <2>1, <2>2, <2>3 DEF Holds
  <2> QED
    BY <1>0, <2>1, <2>2, <2>4, <2>5
<1>8. CASE Wake(c)
  <2>1. Live' = Live /\ Loaded' = Loaded
    BY <1>8 DEF Wake, pwVars, Live, Loaded
  <2>2. \A d \in Callers : pc[d] \in {"idle", "sleep"}
    BY <1>0, <1>8, ConstantsAssumption DEF Wake, Turns
  <2> QED
    BY <1>0, <1>8, <2>1, <2>2 DEF Wake, pwVars, Turns, Holds, Kept
<1>14. CASE Verified(c) /\ found[c] = None
  <2>1. Live' = Live /\ Loaded' = Loaded
    BY <1>14 DEF Verified, pwVars, Live, Loaded
  <2> QED
    BY <1>0, <1>14, <2>1 DEF Verified, pwVars, Turns, Holds, Kept
<1>9. CASE FindAgain(c) \/ (Verified(c) /\ found[c] # None)
  <2>1. /\ UNCHANGED <<todo, modules, server>> /\ Succeed(c)
        /\ pc[c] \in {"verify", "recover"} /\ running = c
    BY <1>9 DEF Verified, FindAgain, pwVars
  <2>2. Live' = Live /\ Loaded' = Loaded
    BY <2>1 DEF Live, Loaded
  <2>3. /\ found'[c] = None \/ found'[c] \in Live \/ Live = {}
        /\ \A d \in Callers \ {c} : found'[d] = found[d]
    <3>1. CASE FindAgain(c)
      BY <1>0, <3>1, FirstIsLoaded DEF FindAgain
    <3>2. CASE Verified(c) /\ found[c] # None
      BY <1>0, <2>1, <3>2 DEF Verified, Holds, Kept
    <3> QED
      BY <1>9, <3>1, <3>2
  <2>4. \A d \in Callers \ {c} : pc[d] \in {"idle", "sleep"}
    BY <1>0, <2>1
  <2>5. CASE c = "startup"
    <3>1. CASE found'[c] = None
      <4>1. pc' = [pc EXCEPT ![c] = "route"] /\ UNCHANGED <<running, phase>>
        BY <2>1, <2>5, <3>1 DEF Succeed
      <4>2. todo' = {}
        BY <1>0, <2>1, <2>5 DEF Turns
      <4> QED
        BY <1>0, <2>1, <2>2, <2>3, <2>4, <2>5, <4>1, <4>2 DEF Turns, Holds, Kept
    <3>2. CASE found'[c] # None
      BY <1>0, <2>1, <2>2, <2>3, <2>4, <2>5, <3>2 DEF Succeed, Turns, Holds, Kept
    <3> QED
      BY <3>1, <3>2
  <2>6. CASE c # "startup"
    BY <1>0, <2>1, <2>2, <2>3, <2>4, <2>6 DEF Succeed, Turns, Holds, Kept
  <2> QED
    BY <2>5, <2>6
<1>10. CASE NotVerified(c)
  <2>1. Live' = Live /\ Loaded' = Loaded
    BY <1>10 DEF NotVerified, pwVars, Live, Loaded
  <2> QED
    BY <1>0, <1>10, <2>1 DEF NotVerified, Fail, pwVars, Turns, Holds, Kept
<1>11. CASE Sweep(c)
  <2>1. Live' = Live /\ Loaded' = Loaded
    BY <1>11 DEF Sweep, pwVars, Live, Loaded
  <2>2. found[c] \notin todo'
    BY <1>11 DEF Sweep, Duplicates
  <2> QED
    BY <1>0, <1>11, <2>1, <2>2 DEF Sweep, pwVars, Turns, Holds, Kept
<1>12. CASE SweepOne(c)
  <2>1. PICK d \in todo : Unload(d) /\ todo' = todo \ {d}
    BY <1>12 DEF SweepOne
  <2>2. /\ UNCHANGED <<pc, found, running, phase, server>>
        /\ pc[c] = "route" /\ running = c /\ c = "startup"
    BY <1>0, <1>12 DEF SweepOne, Turns
  <2>3. Kept(c) /\ found[c] \notin todo
    BY <1>0, <2>1, <2>2 DEF Holds
  <2>4. Live' \in {Live, Live \ {d}} /\ Loaded' = Live'
    <3>1. CASE modules' = [modules EXCEPT ![d] = "absent"]
      BY <1>0, <3>1 DEF Live, Loaded
    <3>2. CASE UNCHANGED modules
      BY <1>0, <3>2 DEF Live, Loaded
    <3> QED
      BY <2>1, <3>1, <3>2 DEF Unload
  <2>5. Live # {} => found[c] \in Live'
    BY <2>1, <2>3, <2>4 DEF Kept
  <2> QED
    BY <1>0, <2>1, <2>2, <2>3, <2>4, <2>5 DEF Turns, Holds, Kept
<1>13. CASE RouteDefault(c)
  <2>1. Live' = Live /\ Loaded' = Loaded
    BY <1>13 DEF RouteDefault, pwVars, Live, Loaded
  <2> QED
    BY <1>0, <1>13, <2>1 DEF RouteDefault, pwVars, Turns, Holds, Kept
<1>15. ASSUME Verified(c) \/ FindAgain(c)
       PROVE  Turns' /\ Holds' /\ (~server' => Live' = {}) /\ (Live # {} => Live' # {})
  BY <1>9, <1>14, <1>15
<1> QED
  BY <1>1, <1>2, <1>3, <1>4, <1>5, <1>6, <1>7, <1>8, <1>10, <1>11, <1>12,
     <1>13, <1>15 DEF Ensure

LEMMA KeepStep ==
  TypeOK /\ KeepInv /\ [Next]_vars =>
    /\ KeepInv'
    /\ NoneDead /\ callVars' # callVars /\ Live # {} => Live' # {}
<1> SUFFICES ASSUME TypeOK, KeepInv, [Next]_vars, NoneDead
             PROVE  /\ Turns' /\ Holds' /\ (~server' => Live' = {})
                    /\ callVars' # callVars /\ Live # {} => Live' # {}
  <2>1. [Next]_vars => faults' = faults
    BY FaultsStay
  <2> QED
    BY <2>1 DEF KeepInv, NoneDead
<1>0. Turns /\ Holds /\ (~server => Live = {}) /\ pc \in [Callers -> Calls]
  BY DEF KeepInv, TypeOK
<1>1. ASSUME NEW c \in Callers, Ensure(c)
      PROVE  /\ Turns' /\ Holds' /\ (~server' => Live' = {})
             /\ callVars' # callVars /\ Live # {} => Live' # {}
  BY <1>1, KeepEnsure
<1>2. CASE ServerRestarts
  <2>1. Live' = {} /\ Loaded' = {} /\ UNCHANGED callVars
    BY <1>2 DEF ServerRestarts, Live, Loaded
  <2> QED
    BY <1>0, <2>1 DEF callVars, Turns, Holds, Kept
<1>3. CASE ServerReady \/ Subscribe \/ UNCHANGED vars
  <2>1. /\ Live' = Live /\ Loaded' = Loaded /\ UNCHANGED callVars
        /\ server' \in {server, TRUE}
    BY <1>3 DEF ServerReady, Subscribe, vars, pwVars, Live, Loaded
  <2> QED
    BY <1>0, <2>1 DEF callVars, Turns, Holds, Kept
<1>4. CASE NodeLost
  BY <1>4 DEF NodeLost, NoneDead
<1>5. CASE StartReconcile \/ StartAdmin
  <2>1. Live' = Live /\ Loaded' = Loaded /\ UNCHANGED <<found, todo, phase, server>>
    BY <1>5 DEF StartReconcile, StartAdmin, pwVars, Live, Loaded
  <2>2. PICK c \in {"reconcile", "admin"} :
          /\ pc' = [pc EXCEPT ![c] = "find"] /\ running' = c
          /\ running = None /\ phase = "running"
    BY <1>5 DEF StartReconcile, StartAdmin, Goto
  <2> QED
    BY <1>0, <2>1, <2>2, ConstantsAssumption DEF Turns, Holds, Kept, Callers
<1>6. CASE Stop
  <2>1. Live' = Live /\ Loaded' = Loaded
    BY <1>6 DEF Stop, pwVars, Live, Loaded
  <2> QED
    BY <1>0, <1>6, <2>1 DEF Stop, pwVars, Turns, Holds, Callers
<1>7. CASE Restart
  <2>1. Live' = Live /\ Loaded' = Loaded
    BY <1>7 DEF Restart, Live, Loaded
  <2> QED
    BY <1>0, <1>7, <2>1, ConstantsAssumption DEF Restart, Goto, Turns, Holds,
       Kept, Callers
<1> QED
  BY <1>1, <1>2, <1>3, <1>4, <1>5, <1>6, <1>7 DEF Next

(* No step of the code takes the last live sink away, whatever pactl refuses,  *)
(* answers late or not at all, and with admin restarts at any time.           *)
THEOREM LiveSinkHolds == Spec => KeepsLiveSink
<1>1. Init => TypeOK /\ KeepInv
  BY InitType, KeepInit
<1>2. TypeOK /\ KeepInv /\ [Next]_vars => (TypeOK /\ KeepInv)'
  BY TypeStep, KeepStep
<1>3. TypeOK /\ KeepInv /\ [Next]_vars =>
        [NoneDead /\ callVars' # callVars /\ Live # {} => Live' # {}]_vars
  BY KeepStep
<1> QED
  BY <1>1, <1>2, <1>3, PTL DEF Spec, KeepsLiveSink, NoneDead
=============================================================================
