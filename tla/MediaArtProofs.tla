--------------------------- MODULE MediaArtProofs ---------------------------
(***************************************************************************)
(* Now-playing and its artwork, for any players, tracks, lookups and           *)
(* threshold, and whatever a behaviour admits.                              *)
(***************************************************************************)
EXTENDS MediaArt, WellFoundedInduction, TLAPS

Places == {"start", "find", "match", "read", "readTrack", "publish", "set",
           "setNew", "session", "poll", "done"}

(* What the artwork of anything rests on, by type.                           *)
ArtTypes ==
  /\ pc \in Places
  /\ track \in [Players -> Tracks \cup {None}]
  /\ bound \in Players \cup {None}
  /\ got \in Tracks \cup {None}
  /\ art \in Tracks \cup {None}
  /\ artKey \in Tracks \cup {None}
  /\ artUrl \in Tracks \cup {None}
  /\ fetch \in [FetchIds -> Fetches]

(* A manager that reads or publishes has a player.                           *)
Following == pc \in Places \ {"start", "find", "done"} => bound # None

(* The cache has no url but that of its key; what is about to be published    *)
(* has none but its own, and a new track none at all.                        *)
CacheInv ==
  /\ artUrl \in {None, artKey}
  /\ pc = "set" => art \in {None, got}
  /\ pc = "setNew" => art = None /\ got # None

ArtInv == ArtTypes /\ Following /\ CacheInv /\ ArtMatches

LEMMA ArtInit ==
  Init => ArtInv
BY DEF Init, ArtInv, ArtTypes, Places, Following, CacheInv, ArtMatches, Fetches

LEMMA ReconnectArt ==
  ASSUME ArtInv, Reconnect, UNCHANGED <<world, session, cache, fetch>>
  PROVE  ArtInv'
BY DEF Reconnect, ArtInv, ArtTypes, Places, Following, CacheInv, ArtMatches, world, session,
   cache

(* A step that leaves artwork, cache and lookups alone.                      *)
LEMMA ElsewhereArt ==
  ASSUME ArtInv, pc' \in Places \ {"set", "setNew"} \/ pc' = pc,
         bound' \in Players \cup {None},
         pc' \in {"start", "find", "done"} \/ bound' # None,
         got' \in Tracks \cup {None}, pc' = pc => got' = got,
         track' \in [Players -> Tracks \cup {None}],
         UNCHANGED <<art, cache, fetch>>,
         UNCHANGED media \/ shownArt' = None
  PROVE  ArtInv'
BY DEF ArtInv, ArtTypes, Places, Following, CacheInv, ArtMatches, cache, media

(* Of players that are there the one with the least path is chosen.           *)
LEMMA Chosen ==
  ASSUME NEW current \in Players \cup {None}
  PROVE  SelectPlayer(current) \in Players \cup {None}
<1>1. Pool \in SUBSET Nat /\ Pool \subseteq Players
  BY MediaAssumption DEF Pool
<1>2. CASE Pool = {}
  BY <1>2 DEF SelectPlayer
<1>3. CASE Pool # {}
  <2> DEFINE R == OpToRel(<, Nat)
  <2>1. PICK m \in Pool : \A n \in Pool : <<n, m>> \notin R
    <3>1. IsWellFoundedOn(R, Nat)
      BY NatLessThanWellFounded
    <3> HIDE DEF R
    <3> QED BY <1>1, <1>3, <3>1, WFMin
  <2>2. \A n \in Pool : ~(n < m)
    BY <1>1, <2>1 DEF OpToRel
  <2>3. \A n \in Pool : m <= n
    BY <1>1, <2>2
  <2>4. Min(Pool) \in Pool
    BY <2>3 DEF Min
  <2> QED BY <1>1, <2>4 DEF SelectPlayer
<1> QED BY <1>2, <1>3

LEMMA PublishArt ==
  ASSUME ArtInv, pc \in {"set", "setNew"}, Publish, fetch' \in [FetchIds -> Fetches]
  PROVE  ArtInv'
<1>1. art \in {None, got}
  BY DEF ArtInv, CacheInv
<1>2. ArtMatches'
  BY <1>1 DEF Publish, ArtMatches
<1>3. ArtTypes' /\ Following' /\ CacheInv'
  BY DEF Publish, ArtInv, ArtTypes, Places, Following, CacheInv, world, session, cache
<1> QED BY <1>2, <1>3 DEF ArtInv

LEMMA RecordFailureArt ==
  ASSUME ArtInv, pc \in {"read", "session"}, RecordFailure
  PROVE  ArtInv'
<1>1. bound # None /\ UNCHANGED <<world, bound, got, art, cache, fetch>>
  BY DEF RecordFailure, ArtInv, Following, Places
<1>2. CASE Reconnect
  BY <1>1, <1>2, ElsewhereArt DEF Reconnect, ArtInv, ArtTypes, Places, world
<1>3. CASE pc' = "session" /\ UNCHANGED media
  BY <1>1, <1>3, ElsewhereArt DEF ArtInv, ArtTypes, Places, world
<1> QED BY <1>2, <1>3 DEF RecordFailure

(* A lookup stores the url of the track that the cache is about, and stamps    *)
(* its own on its own track.                                                *)
LEMMA LookupArt ==
  ASSUME ArtInv, NEW i \in FetchIds, Lookup(i)
  PROVE  ArtInv'
<1>1. PICK from \in {"ask", "guard", "peek", "stamp"} : Fetch(i, from)
  BY DEF Lookup, FetchArtwork, StoreUrl, Peek, Stamp
<1>2. /\ fetch[i].at = from /\ fetch[i] \in Fetches
      /\ UNCHANGED <<track, pc, bound, got, art, artKey>>
  BY <1>1 DEF Fetch, world, session, ArtInv, ArtTypes
<1>3. fetch[i].key \in Tracks
  BY <1>2 DEF Fetches, Idle
<1>4. \/ End(i)
      \/ \E to \in {"guard", "peek", "stamp"} : Goto(i, to)
  BY DEF Lookup, FetchArtwork, StoreUrl, Peek, Stamp
<1>5. fetch' \in [FetchIds -> Fetches]
  <2>1. Idle \in Fetches
    BY DEF Fetches
  <2>2. \A to \in {"guard", "peek", "stamp"} : [fetch[i] EXCEPT !.at = to] \in Fetches
    BY <1>2, <1>3 DEF Fetches, Idle
  <2> QED BY <1>4, <2>1, <2>2 DEF End, Goto, ArtInv, ArtTypes
<1>6. CASE UNCHANGED <<artUrl, media>>
  BY <1>2, <1>5, <1>6 DEF ArtInv, ArtTypes, Following, CacheInv, ArtMatches, media
<1>7. CASE StoreUrl(i)
  <2>1. artUrl' \in {artUrl, fetch[i].key} /\ (artUrl' # artUrl => artUrl' = artKey)
    BY <1>7 DEF StoreUrl, CacheMatches
  <2> QED
    BY <1>2, <1>3, <1>5, <1>7, <2>1 DEF StoreUrl, ArtInv, ArtTypes, Following, CacheInv,
       ArtMatches, media
<1>8. CASE Stamp(i)
  BY <1>2, <1>5, <1>8 DEF Stamp, ArtInv, ArtTypes, Following, CacheInv, ArtMatches
<1> QED BY <1>6, <1>7, <1>8 DEF Lookup, FetchArtwork, Peek

LEMMA ManagerArt ==
  ASSUME ArtInv, Manager
  PROVE  ArtInv'
<1> USE DEF world, session, Places
<1>1. CASE Connect
  BY <1>1, ElsewhereArt DEF Connect, ArtInv, ArtTypes
<1>2. CASE Find
  BY <1>2, Chosen, ElsewhereArt DEF Find, ArtInv, ArtTypes
<1>3. CASE FindNone
  BY <1>3, ElsewhereArt DEF FindNone, ArtInv, ArtTypes
<1>4. CASE AddMatch \/ ReadStatus \/ TakeSignal \/ Poll \/ PollStays
  BY <1>4, ElsewhereArt DEF AddMatch, ReadStatus, TakeSignal, Poll, PollStays, ArtInv, ArtTypes,
     Following
<1>5. CASE AddMatchFails \/ PollFindsBetter
  BY <1>5, ReconnectArt DEF AddMatchFails, PollFindsBetter
<1>6. CASE ReadFails
  BY <1>6, RecordFailureArt DEF ReadFails
<1>7. CASE ReadTrack
  <2>1. bound \in Players
    BY <1>7 DEF ReadTrack, ArtInv, ArtTypes, Following
  <2>2. got' \in Tracks \cup {None}
    BY <1>7, <2>1 DEF ReadTrack, ArtInv, ArtTypes
  <2> QED
    BY <1>7, <2>1, <2>2, MediaAssumption, ElsewhereArt DEF ReadTrack, ArtInv, ArtTypes
<1>8. CASE SameTrack
  <2>1. art' \in {None, got}
    BY <1>8 DEF SameTrack, PreservedUrl, ArtInv, CacheInv
  <2> QED
    BY <1>8, <2>1 DEF SameTrack, ArtInv, ArtTypes, Following, CacheInv, ArtMatches, cache, media
<1>9. CASE NewTrack
  BY <1>9 DEF NewTrack, ArtInv, ArtTypes, Following, CacheInv, ArtMatches, media
<1>10. CASE PublishSame
  BY <1>10, PublishArt DEF PublishSame, ArtInv, ArtTypes
<1>11. ASSUME NEW i \in FetchIds, PublishNew(i)
       PROVE  ArtInv'
  <2>1. got \in Tracks
    BY <1>11 DEF PublishNew, ArtInv, ArtTypes, CacheInv
  <2> QED
    BY <1>11, <2>1, PublishArt DEF PublishNew, ArtInv, ArtTypes, Fetches
<1>12. CASE SeeShutdown
  BY <1>12, ElsewhereArt DEF SeeShutdown, ArtInv, ArtTypes
<1> QED
  BY <1>1, <1>2, <1>3, <1>4, <1>5, <1>6, <1>7, <1>8, <1>9, <1>10, <1>11, <1>12 DEF Manager

LEMMA ArtStep ==
  ArtInv /\ [Next]_vars => ArtInv'
<1> SUFFICES ASSUME ArtInv, [Next]_vars PROVE ArtInv'
  OBVIOUS
<1> USE DEF world, session
<1>1. CASE Manager
  BY <1>1, ManagerArt
<1>2. CASE Command
  BY <1>2, ElsewhereArt DEF Command, ArtInv, ArtTypes, Following
<1>3. CASE CommandFails
  BY <1>3, RecordFailureArt DEF CommandFails
<1>4. CASE StreamEnds
  BY <1>4, ReconnectArt DEF StreamEnds
<1>5. ASSUME NEW i \in FetchIds, Lookup(i)
      PROVE  ArtInv'
  BY <1>5, LookupArt
<1>6. ASSUME NEW p \in Players, PlayerChanges(p) \/ TrackChanges(p)
      PROVE  ArtInv'
  <2>1. track' \in [Players -> Tracks \cup {None}]
    BY <1>6 DEF PlayerChanges, TrackChanges, ArtInv, ArtTypes
  <2> QED
    BY <1>6, <2>1 DEF PlayerChanges, TrackChanges, ArtInv, ArtTypes, Following, CacheInv,
       ArtMatches, cache, media
<1>7. CASE GoesStale \/ RequestShutdown \/ UNCHANGED vars
  BY <1>7 DEF GoesStale, RequestShutdown, vars, ArtInv, ArtTypes, Following, CacheInv,
     ArtMatches, cache, media
<1> QED
  BY <1>1, <1>2, <1>3, <1>4, <1>5, <1>6, <1>7 DEF Next

(* The artwork shown is that of the track shown, however many lookups are on   *)
(* their way and whatever each finds shown when it gets there: the cache       *)
(* names the track its url is of, and a lookup stamps its own track, if a      *)
(* stale one (media.rs 274-380, artwork.rs).                                 *)
THEOREM ArtHolds == Spec => []ArtMatches
<1>1. ArtInv => ArtMatches
  BY DEF ArtInv
<1> QED
  BY <1>1, ArtInit, ArtStep, PTL DEF Spec

-----------------------------------------------------------------------------
(* Types. The health count stays below the threshold.                        *)

MediaInv == ArtInv /\ TypeOK

LEMMA MediaInit ==
  Init => TypeOK
<1> SUFFICES ASSUME Init PROVE TypeOK
  OBVIOUS
<1>1. ArtTypes
  BY ArtInit DEF ArtInv
<1>2. fails \in 0 .. THRESHOLD - 1
  BY MediaAssumption DEF Init
<1> QED
  BY <1>1, <1>2 DEF Init, TypeOK, ArtTypes, Places

(* The types that ArtInv has already need no second proof.                    *)
LEMMA OtherTypes ==
  ASSUME ArtInv',
         rank' \in [Players -> Ranks], stale' \in BOOLEAN, signal' \in BOOLEAN,
         fails' \in 0 .. THRESHOLD - 1, shown' \in Tracks \cup {None, "unknown"},
         shownArt' \in Tracks \cup {None}, shutdown' \in BOOLEAN, events' \in Environments
  PROVE  TypeOK'
BY DEF ArtInv, ArtTypes, Places, TypeOK

LEMMA FailureTypes ==
  ASSUME TypeOK, RecordFailure
  PROVE  fails' \in 0 .. THRESHOLD - 1
<1>1. fails \in Nat /\ THRESHOLD \in Nat \ {0, 1}
  BY MediaAssumption DEF TypeOK
<1>2. CASE ThresholdReached
  BY <1>1, <1>2 DEF RecordFailure
<1>3. CASE ~ThresholdReached
  BY <1>1, <1>3 DEF RecordFailure, ThresholdReached, Streak
<1> QED
  BY <1>2, <1>3

LEMMA MediaStep ==
  MediaInv /\ [Next]_vars => MediaInv'
<1> SUFFICES ASSUME MediaInv, [Next]_vars PROVE MediaInv'
  OBVIOUS
<1>1. ArtInv' /\ TypeOK
  BY ArtStep DEF MediaInv
<1>2. 0 \in 0 .. THRESHOLD - 1
  BY MediaAssumption
<1> USE DEF world, session, media
<1>3. TypeOK'
  <2>1. CASE Connect \/ Find \/ FindNone \/ AddMatch \/ AddMatchFails
    BY <1>1, <1>2, <2>1, OtherTypes
       DEF TypeOK, Connect, Find, FindNone, AddMatch, AddMatchFails, Reconnect
  <2>2. CASE ReadStatus \/ ReadTrack \/ SameTrack \/ NewTrack
    BY <1>1, <1>2, <2>2, OtherTypes DEF TypeOK, ReadStatus, ReadTrack, SameTrack, NewTrack
  <2>3. CASE ReadFails \/ CommandFails
    <3>1. RecordFailure
      BY <2>3 DEF ReadFails, CommandFails
    <3> QED
      BY <1>1, <3>1, FailureTypes, OtherTypes DEF TypeOK, RecordFailure, Reconnect
  <2>4. ASSUME PublishSame \/ \E i \in FetchIds : PublishNew(i)
        PROVE  TypeOK'
    <3>1. Publish
      BY <2>4 DEF PublishSame, PublishNew
    <3> QED
      BY <1>1, <3>1, OtherTypes DEF TypeOK, Publish
  <2>5. CASE SeeShutdown \/ TakeSignal \/ Poll \/ PollFindsBetter \/ PollStays
    BY <1>1, <2>5, OtherTypes
       DEF TypeOK, SeeShutdown, TakeSignal, Poll, PollFindsBetter, PollStays, Reconnect
  <2>6. CASE Command \/ StreamEnds
    BY <1>1, <1>2, <2>6, OtherTypes DEF TypeOK, Command, StreamEnds, Reconnect
  <2>7. ASSUME NEW i \in FetchIds, Lookup(i)
        PROVE  TypeOK'
    <3>1. fetch[i] = Idle \/ fetch[i].key \in Tracks
      BY <1>1 DEF TypeOK, Fetches
    <3> QED
      BY <1>1, <2>7, <3>1, OtherTypes
         DEF TypeOK, Lookup, Fetch, FetchArtwork, StoreUrl, Peek, Stamp, Idle
  <2>8. ASSUME NEW p \in Players, PlayerChanges(p) \/ TrackChanges(p)
        PROVE  TypeOK'
    BY <1>1, <2>8, OtherTypes DEF TypeOK, PlayerChanges, TrackChanges, Signalled, Ranks
  <2>9. CASE GoesStale \/ RequestShutdown \/ UNCHANGED vars
    BY <1>1, <2>9, OtherTypes DEF TypeOK, GoesStale, RequestShutdown, vars
  <2> QED
    BY <2>1, <2>2, <2>3, <2>4, <2>5, <2>6, <2>7, <2>8, <2>9 DEF Next, Manager
<1> QED
  BY <1>1, <1>3 DEF MediaInv

(* Every variable of the media manager keeps its type; in particular no        *)
(* failure is counted beyond the threshold (media.rs, DbusHealth).             *)
THEOREM TypeCorrect == Spec => []TypeOK
<1>1. MediaInv => TypeOK
  BY DEF MediaInv
<1> QED
  BY <1>1, ArtInit, MediaInit, MediaStep, PTL DEF Spec, MediaInv
=============================================================================
