------------------------------ MODULE MediaArt ------------------------------
(***************************************************************************)
(* Now-playing and its artwork (bluetooth/media.rs, avrcp.rs, artwork.rs).  *)
(* The media manager follows one MediaPlayer1 of BlueZ over a D-Bus         *)
(* connection of its own: it chooses a player, reads its track on a signal   *)
(* and on a slow poll, and starts again when the connection has gone stale   *)
(* or another player is better. A new track starts a task that looks up its  *)
(* artwork on the net and stamps it on what is shown by then; the cache it    *)
(* shares with the manager survives reconnects.                             *)
(*                                                                         *)
(* A track is its key (title and artist), its artwork is named after it;     *)
(* status, position and album are left out.                                 *)
(***************************************************************************)
EXTENDS Naturals, FiniteSets, FiniteSetsExt

CONSTANTS
  Players,       \* as numbers, in the order of their paths
  Tracks,
  None,          \* no track or player, Option::None
  FetchIds,      \* bound: artwork lookups at a time
  THRESHOLD,     \* DBUS_FAILURE_THRESHOLD (5)
  Environments   \* the sets of events among which a behaviour has one

(***************************************************************************)
(* "players": players come, go, and start and stop streaming;                *)
(* "tracks":  the track of a player changes;                                 *)
(* "stale":   the connection goes stale while a player is followed: every    *)
(*            call on it fails, its signal stream may end;                  *)
(* "unbound": it does so while no player has been found;                    *)
(* "refused": calls fail now and then;                                      *)
(* "art":     the net knows the artwork of a track.                         *)
(***************************************************************************)
EventKinds == {"players", "tracks", "stale", "unbound", "refused", "art"}

ASSUME MediaAssumption ==
  /\ Players \subseteq Nat /\ IsFiniteSet(Players)
  /\ None \notin Players \cup Tracks
  /\ THRESHOLD \in Nat \ {0, 1}
  /\ Environments \subseteq SUBSET EventKinds

VARIABLES
  rank,      \* BlueZ: whether a player exists, plays, has an active transport
  track,     \* BlueZ: what it plays
  stale,     \* the connection has gone stale
  signal,    \* a PropertiesChanged of the player has yet to be taken
  pc,        \* the await the manager is at
  bound,     \* player_path
  fails,     \* DbusHealth: consecutive failures
  got,       \* the track read and about to be published
  art,       \* the artwork it is published with
  artKey,    \* ArtCache: the key
  artUrl,    \* ArtCache: the url
  shown,     \* AppState: the track of media
  shownArt,  \* AppState: its artwork_url
  fetch,     \* the artwork lookups
  shutdown,
  events     \* the events that may happen in this behaviour; never changes

world   == <<rank, track>>
session == <<bound, fails, got, art>>
cache   == <<artKey, artUrl>>
media   == <<shown, shownArt>>
vars    == <<world, stale, signal, pc, session, cache, media, fetch, shutdown,
             events>>

Ranks == {"absent", "idle", "playing", "active"}

(* A lookup asks the net, writes the cache, looks at the state, stamps it.   *)
Idle    == [at |-> "idle", key |-> None]
Fetches == [at : {"ask", "guard", "peek", "stamp"}, key : Tracks] \cup {Idle}

TypeOK ==
  /\ rank \in [Players -> Ranks]
  /\ track \in [Players -> Tracks \cup {None}]
  /\ stale \in BOOLEAN
  /\ signal \in BOOLEAN
  /\ pc \in {"start", "find", "match", "read", "readTrack", "publish", "set",
             "setNew", "session", "poll", "done"}
  /\ bound \in Players \cup {None}
  /\ fails \in 0 .. THRESHOLD - 1
  /\ got \in Tracks \cup {None}
  /\ art \in Tracks \cup {None}
  /\ artKey \in Tracks \cup {None}
  /\ artUrl \in Tracks \cup {None}
  /\ shown \in Tracks \cup {None, "unknown"}
  /\ shownArt \in Tracks \cup {None}
  /\ fetch \in [FetchIds -> Fetches]
  /\ shutdown \in BOOLEAN
  /\ events \in Environments

-----------------------------------------------------------------------------
(* BlueZ and the phones.                                                   *)

Watching == pc \in {"read", "readTrack", "publish", "set", "setNew", "session", "poll"}

Signalled(p) == signal' = (signal \/ (Watching /\ bound = p /\ ~stale))

(* A player that comes or goes is nobody's PropertiesChanged.               *)
PlayerChanges(p) ==
  /\ "players" \in events
  /\ \E r \in Ranks \ {rank[p]} :
       /\ rank' = [rank EXCEPT ![p] = r]
       /\ IF "absent" \in {r, rank[p]} THEN UNCHANGED signal ELSE Signalled(p)
  /\ UNCHANGED <<track, stale, pc, session, cache, media, fetch, shutdown, events>>

TrackChanges(p) ==
  /\ "tracks" \in events
  /\ rank[p] # "absent"
  /\ \E t \in (Tracks \cup {None}) \ {track[p]} :
       track' = [track EXCEPT ![p] = t]
  /\ Signalled(p)
  /\ UNCHANGED <<rank, stale, pc, session, cache, media, fetch, shutdown, events>>

GoesStale ==
  /\ ~stale
  /\ \/ "stale" \in events /\ (Watching \/ pc = "match")
     \/ "unbound" \in events /\ pc = "find"
  /\ stale' = TRUE
  /\ UNCHANGED <<world, signal, pc, session, cache, media, fetch, shutdown, events>>

RequestShutdown ==
  /\ ~shutdown
  /\ shutdown' = TRUE
  /\ UNCHANGED <<world, stale, signal, pc, session, cache, media, fetch, events>>

CallWorks == ~stale
CallFails == stale \/ "refused" \in events

-----------------------------------------------------------------------------
(* Choosing a player.                                                      *)

(* The best tier that is not empty.                                        *)
Pool ==
  LET active  == {p \in Players : rank[p] = "active"}
      playing == {p \in Players : rank[p] \in {"playing", "active"}}
  IN  IF active # {} THEN active
      ELSE IF playing # {} THEN playing
      ELSE {p \in Players : rank[p] # "absent"}

(* Variant: the choice does not look at the current player.                 *)
SelectFirst(current) == IF Pool = {} THEN None ELSE Min(Pool)

SelectPlayer(current) ==
  IF Pool = {} THEN None ELSE IF current \in Pool THEN current ELSE Min(Pool)

-----------------------------------------------------------------------------
(* Connecting.                                                             *)

(* set_media(None) and continue 'reconnect, which drops the connection.      *)
Reconnect ==
  /\ pc' = "start"
  /\ shown' = None
  /\ shownArt' = None
  /\ stale' = FALSE
  /\ signal' = FALSE

Connect ==
  /\ pc = "start"
  /\ ~shutdown
  /\ shown' = None
  /\ shownArt' = None
  /\ pc' \in {"find"} \cup {"start" : e \in events \cap {"refused"}}
  /\ bound' = None
  /\ fails' = 0
  /\ UNCHANGED <<world, stale, signal, got, art, cache, fetch, shutdown, events>>

Find ==
  /\ pc = "find"
  /\ ~shutdown
  /\ CallWorks
  /\ SelectPlayer(None) # None
  /\ bound' = SelectPlayer(None)
  /\ pc' = "match"
  /\ UNCHANGED <<world, stale, signal, fails, got, art, cache, media, fetch,
                 shutdown, events>>

FindNone ==
  /\ pc = "find"
  /\ ~shutdown
  /\ CallFails \/ SelectPlayer(None) = None
  /\ shown' = None
  /\ shownArt' = None
  /\ UNCHANGED <<world, stale, signal, pc, session, cache, fetch, shutdown, events>>

AddMatch ==
  /\ pc = "match"
  /\ CallWorks
  /\ pc' = "read"
  /\ UNCHANGED <<world, stale, signal, session, cache, media, fetch, shutdown, events>>

AddMatchFails ==
  /\ pc = "match"
  /\ CallFails
  /\ Reconnect
  /\ UNCHANGED <<world, session, cache, fetch, shutdown, events>>

-----------------------------------------------------------------------------
(* DbusHealth: record_failure, and what its callers do.                     *)

(* Variant: every call is judged by a new DbusHealth.                       *)
StreakOfOne == 1

Streak == fails + 1

ThresholdReached == Streak >= THRESHOLD

RecordFailure ==
  /\ IF ThresholdReached
     THEN fails' = 0 /\ Reconnect
     ELSE /\ fails' = Streak
          /\ pc' = "session"
          /\ UNCHANGED <<media, stale, signal>>
  /\ UNCHANGED <<world, bound, got, art, cache, fetch, shutdown, events>>

-----------------------------------------------------------------------------
(* read_media: the status, which must be there, then the track, which need   *)
(* not.                                                                    *)

ReadStatus ==
  /\ pc = "read"
  /\ CallWorks
  /\ rank[bound] # "absent"
  /\ pc' = "readTrack"
  /\ UNCHANGED <<world, stale, signal, session, cache, media, fetch, shutdown, events>>

ReadFails ==
  /\ pc = "read"
  /\ CallFails \/ rank[bound] = "absent"
  /\ RecordFailure

ReadTrack ==
  /\ pc = "readTrack"
  /\ \/ CallWorks /\ rank[bound] # "absent" /\ got' = track[bound]
     \/ (CallFails \/ rank[bound] = "absent") /\ got' = None
  /\ fails' = 0
  /\ pc' = "publish"
  /\ UNCHANGED <<world, stale, signal, bound, art, cache, media, fetch, shutdown,
                 events>>

-----------------------------------------------------------------------------
(* publish_and_lookup_art.                                                 *)

(* Variant: only the task that fetched an artwork puts it on the track.      *)
NoPreservedUrl == None

PreservedUrl == IF got = None THEN None ELSE artUrl

SameTrack ==
  /\ pc = "publish"
  /\ got \in {None, artKey}
  /\ art' = PreservedUrl
  /\ pc' = "set"
  /\ UNCHANGED <<world, stale, signal, bound, fails, got, cache, media, fetch,
                 shutdown, events>>

NewTrack ==
  /\ pc = "publish"
  /\ got \notin {None, artKey}
  /\ art' = None
  /\ artKey' = got
  /\ artUrl' = None
  /\ pc' = "setNew"
  /\ UNCHANGED <<world, stale, signal, bound, fails, got, media, fetch, shutdown,
                 events>>

Publish ==
  /\ shown' = IF got = None THEN "unknown" ELSE got
  /\ shownArt' = art
  /\ pc' = "session"
  /\ UNCHANGED <<world, stale, signal, session, cache, shutdown, events>>

PublishSame ==
  /\ pc = "set"
  /\ Publish
  /\ UNCHANGED fetch

(* A lookup that finds nothing changes nothing: where the net knows no        *)
(* artwork at all, it is not followed.                                     *)
PublishNew(i) ==
  /\ pc = "setNew"
  /\ fetch[i] = Idle
  /\ fetch' = IF "art" \in events
              THEN [fetch EXCEPT ![i] = [at |-> "ask", key |-> got]]
              ELSE fetch
  /\ Publish

-----------------------------------------------------------------------------
(* A lookup, in a task of its own that nothing stops.                       *)

Fetch(i, from) ==
  /\ fetch[i].at = from
  /\ UNCHANGED <<world, stale, signal, pc, session, artKey, shutdown, events>>

Goto(i, to) == fetch' = [fetch EXCEPT ![i].at = to]
End(i)      == fetch' = [fetch EXCEPT ![i] = Idle]

FetchArtwork(i) ==
  /\ Fetch(i, "ask")
  /\ End(i) \/ Goto(i, "guard")
  /\ UNCHANGED <<artUrl, media>>

(* Variant: the url is stored whatever the cache is about by now.           *)
AnyKey(k) == TRUE

CacheMatches(k) == artKey = k

StoreUrl(i) ==
  /\ Fetch(i, "guard")
  /\ IF CacheMatches(fetch[i].key)
     THEN artUrl' = fetch[i].key /\ Goto(i, "peek")
     ELSE End(i) /\ UNCHANGED artUrl
  /\ UNCHANGED media

Peek(i) ==
  /\ Fetch(i, "peek")
  /\ IF shown = fetch[i].key THEN Goto(i, "stamp") ELSE End(i)
  /\ UNCHANGED <<artUrl, media>>

(* What it publishes is what it saw, whatever was published since.          *)
Stamp(i) ==
  /\ Fetch(i, "stamp")
  /\ shown' = fetch[i].key
  /\ shownArt' = fetch[i].key
  /\ End(i)
  /\ UNCHANGED artUrl

-----------------------------------------------------------------------------
(* The session: shutdown, command, signal, poll (biased). That the senders    *)
(* of commands are gone counts as the shutdown.                             *)

SeeShutdown ==
  /\ pc \in {"start", "find", "session"}
  /\ shutdown
  /\ pc' = "done"
  /\ UNCHANGED <<world, stale, signal, session, cache, media, fetch, shutdown, events>>

Command ==
  /\ pc = "session"
  /\ ~shutdown
  /\ CallWorks
  /\ rank[bound] # "absent"
  /\ fails' = 0
  /\ UNCHANGED <<world, stale, signal, pc, bound, got, art, cache, media, fetch,
                 shutdown, events>>

CommandFails ==
  /\ pc = "session"
  /\ ~shutdown
  /\ CallFails \/ rank[bound] = "absent"
  /\ RecordFailure

TakeSignal ==
  /\ pc = "session"
  /\ ~shutdown
  /\ signal
  /\ signal' = FALSE
  /\ pc' = "read"
  /\ UNCHANGED <<world, stale, session, cache, media, fetch, shutdown, events>>

StreamEnds ==
  /\ pc = "session"
  /\ ~shutdown
  /\ stale
  /\ Reconnect
  /\ UNCHANGED <<world, session, cache, fetch, shutdown, events>>

Poll ==
  /\ pc = "session"
  /\ ~shutdown
  /\ ~signal
  /\ pc' = "poll"
  /\ UNCHANGED <<world, stale, signal, session, cache, media, fetch, shutdown, events>>

PollFindsBetter ==
  /\ pc = "poll"
  /\ CallWorks
  /\ SelectPlayer(bound) \notin {None, bound}
  /\ Reconnect
  /\ UNCHANGED <<world, session, cache, fetch, shutdown, events>>

PollStays ==
  /\ pc = "poll"
  /\ CallFails \/ SelectPlayer(bound) \in {None, bound}
  /\ pc' = "read"
  /\ UNCHANGED <<world, stale, signal, session, cache, media, fetch, shutdown, events>>

-----------------------------------------------------------------------------
Init ==
  /\ rank \in [Players -> Ranks]
  /\ track \in [Players -> Tracks \cup {None}]
  /\ stale = FALSE
  /\ signal = FALSE
  /\ pc = "start"
  /\ bound = None
  /\ fails = 0
  /\ got = None
  /\ art = None
  /\ artKey = None
  /\ artUrl = None
  /\ shown = None
  /\ shownArt = None
  /\ fetch = [i \in FetchIds |-> Idle]
  /\ shutdown = FALSE
  /\ events \in Environments

Manager ==
  \/ Connect
  \/ Find
  \/ FindNone
  \/ AddMatch
  \/ AddMatchFails
  \/ ReadStatus
  \/ ReadFails
  \/ ReadTrack
  \/ SameTrack
  \/ NewTrack
  \/ PublishSame
  \/ \E i \in FetchIds : PublishNew(i)
  \/ SeeShutdown
  \/ TakeSignal
  \/ Poll
  \/ PollFindsBetter
  \/ PollStays

Lookup(i) == FetchArtwork(i) \/ StoreUrl(i) \/ Peek(i) \/ Stamp(i)

Next ==
  \/ Manager
  \/ Command
  \/ CommandFails
  \/ StreamEnds
  \/ \E i \in FetchIds : Lookup(i)
  \/ \E p \in Players : PlayerChanges(p)
  \/ \E p \in Players : TrackChanges(p)
  \/ GoesStale
  \/ RequestShutdown

Spec == Init /\ [][Next]_vars

(* The task goes on, D-Bus calls answer or time out (5 s), so do lookups.    *)
(* The poll is taken if it finds the session without a signal often enough.  *)
Fairness ==
  /\ WF_vars(Manager)
  /\ SF_vars(Poll)
  /\ \A i \in FetchIds : WF_vars(Lookup(i))

FairSpec == Spec /\ Fairness

-----------------------------------------------------------------------------
(* The artwork shown is that of the track shown, however late an answer      *)
(* comes and whatever was played in between.                                *)
ArtMatches == shownArt # None => shownArt = shown

(* AUD-011: a stale connection is given up, if a player was found on it.     *)
StaleIsDropped ==
  "unbound" \notin events => (stale ~> ~stale \/ shutdown)

Calm == "refused" \notin events /\ ~stale /\ ~shutdown

(* AUD-041: a player that streams without a break is followed for good once  *)
(* it is followed at all, however often others start and stop.              *)
Sticky ==
  \A p \in Players :
    <>[](Calm /\ rank[p] = "active") /\ []<>(bound = p) => <>[](bound = p)

(* What the one streaming player plays is what is shown in the end, with its  *)
(* artwork if that was ever found, whatever was overtaken or missed before,  *)
(* as long as the signals leave the session time for its poll.              *)
MediaFollows ==
  []<>(pc = "session" /\ ~signal) =>
    \A p \in Players, t \in Tracks :
      <>[](/\ Calm
           /\ {q \in Players : rank[q] = "active"} = {p}
           /\ track[p] = t) => <>[](shown = t /\ shownArt = artUrl)
=============================================================================
