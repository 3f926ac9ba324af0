------------------------------- MODULE Loading --------------------------------
(***************************************************************************)
(* How a track gets its source: src/session.cpp (fetch_track_metadata,     *)
(* fetch_track_with_alternative, resolve_audio_source_with_retry, the      *)
(* prefetch of the next track), src/audio/storage_resolve.cpp and the      *)
(* token providers of src/auth.                                            *)
(*                                                                         *)
(* The playback thread loads the track it is to play, and a detached       *)
(* helper the one that may follow.  Both go through the same cascade: the  *)
(* metadata from two services, twice; the track's alternatives when it has *)
(* no file that can be decoded; the audio key and the URLs of the file,    *)
(* twice.  They share the access point, which each may tear down between   *)
(* its attempts, and the two tokens of the web services.                   *)
(*                                                                         *)
(* A reconnect is one step here; Session takes it apart.  A URI stands for *)
(* the identifier it holds; one that holds none is in Uris and not in Gids.*)
(***************************************************************************)
EXTENDS Integers, Sequences, SequencesExt

CONSTANTS
  Player,       \* the playback thread
  Helper,       \* the prefetch helper
  None,         \* nobody, or no identifier
  Uris,         \* what the host or the context asks for
  Gids,         \* identifiers of tracks
  Catalogue,    \* what each service says of each track
  Prefer,       \* the format of the configured bitrate
  MaxLoads,     \* bound on the tracks asked for
  MaxKicks,     \* bound on the prefetches
  MaxFaults,    \* bound on failed requests and lost connections
  MaxTurns      \* bound on tokens that lapse or are revoked

Loaders == {Player, Helper}
Services == {"extended", "legacy"}
Formats == 0 .. 4   \* 0, 1, 2: Ogg Vorbis at 96, 160, 320 kbit/s

ASSUME LoadingAssumption ==
  /\ Player # Helper /\ None \notin Loaders \cup Gids \cup Uris
  /\ Prefer \in 0 .. 2
  /\ \A s \in Services, g \in Gids :
       /\ Catalogue[s][g].formats \subseteq Formats
       /\ Catalogue[s][g].gid \in Gids \cup {None}
       /\ Catalogue[s][g].alts \in Seq(Gids)
  /\ MaxLoads \in Nat /\ MaxKicks \in Nat /\ MaxFaults \in Nat /\ MaxTurns \in Nat

VARIABLES
  load,         \* per loader: where it is and what it has so far (renewed is a
                \* ghost: nothing was revoked since it dropped the tokens)
  ap,           \* the dispatcher: none, up or dead
  io,           \* the holder of ap_io_m while it waits for an answer
  client, bearer,           \* the tokens the two providers keep
  clientBusy, bearerBusy,   \* the loader inside each provider's fetch_locked
  slot,         \* prefetched
  prefetching,  \* the flag that keeps a second helper away
  hostToken,    \* config.oauth_token is set
  hits,         \* ghost: faults each load has met, 2 for "two or more"
  loads, kicks, faults, turns   \* ghosts: counters for the bounds

tokens == <<client, bearer, clientBusy, bearerBusy>>
spare == <<slot, prefetching, hostToken>>
counters == <<loads, kicks, turns>>
vars == <<load, ap, io, tokens, spare, hits, faults, counters>>

-----------------------------------------------------------------------------
(* The catalogue.                                                          *)

Track == [from : Services, gid : Gids]
NoTrack == [from |-> "none", gid |-> None]
Metadata(track) == Catalogue[track.from][track.gid]

\* track_has_playable_vorbis_file
Playable(track) == Metadata(track).formats \cap 0 .. 2 # {}

\* The first format that is there: the preferred one, then 160, 320 and 96.
Chosen(track) ==
  LET order == <<Prefer, 1, 2, 0>>
  IN order[SelectInSeq(order, LAMBDA f : f \in Metadata(track).formats)]

File(track) == [gid |-> track.gid, format |-> Chosen(track)]

\* The identifier the metadata gives itself takes the place of the one asked for.
Relinked(track, gid) == IF Metadata(track).gid # None THEN Metadata(track).gid ELSE gid

-----------------------------------------------------------------------------

Token == {"none", "good", "revoked"}
Files == [gid : Gids, format : 0 .. 2]
NoFile == [gid |-> None, format |-> 0]
NoKey == [id |-> None, file |-> NoFile]
Places ==
  {"idle", "dropclient", "dropbearer", "client", "askclient", "answer", "bearer", "login",
   "post", "ensure", "use", "key", "fallback", "reset", "loaded", "playing", "failed",
   "unplayable"}
Load ==
  [at : Places, stage : Services \cup {"source", "storage", "none"},
   uri : Uris \cup {None}, gid : Gids \cup {None}, tries : 0 .. 2, again : BOOLEAN,
   ext : BOOLEAN, alt : Nat, primary : Services \cup {"none"}, track : Track \cup {NoTrack},
   key : [id : Gids, file : Files] \cup {NoKey}, urls : Files \cup {NoFile},
   client : Token, bearer : Token, posts : 0 .. 3,
   renewed : BOOLEAN]
Idle ==
  [at |-> "idle", stage |-> "none", uri |-> None, gid |-> None, tries |-> 0, again |-> FALSE,
   ext |-> FALSE, alt |-> 0, primary |-> "none", track |-> NoTrack, key |-> NoKey,
   urls |-> NoFile, client |-> "none", bearer |-> "none", posts |-> 0,
   renewed |-> FALSE]

TypeOK ==
  /\ load \in [Loaders -> Load]
  /\ \A l \in Loaders : load[l].alt > 0 =>
       load[l].alt <= Len(Catalogue[load[l].primary][load[l].uri].alts)
  /\ ap \in {"none", "up", "dead"} /\ io \in Loaders \cup {None}
  /\ client \in Token /\ bearer \in Token
  /\ clientBusy \in Loaders \cup {None} /\ bearerBusy \in Loaders \cup {None}
  /\ slot.at \in {"idle", "loaded"} /\ slot \in Load
  /\ prefetching \in BOOLEAN /\ hostToken \in BOOLEAN
  /\ hits \in [Loaders -> 0 .. 2]
  /\ loads \in 0 .. MaxLoads /\ kicks \in 0 .. MaxKicks
  /\ faults \in 0 .. MaxFaults /\ turns \in 0 .. MaxTurns

Init ==
  /\ load = [l \in Loaders |-> Idle]
  /\ ap \in {"up", "dead"} /\ io = None
  /\ client = "none" /\ bearer = "none" /\ clientBusy = None /\ bearerBusy = None
  /\ slot = Idle /\ prefetching = FALSE /\ hostToken \in BOOLEAN
  /\ hits = [l \in Loaders |-> 0]
  /\ loads = 0 /\ kicks = 0 /\ faults = 0 /\ turns = 0

At(l, place) == load[l].at = place
Now(l, task) == load' = [load EXCEPT ![l] = task]
Go(l, place) == load' = [load EXCEPT ![l].at = place]
Loading(l) == load[l].at \notin {"idle", "playing", "loaded", "failed", "unplayable"}
Hit(struck) ==
  hits' = [l \in Loaders |-> IF l \in struck /\ hits[l] < 2 THEN hits[l] + 1 ELSE hits[l]]
NoFault == UNCHANGED <<hits, faults>>
Fault(l) ==
  /\ faults < MaxFaults
  /\ faults' = faults + 1
  /\ Hit({l})

-----------------------------------------------------------------------------
(* The cascade: what a loader turns to next.                               *)

Forced(task) ==
  \/ task.stage = "extended" /\ task.tries = 2
  \/ task.stage = "storage" /\ task.again

\* make_spclient_auth_headers: the host's token, or the two providers', dropped
\* first when a refresh is forced.
Authorized(task) ==
  [task EXCEPT !.at = IF hostToken THEN "post" ELSE IF Forced(task) THEN "dropclient" ELSE "client"]

Extended(task, gid, tries) ==
  Authorized([task EXCEPT !.stage = "extended", !.gid = gid, !.tries = tries, !.ext = FALSE])

NextAlternative(task) ==
  LET alts == Catalogue[task.primary][task.uri].alts
  IN IF task.alt < Len(alts)
       THEN Extended([task EXCEPT !.alt = @ + 1], alts[task.alt + 1], 1)
       ELSE [task EXCEPT !.at = "unplayable"]

\* An alternative without metadata is passed over.
MetadataFailed(task) ==
  IF task.alt = 0 THEN [task EXCEPT !.at = "failed"] ELSE NextAlternative(task)

Parsed(task, track) ==
  CASE Playable(track) ->
         [task EXCEPT !.at = "ensure", !.stage = "source", !.tries = 1, !.ext = FALSE,
                      !.alt = 0, !.primary = "none", !.track = track, !.gid = Relinked(track, @)]
    [] ~Playable(track) /\ task.alt = 0 ->
         NextAlternative([task EXCEPT !.primary = track.from])
    [] OTHER -> NextAlternative(task)

\* What the second service says is preferred to the first's when it can be played,
\* and taken as it is when the first has failed.
AfterLegacy(task, ok) ==
  LET legacy == [from |-> "legacy", gid |-> task.gid]
      extended == [from |-> "extended", gid |-> task.gid]
  IN CASE task.ext -> Parsed(task, IF ok /\ Playable(legacy) THEN legacy ELSE extended)
       [] ~task.ext /\ ok -> Parsed(task, legacy)
       [] ~task.ext /\ ~ok /\ task.tries = 1 -> [task EXCEPT !.at = "reset"]
       [] OTHER -> MetadataFailed(task)

\* The headers of a request go with it.
Bare(task) ==
  [task EXCEPT !.again = FALSE, !.client = "none", !.bearer = "none", !.posts = 0,
               !.renewed = FALSE]

\* Mutant: the source of a track gets one attempt.
SourceFailedOnce(task) ==
  Bare([task EXCEPT !.at = "failed", !.stage = "source"])

SourceFailed(task) ==
  Bare([task EXCEPT !.at = IF task.tries = 1 THEN "reset" ELSE "failed", !.stage = "source",
                    !.key = NoKey])

PostFailed(task) ==
  IF task.stage = "extended"
    THEN Bare([task EXCEPT !.at = "ensure", !.stage = "legacy"])
    ELSE SourceFailed(task)

\* storage_resolve runs under ap_io_m.
GivesUpIo(l) == io' = IF load[l].stage = "storage" THEN None ELSE io

-----------------------------------------------------------------------------
(* The tokens: src/auth/client_token.cpp, src/auth/login5.cpp.             *)

\* Mutant: a forced refresh leaves the client token in place.
DropNothing(l) ==
  /\ At(l, "dropclient") /\ clientBusy = None
  /\ Now(l, [load[l] EXCEPT !.at = "dropbearer", !.renewed = TRUE])
  /\ NoFault /\ UNCHANGED <<ap, io, tokens, spare, counters>>

\* ClientTokenProvider::invalidate; it waits for a fetch in progress.
DropClient(l) ==
  /\ At(l, "dropclient") /\ clientBusy = None
  /\ client' = "none"
  /\ Now(l, [load[l] EXCEPT !.at = "dropbearer", !.renewed = TRUE])
  /\ NoFault /\ UNCHANGED <<ap, io, bearer, clientBusy, bearerBusy, spare, counters>>

DropBearer(l) ==
  /\ At(l, "dropbearer") /\ bearerBusy = None
  /\ bearer' = "none"
  /\ Go(l, "client")
  /\ NoFault /\ UNCHANGED <<ap, io, client, clientBusy, bearerBusy, spare, counters>>

\* ClientTokenProvider::token
GetClient(l) ==
  /\ At(l, "client") /\ clientBusy = None
  /\ IF client # "none"
       THEN Now(l, [load[l] EXCEPT !.at = "bearer", !.client = client]) /\ UNCHANGED clientBusy
       ELSE Go(l, "askclient") /\ clientBusy' = l
  /\ NoFault /\ UNCHANGED <<ap, io, client, bearer, bearerBusy, spare, counters>>

\* A token is granted, or a challenge set first, once.
AskClient(l) ==
  /\ \/ /\ load[l].at \in {"askclient", "answer"}
        /\ client' = "good" /\ clientBusy' = None
        /\ Now(l, [load[l] EXCEPT !.at = "bearer", !.client = "good"])
        /\ NoFault /\ UNCHANGED io
     \/ /\ At(l, "askclient")
        /\ Go(l, "answer")
        /\ NoFault /\ UNCHANGED <<io, client, clientBusy>>
     \/ /\ load[l].at \in {"askclient", "answer"}
        /\ Fault(l)
        /\ clientBusy' = None
        /\ Now(l, PostFailed(load[l])) /\ GivesUpIo(l)
        /\ UNCHANGED client
  /\ UNCHANGED <<ap, bearer, bearerBusy, spare, counters>>

\* Login5Provider::access_token
GetBearer(l) ==
  /\ At(l, "bearer") /\ bearerBusy = None
  /\ IF bearer # "none"
       THEN Now(l, [load[l] EXCEPT !.at = "post", !.bearer = bearer]) /\ UNCHANGED bearerBusy
       ELSE Now(l, [load[l] EXCEPT !.at = "login", !.posts = 1]) /\ bearerBusy' = l
  /\ NoFault /\ UNCHANGED <<ap, io, client, bearer, clientBusy, spare, counters>>

\* Mutant: a login is challenged for as long as the service likes.
LoginChallengedOn(l) ==
  /\ At(l, "login")
  /\ Now(l, [load[l] EXCEPT !.posts = @ + 1])
  /\ NoFault /\ UNCHANGED <<ap, io, tokens, spare, counters>>

\* A challenge is answered by the next of three requests.
LoginChallenged(l) ==
  /\ At(l, "login") /\ load[l].posts < 3
  /\ Now(l, [load[l] EXCEPT !.posts = @ + 1])
  /\ NoFault /\ UNCHANGED <<ap, io, tokens, spare, counters>>

\* Granted; or an error, a challenge not solved in time, or the third challenge; or
\* refused for a revoked client token.
Login(l) ==
  /\ At(l, "login")
  /\ bearerBusy' = None
  /\ \/ /\ bearer' = "good"
        /\ Now(l, [load[l] EXCEPT !.at = "post", !.bearer = "good", !.posts = 0])
        /\ NoFault /\ UNCHANGED io
     \/ /\ IF load[l].client = "revoked" THEN Hit({l}) /\ UNCHANGED faults ELSE Fault(l)
        /\ Now(l, PostFailed(load[l])) /\ GivesUpIo(l)
        /\ UNCHANGED bearer
  /\ UNCHANGED <<ap, client, clientBusy, spare, counters>>

Stale(task) == ~hostToken /\ "revoked" \in {task.client, task.bearer}

\* The request itself succeeds: metadata of the first service, or the file's URLs.
PostAnswered(l) ==
  /\ At(l, "post") /\ ~Stale(load[l])
  /\ LET task == Bare(load[l])
     IN Now(l, IF task.stage = "extended"
                 THEN [task EXCEPT !.at = "ensure", !.stage = "legacy", !.ext = TRUE]
                 ELSE [task EXCEPT !.at = IF l = Player THEN "playing" ELSE "loaded",
                                   !.urls = File(task.track), !.tries = 0, !.stage = "none"])
  /\ IF load[l].stage = "storage" THEN hits' = [hits EXCEPT ![l] = 0] ELSE UNCHANGED hits
  /\ GivesUpIo(l)
  /\ UNCHANGED <<ap, tokens, spare, faults, counters>>

\* Status 401 or 403: storage_resolve asks again, once, with new tokens.
PostRefused(l) ==
  /\ At(l, "post") /\ Stale(load[l])
  /\ Hit({l})
  /\ IF load[l].stage = "storage" /\ ~load[l].again
       THEN Now(l, Authorized([Bare(load[l]) EXCEPT !.again = TRUE])) /\ UNCHANGED io
       ELSE Now(l, PostFailed(load[l])) /\ GivesUpIo(l)
  /\ UNCHANGED <<ap, tokens, spare, faults, counters>>

\* Any other status, no answer, or one that makes no sense.
PostFails(l) ==
  /\ At(l, "post")
  /\ Fault(l)
  /\ Now(l, PostFailed(load[l])) /\ GivesUpIo(l)
  /\ UNCHANGED <<ap, tokens, spare, counters>>

-----------------------------------------------------------------------------
(* The access point.                                                       *)

Ensure(l) ==
  /\ At(l, "ensure") /\ io = None
  /\ \/ ap' = "up" /\ Go(l, "use") /\ NoFault
     \/ /\ ap # "up"
        /\ faults < MaxFaults /\ faults' = faults + 1
        /\ IF load[l].stage = "legacy"
             THEN Now(l, AfterLegacy(load[l], FALSE)) /\ Hit({l})
             ELSE Go(l, "failed") /\ hits' = [hits EXCEPT ![l] = 2]
        /\ UNCHANGED ap
  /\ UNCHANGED <<io, tokens, spare, counters>>

\* fetch_track_metadata_legacy: one request under ap_io_m.
AskLegacy(l) ==
  /\ At(l, "use") /\ load[l].stage = "legacy" /\ io = None
  /\ \/ ap = "up" /\ Now(l, AfterLegacy(load[l], TRUE)) /\ NoFault
     \/ ap = "up" /\ Now(l, AfterLegacy(load[l], FALSE)) /\ Fault(l)
     \/ ap # "up" /\ Now(l, AfterLegacy(load[l], FALSE)) /\ NoFault
  /\ UNCHANGED <<ap, io, tokens, spare, counters>>

TakeIo(l) ==
  /\ At(l, "use") /\ load[l].stage = "source" /\ io = None
  /\ IF ap = "up" THEN Go(l, "key") /\ io' = l ELSE Now(l, SourceFailed(load[l])) /\ UNCHANGED io
  /\ NoFault /\ UNCHANGED <<ap, tokens, spare, counters>>

Keyed(task, id) ==
  Authorized([task EXCEPT !.key = [id |-> id, file |-> File(task.track)], !.stage = "storage"])

\* The key of the chosen file, asked for under the track's identifier, and when
\* that is refused under the one first asked for (the identifier a track is relinked
\* to need not have a key).
AskKey(l) ==
  /\ At(l, "key")
  /\ \/ ap = "up" /\ Now(l, Keyed(load[l], load[l].gid)) /\ NoFault /\ UNCHANGED io
     \/ /\ ap = "up" /\ load[l].uri # load[l].gid
        /\ Go(l, "fallback")
        /\ NoFault /\ UNCHANGED io
     \/ /\ \/ ap # "up" /\ NoFault
           \/ ap = "up" /\ load[l].uri = load[l].gid /\ Fault(l)
        /\ Now(l, SourceFailed(load[l])) /\ io' = None
  /\ UNCHANGED <<ap, tokens, spare, counters>>

AskFallback(l) ==
  /\ At(l, "fallback")
  /\ \/ ap = "up" /\ Now(l, Keyed(load[l], load[l].uri)) /\ NoFault /\ UNCHANGED io
     \/ /\ IF ap = "up" THEN Fault(l) ELSE NoFault
        /\ Now(l, SourceFailed(load[l])) /\ io' = None
  /\ UNCHANGED <<ap, tokens, spare, counters>>

\* reset_ap_only between two attempts: whoever was about to use the access point
\* finds it gone.
Reset(l) ==
  /\ At(l, "reset") /\ io = None
  /\ ap' = "none"
  /\ Hit({k \in Loaders \ {l} : At(k, "use")})
  /\ Now(l, IF load[l].stage = "legacy" THEN Extended(load[l], load[l].gid, 2)
                                        ELSE [load[l] EXCEPT !.at = "ensure", !.tries = 2])
  /\ UNCHANGED <<io, tokens, spare, faults, counters>>

-----------------------------------------------------------------------------
(* The playback thread and the prefetch.                                   *)

\* SpotifyId::from_uri, then the cascade from its start.
Started(uri) ==
  IF uri \in Gids THEN Extended([Idle EXCEPT !.uri = uri], uri, 1)
                  ELSE [Idle EXCEPT !.at = "failed", !.uri = uri]

\* Mutant: whatever was prefetched is taken.
TakeAny(uri) == slot # Idle

\* take_prefetched finds what was loaded for this very URI.
Prefetched(uri) == slot # Idle /\ slot.uri = uri

\* playback_run for a track the host, the end of a track or a skip has started.
Run(uri) ==
  /\ loads < MaxLoads /\ loads' = loads + 1
  /\ hits' = [hits EXCEPT ![Player] = 0]
  /\ IF uri \in Gids /\ Prefetched(uri)
       THEN Now(Player, [slot EXCEPT !.at = "playing", !.uri = uri]) /\ slot' = Idle
       ELSE Now(Player, Started(uri)) /\ UNCHANGED slot
  /\ UNCHANGED <<ap, io, tokens, prefetching, hostToken, faults, kicks, turns>>

Play == At(Player, "idle") /\ \E uri \in Uris : Run(uri)

\* try_advance_after_unplayable: the queue or the context has another track.
SkipUnplayable == At(Player, "unplayable") /\ \E uri \in Uris : Run(uri)

\* The track ends or is stopped; or TrackError says that it could not be loaded.
EndTrack ==
  /\ load[Player].at \in {"playing", "failed", "unplayable"}
  /\ Now(Player, Idle)
  /\ hits' = [hits EXCEPT ![Player] = 0]
  /\ UNCHANGED <<ap, io, tokens, spare, faults, counters>>

\* maybe_kick_prefetch, near the end of a track; the flag is raised here only, by
\* the one playback thread there is.
Kick ==
  /\ At(Player, "playing") /\ ~prefetching
  /\ kicks < MaxKicks /\ kicks' = kicks + 1
  /\ \E uri \in Uris :
       /\ slot.uri # uri
       /\ Now(Helper, Started(uri))
  /\ prefetching' = TRUE
  /\ hits' = [hits EXCEPT ![Helper] = 0]
  /\ UNCHANGED <<ap, io, tokens, slot, hostToken, faults, loads, turns>>

Publish ==
  /\ At(Helper, "loaded")
  /\ slot' = load[Helper]
  /\ prefetching' = FALSE
  /\ Now(Helper, Idle)
  /\ hits' = [hits EXCEPT ![Helper] = 0]
  /\ UNCHANGED <<faults, ap, io, tokens, hostToken, counters>>

\* Mutant: a failed prefetch leaves the flag up.
BailSilently ==
  /\ load[Helper].at \in {"failed", "unplayable"}
  /\ Now(Helper, Idle)
  /\ NoFault /\ UNCHANGED <<ap, io, tokens, spare, counters>>

Bail ==
  /\ load[Helper].at \in {"failed", "unplayable"}
  /\ prefetching' = FALSE
  /\ Now(Helper, Idle)
  /\ hits' = [hits EXCEPT ![Helper] = 0]
  /\ UNCHANGED <<faults, ap, io, tokens, slot, hostToken, counters>>

-----------------------------------------------------------------------------
(* The world.                                                              *)

LoseAp ==
  /\ ap = "up" /\ faults < MaxFaults
  /\ ap' = "dead" /\ faults' = faults + 1
  /\ Hit({l \in Loaders : Loading(l)})
  /\ UNCHANGED <<load, io, tokens, spare, counters>>

Revoked(token) == IF token = "good" THEN "revoked" ELSE token

\* A service no longer takes a token before the time it was granted for.
Revoke ==
  /\ turns < MaxTurns /\ turns' = turns + 1
  /\ \/ /\ client = "good" /\ client' = "revoked" /\ UNCHANGED bearer
        /\ load' = [l \in Loaders |-> [load[l] EXCEPT !.client = Revoked(@), !.renewed = FALSE]]
     \/ /\ bearer = "good" /\ bearer' = "revoked" /\ UNCHANGED client
        /\ load' = [l \in Loaders |-> [load[l] EXCEPT !.bearer = Revoked(@), !.renewed = FALSE]]
  /\ NoFault /\ UNCHANGED <<ap, io, clientBusy, bearerBusy, spare, loads, kicks>>

\* The time of a token has passed: the provider asks for another.
Lapse ==
  /\ turns < MaxTurns /\ turns' = turns + 1
  /\ \/ client # "none" /\ client' = "none" /\ UNCHANGED bearer
     \/ bearer # "none" /\ bearer' = "none" /\ UNCHANGED client
  /\ NoFault /\ UNCHANGED <<load, ap, io, clientBusy, bearerBusy, spare, loads, kicks>>

Step(l) ==
  \/ DropClient(l) \/ DropBearer(l) \/ GetClient(l) \/ AskClient(l) \/ GetBearer(l)
  \/ LoginChallenged(l) \/ Login(l) \/ PostAnswered(l) \/ PostRefused(l) \/ PostFails(l)
  \/ Ensure(l) \/ AskLegacy(l) \/ TakeIo(l) \/ AskKey(l) \/ AskFallback(l) \/ Reset(l)

Next ==
  \/ \E l \in Loaders : Step(l)
  \/ Play \/ SkipUnplayable \/ EndTrack \/ Kick \/ Publish \/ Bail
  \/ LoseAp \/ Revoke \/ Lapse

Spec == Init /\ [][Next]_vars

\* A thread that is not waiting for a mutex goes on: every request has a timeout.
FairSpec ==
  /\ Spec
  /\ \A l \in Loaders : WF_vars(Step(l))
  /\ WF_vars(Publish) /\ WF_vars(Bail)
  /\ WF_vars(EndTrack /\ ~At(Player, "playing"))

-----------------------------------------------------------------------------
(* Properties.                                                             *)

Versions(gid) == [from : Services, gid : {gid}]
AlternativesOf(uri) == UNION {ToSet(Metadata(t).alts) : t \in Versions(uri)}

\* Whatever plays, freshly loaded or prefetched long before, is the track that was
\* asked for or one of its alternatives, and the key and the URLs are those of the
\* one file chosen from that track's metadata.
SourceMatches ==
  At(Player, "playing") =>
    LET now == load[Player]
    IN /\ now.track.gid \in {now.uri} \cup AlternativesOf(now.uri)
       /\ Playable(now.track)
       /\ now.key.file = File(now.track) /\ now.urls = File(now.track)
       /\ now.key.id \in {now.uri, Relinked(now.track, now.track.gid)}

\* A request that is repeated with renewed tokens carries none the services had
\* refused before, whatever the other loader puts into the providers meanwhile
\* (storage_resolve.cpp:47, "force_refresh").
RetryRenews ==
  \A l \in Loaders : At(l, "post") /\ Forced(load[l]) /\ load[l].renewed => ~Stale(load[l])

\* Both services agree on the track and its alternatives, one of which can be played.
Agreed(uri) ==
  /\ uri \in Gids
  /\ \A t, u \in Versions(uri) : Metadata(t).alts = Metadata(u).alts
  /\ \A gid \in {uri} \cup AlternativesOf(uri) :
       \A t, u \in Versions(gid) : Playable(t) = Playable(u)
  /\ \E gid \in {uri} \cup AlternativesOf(uri) : \A t \in Versions(gid) : Playable(t)

\* A load that meets no more than one fault succeeds: a failed request, a lost
\* connection, a refused token or a reset by the other loader is made good by the
\* other service or the second attempt.  (A reconnect that fails counts for two:
\* resolve_audio_source_with_retry gives up at once, session.cpp:1198.)
SurvivesOneFault ==
  \A l \in Loaders :
    load[l].at \in {"failed", "unplayable"} /\ Agreed(load[l].uri) => hits[l] = 2

\* Every load comes to an end, whoever holds the access point and the providers,
\* and a prefetch that is over makes room for the next.
LoadsEnd ==
  []<>(~Loading(Player) /\ ~Loading(Helper) /\ ~prefetching)
=============================================================================
