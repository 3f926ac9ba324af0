---------------------------- MODULE ContextState ----------------------------
(***************************************************************************)
(* The playback context (playlist, album) of the Connect device,           *)
(* src/connect/context_state.cpp: the resolved track list, the current     *)
(* position, the options and the shuffle order.                            *)
(*                                                                         *)
(* Every method runs under m_, so each is one step, but for two calls that *)
(* take m_ several times: resolve_skip_to, and the callers in              *)
(* spirc_device.cpp that read options() before apply_playback_order.  The  *)
(* dealer reader, the resolver and autoplay workers and the host's threads *)
(* run between those acquisitions.                                         *)
(*                                                                         *)
(* Indices count from 1: index is current_index_ + 1.                      *)
(***************************************************************************)
EXTENDS Integers, Sequences, FiniteSets

CONSTANTS
  Tracks,         \* ProvidedTracks: [uri, uid], a field "" when absent
  Contexts,       \* context URIs
  Lists,          \* track lists that context-resolve answers with
  Continuations,  \* track lists that autoplay answers with
  CloudOrders,    \* URI lists observed in the cloud's cluster
  Hints,          \* SkipToHints: [uri, uid, at], at = track_index + 1 (0: none)
  MaxTracks       \* bound on the length of the track list

ASSUME ContextAssumption ==
  /\ \A t \in Tracks : DOMAIN t = {"uri", "uid"}
  /\ \A h \in Hints : DOMAIN h = {"uri", "uid", "at"} /\ h.at \in Nat
  /\ "" \notin Contexts
  /\ Lists \cup Continuations \subseteq Seq(Tracks)
  /\ CloudOrders \subseteq Seq({t.uri : t \in Tracks})
  /\ MaxTracks \in Nat

VARIABLES
  context,   \* context_uri_
  tracks,    \* tracks_
  index,     \* current_index_
  hasIndex,  \* has_index_
  options,   \* options_
  order,     \* shuffle_order_
  skip,      \* the resolve_skip_to in progress: where, its hint, the URI matched
  reorder    \* a worker read shuffling_context and will call apply_playback_order

listVars == <<context, tracks, index, hasIndex, options, order>>
callVars == <<skip, reorder>>
vars == <<context, tracks, index, hasIndex, options, order, skip, reorder>>

Options == [shuffle : BOOLEAN, repeat : BOOLEAN, repeatTrack : BOOLEAN]
NoHint  == [uri |-> "", uid |-> "", at |-> 0]
NoSkip  == [at |-> "idle", hint |-> NoHint, match |-> ""]
Uris    == {t.uri : t \in Tracks}

\* Every variable keeps its kind of value.
TypeOK ==
  /\ context \in Contexts \cup {""}
  /\ tracks \in Seq(Tracks)
  /\ index \in Nat \ {0} /\ hasIndex \in BOOLEAN
  /\ options \in Options
  /\ order \in Seq(Nat \ {0})
  /\ skip \in [at : {"idle", "uri", "uid", "index", "read"},
               hint : Hints \cup {NoHint}, match : Uris \cup {""}]
  /\ reorder \in BOOLEAN

Init ==
  /\ context = "" /\ tracks = <<>> /\ index = 1 /\ hasIndex = FALSE
  /\ options = [shuffle |-> FALSE, repeat |-> FALSE, repeatTrack |-> FALSE]
  /\ order = <<>>
  /\ skip = NoSkip /\ reorder = FALSE

-----------------------------------------------------------------------------
(* Playback order.                                                         *)

\* All the ways to play n tracks.
Orders(n) == {p \in [1..n -> 1..n] : \A i, j \in 1..n : p[i] = p[j] => i = j}

\* Mutant: Fisher-Yates over the whole list although a track is playing.
ShufflesUnpinned(ts, at, has) == Orders(Len(ts))

\* The outcomes of rebuild_shuffle_order_locked: a track that is playing comes
\* first.
Shuffles(ts, at, has) ==
  {p \in Orders(Len(ts)) : has /\ at \in 1..Len(ts) => p[1] = at}

Natural(ts) == [i \in 1..Len(ts) |-> i]

\* The order that advance_next, advance_prev, tracks_near_end and snapshot walk.
PlayOrder(ts, opts, ord) ==
  IF opts.shuffle /\ ord # <<>> THEN ord ELSE Natural(ts)

Walk == PlayOrder(tracks, options, order)

\* find_shuffle_pos: one past the end when the index is not there.
Position(walk, at) ==
  IF \E p \in 1..Len(walk) : walk[p] = at
    THEN CHOOSE p \in 1..Len(walk) : walk[p] = at
    ELSE Len(walk) + 1

Place == Position(Walk, index)

\* Mutant: the wrap goes to the first track of the list, not of the order.
FollowingListHead(walk, at) ==
  LET p == Position(walk, at) IN IF p >= Len(walk) THEN 1 ELSE walk[p + 1]

\* Where advance_next moves to, and advance_prev, when they may wrap.
Following(walk, at) ==
  LET p == Position(walk, at) IN IF p >= Len(walk) THEN walk[1] ELSE walk[p + 1]

\* Mutant: a step back in the list without the wrap.
PrecedingDecrement(walk, at) == at - 1

Preceding(walk, at) ==
  LET p == Position(walk, at) IN IF p = 1 THEN walk[Len(walk)] ELSE walk[p - 1]

\* The first index of a track with the given field, as a set of at most one.
First(field, value) ==
  {i \in 1..Len(tracks) : /\ tracks[i][field] = value
                          /\ \A j \in 1..i - 1 : tracks[j][field] # value}

-----------------------------------------------------------------------------
(* The context and its tracks.                                             *)

Forget ==
  /\ tracks' = <<>> /\ index' = 1 /\ hasIndex' = FALSE /\ order' = <<>>

\* Another context drops the tracks; the same one keeps everything.
SetContext(uri) ==
  /\ context' = uri
  /\ IF uri # context THEN Forget ELSE UNCHANGED <<tracks, index, hasIndex, order>>
  /\ UNCHANGED <<options, callVars>>

Clear ==
  /\ context' = ""
  /\ Forget
  /\ options' = [shuffle |-> FALSE, repeat |-> FALSE, repeatTrack |-> FALSE]
  /\ UNCHANGED callVars

\* Mutant: set_tracks keeps the index of the list it replaces.
SetTracksKeepIndex(ts) ==
  /\ tracks' = ts
  /\ IF options.shuffle THEN order' \in Shuffles(ts, 1, FALSE) ELSE order' = <<>>
  /\ UNCHANGED <<context, index, hasIndex, options, callVars>>

\* The resolver's result replaces the list; nothing is current until placed.
SetTracks(ts) ==
  /\ tracks' = ts
  /\ index' = 1 /\ hasIndex' = FALSE
  /\ IF options.shuffle THEN order' \in Shuffles(ts, 1, FALSE) ELSE order' = <<>>
  /\ UNCHANGED <<context, options, callVars>>

\* What append_tracks keeps of a continuation: tracks with a URI not met before.
Fresh(new) ==
  \A i \in 1..Len(new) :
    /\ new[i].uri # ""
    /\ \A j \in 1..Len(tracks) : tracks[j].uri # new[i].uri
    /\ \A j \in 1..i - 1 : new[j].uri # new[i].uri

\* Mutant: an append shuffles the whole list again.
AppendReshuffles(new) ==
  /\ Len(tracks) + Len(new) <= MaxTracks /\ Fresh(new)
  /\ tracks' = tracks \o new
  /\ IF options.shuffle THEN order' \in Shuffles(tracks', index, hasIndex)
                        ELSE UNCHANGED order
  /\ UNCHANGED <<context, index, hasIndex, options, callVars>>

\* append_tracks.  While shuffling, the new tracks come last, shuffled among
\* themselves.
AppendTracks(new) ==
  /\ Len(tracks) + Len(new) <= MaxTracks /\ Fresh(new)
  /\ tracks' = tracks \o new
  /\ IF ~options.shuffle THEN UNCHANGED order
     ELSE IF order = <<>> THEN order' \in Shuffles(tracks', index, hasIndex)
     ELSE \E p \in Orders(Len(new)) :
            order' = order \o [i \in 1..Len(new) |-> Len(tracks) + p[i]]
  /\ UNCHANGED <<context, index, hasIndex, options, callVars>>

SetOptions(o) ==
  /\ options' = o
  /\ IF o.shuffle = options.shuffle THEN UNCHANGED order
     ELSE IF o.shuffle THEN order' \in Shuffles(tracks, index, hasIndex)
     ELSE order' = <<>>
  /\ UNCHANGED <<context, tracks, index, hasIndex, callVars>>

-----------------------------------------------------------------------------
(* The position.                                                           *)

MoveTo(i) ==
  /\ index' = i /\ hasIndex' = TRUE
  /\ UNCHANGED <<context, tracks, options>>

SetCurrentTrackUri(uri) ==
  /\ \E i \in First("uri", uri) : MoveTo(i)
  /\ UNCHANGED <<order, callVars>>

\* order with the track to avoid exchanged for its successor, if it leads.
Avoiding(ord, avoid) ==
  IF Len(ord) > 1 /\ ord[1] = avoid
    THEN [ord EXCEPT ![1] = ord[2], ![2] = ord[1]] ELSE ord

StartContextPlayback(avoid) ==
  /\ tracks # <<>>
  /\ IF options.shuffle
       THEN /\ IF order = <<>>
                 THEN \E p \in Shuffles(tracks, index, hasIndex) :
                        order' = Avoiding(p, avoid)
                 ELSE order' = Avoiding(order, avoid)
            /\ MoveTo(order'[1])
       ELSE MoveTo(1) /\ UNCHANGED order
  /\ UNCHANGED callVars

Moving(ignoreRepeat) ==
  hasIndex /\ tracks # <<>> /\ (~options.repeatTrack \/ ignoreRepeat)

\* advance_next and advance_prev, when they move: to return false, or to stay
\* on a repeated track, changes nothing.
AdvanceNext(forceWrap, ignoreRepeat) ==
  /\ Moving(ignoreRepeat)
  /\ Place >= Len(Walk) => options.repeat \/ forceWrap
  /\ index' = Following(Walk, index)
  /\ UNCHANGED <<context, tracks, hasIndex, options, order, callVars>>

AdvancePrev(ignoreRepeat) ==
  /\ Moving(ignoreRepeat)
  /\ Place = 1 => options.repeat
  /\ index' = Preceding(Walk, index)
  /\ UNCHANGED <<context, tracks, hasIndex, options, order, callVars>>

-----------------------------------------------------------------------------
(* resolve_skip_to: up to three searches, then the read of the match, each *)
(* under an m_ of its own.                                                 *)

SkipTo(hint) ==
  /\ skip.at = "idle"
  /\ skip' = [at |-> "uri", hint |-> hint, match |-> ""]
  /\ UNCHANGED <<listVars, reorder>>

\* The indices that the search in progress matches.
Matches ==
  CASE skip.at = "uri"   -> IF skip.hint.uri = "" THEN {} ELSE First("uri", skip.hint.uri)
    [] skip.at = "uid"   -> IF skip.hint.uid = "" THEN {} ELSE First("uid", skip.hint.uid)
    [] skip.at = "index" -> {skip.hint.at} \cap 1..Len(tracks)
    [] OTHER -> {}

\* A search that matches moves there.  A URI is its own answer; the track of a
\* uid or an index still has to be looked up.
SkipMatch ==
  /\ \E i \in Matches :
       /\ MoveTo(i)
       /\ skip' = IF skip.at = "uri" THEN NoSkip
                  ELSE [skip EXCEPT !.at = "read", !.match = tracks[i].uri]
  /\ UNCHANGED <<order, reorder>>

SkipMiss ==
  /\ skip.at \in {"uri", "uid", "index"}
  /\ Matches = {}
  /\ skip' = CASE skip.at = "uri" -> [skip EXCEPT !.at = "uid"]
               [] skip.at = "uid" -> [skip EXCEPT !.at = "index"]
               [] skip.at = "index" -> NoSkip
  /\ UNCHANGED <<listVars, reorder>>

\* tracks_[current_index_].uri: undefined when the list has changed since the
\* match and the index lies outside it.
SkipAnswer == IF index \in 1..Len(tracks) THEN tracks[index].uri ELSE "undefined"

SkipRead ==
  /\ skip.at = "read"
  /\ skip' = NoSkip
  /\ UNCHANGED <<listVars, reorder>>

-----------------------------------------------------------------------------
(* The order observed in the cloud's cluster.                              *)

\* options() in the resolver, before the hint is looked up.
SeeShuffle ==
  /\ ~reorder
  /\ options.shuffle
  /\ reorder' = TRUE
  /\ UNCHANGED <<listVars, skip>>

\* Where the hinted URIs after the current track first name a track.
HintRank(uris, current, i) ==
  LET named(u) == First("uri", u)
      start    == {k \in 1..Len(uris) : current \in named(uris[k])}
      ranks    == {k \in 1..Len(uris) : i \in named(uris[k]) /\ \E s \in start : s < k}
  IN IF i = current THEN {0} ELSE ranks

\* The current track, the hinted ones in the order of the hint, the others in
\* the order of the list.
Hinted(uris, current) ==
  LET n == Len(tracks)
      key(i) == LET r == HintRank(uris, current, i)
                IN IF r = {} THEN Len(uris) + i ELSE CHOOSE k \in r : \A l \in r : k <= l
  IN {p \in Orders(n) : \A a, b \in 1..n : a < b => key(p[a]) < key(p[b])}

\* Mutant: the tracks the hint does not name are left out.
ApplyHintOnly(uri, uris) ==
  /\ reorder
  /\ reorder' = FALSE
  /\ IF uri = "" \/ First("uri", uri) = {}
       THEN UNCHANGED <<index, hasIndex, order>>
       ELSE \E current \in First("uri", uri) :
              /\ index' = current /\ hasIndex' = TRUE
              /\ \E p \in Hinted(uris, current) :
                   order' = SelectSeq(p, LAMBDA i : HintRank(uris, current, i) # {})
  /\ UNCHANGED <<context, tracks, options, skip>>

\* apply_playback_order: no hinted track, no new order; the options are not
\* looked at again.
ApplyPlaybackOrder(uri, uris) ==
  /\ reorder
  /\ reorder' = FALSE
  /\ IF uri = "" \/ First("uri", uri) = {}
       THEN UNCHANGED <<index, hasIndex, order>>
       ELSE \E current \in First("uri", uri) :
              /\ index' = current /\ hasIndex' = TRUE
              /\ IF \E i \in 1..Len(tracks) \ {current} : HintRank(uris, current, i) # {}
                   THEN order' \in Hinted(uris, current)
                   ELSE UNCHANGED order
  /\ UNCHANGED <<context, tracks, options, skip>>

-----------------------------------------------------------------------------

Next ==
  \/ \E uri \in Contexts : SetContext(uri)
  \/ Clear
  \/ \E ts \in Lists : SetTracks(ts)
  \/ \E new \in Continuations : AppendTracks(new)
  \/ \E o \in Options : SetOptions(o)
  \/ \E uri \in Uris : SetCurrentTrackUri(uri)
  \/ \E avoid \in {0, 1} : StartContextPlayback(avoid)
  \/ \E force, ignore \in BOOLEAN : AdvanceNext(force, ignore)
  \/ \E ignore \in BOOLEAN : AdvancePrev(ignore)
  \/ \E hint \in Hints : SkipTo(hint)
  \/ SkipMatch \/ SkipMiss \/ SkipRead
  \/ SeeShuffle
  \/ \E uri \in Uris, uris \in CloudOrders : ApplyPlaybackOrder(uri, uris)

Spec == Init /\ [][Next]_vars

-----------------------------------------------------------------------------
(* What the outside sees: snapshot(), whose windows are wider than the     *)
(* lists modelled here.                                                    *)

HasTracks  == tracks # <<>> /\ hasIndex
Current    == tracks[index]
PrevTracks == [i \in 1..Place - 1 |-> tracks[Walk[i]]]

NextTracks == [i \in 1..Len(Walk) - Place |-> tracks[Walk[Place + i]]]

-----------------------------------------------------------------------------
(* Properties.                                                             *)

\* current_index_ never points outside tracks_ while has_index_ is set: every
\* method indexes the list with it unchecked.
IndexInRange == hasIndex => index \in 1..Len(tracks)

\* While shuffling, shuffle_order_ plays each track of the list exactly once,
\* through appended continuations, cloud orders and toggled options.
OrderComplete == options.shuffle => order \in Orders(Len(tracks))

\* With the context on repeat, skipping next plays every track once before it
\* is back at the current one: no track is lost to the shuffle or to the wrap.
RoundTrip ==
  HasTracks =>
    LET walked[n \in 0..Len(tracks)] ==
          IF n = 0 THEN index ELSE Following(Walk, walked[n - 1])
    IN /\ {walked[n] : n \in 1..Len(tracks)} = 1..Len(tracks)
       /\ walked[Len(tracks)] = index

\* append_tracks adds "without resetting the index": what plays, what was
\* played and what was announced as next stays, the continuation comes after.
AppendKeepsPlace ==
  [][\A new \in Continuations :
       AppendTracks(new) /\ HasTracks =>
         /\ Current' = Current /\ PrevTracks' = PrevTracks
         /\ Len(NextTracks') = Len(NextTracks) + Len(new)
         /\ \A i \in 1..Len(NextTracks) : NextTracks'[i] = NextTracks[i]]_vars

\* Toggling shuffle never changes the track that plays, nor does turning it on
\* "make it look like a previous track" (rebuild_shuffle_order_locked).
ToggleKeepsTrack ==
  [][options'.shuffle # options.shuffle /\ HasTracks /\ HasTracks' =>
       /\ Current' = Current
       /\ options'.shuffle => PrevTracks' = <<>>]_vars
=============================================================================
