---------------------------- MODULE Loading_proofs ----------------------------
(***************************************************************************)
(* Proofs about Loading for any catalogue, any identifiers and any bounds. *)
(*                                                                         *)
(* None of the properties is inductive.  What plays is right because every *)
(* place of the cascade knows whose identifier, track and file it has in   *)
(* hand (Fits); a repeated request carries new tokens because neither the  *)
(* loader nor the providers hold a refused one since it dropped them, the  *)
(* other loader's included (Renews); and a load that failed met two faults *)
(* because the place it is at tells how many it has met, one more when its *)
(* access point is gone, and which tracks it has turned down (Spends).     *)
(***************************************************************************)
EXTENDS Loading, TLAPS

-----------------------------------------------------------------------------
(* The inductive invariant.                                                *)

Waiting ==
  {"dropclient", "dropbearer", "client", "askclient", "answer", "bearer", "login", "post"}
Done == {"loaded", "playing"}

\* Which request a loader is about, by the place it has come to.
Staged(task) ==
  /\ task.at \in Waiting => task.stage \in {"extended", "storage"}
  /\ task.at \in {"ensure", "use", "reset"} => task.stage \in {"legacy", "source"}
  /\ task.at \in {"key", "fallback"} => task.stage = "source"
  /\ task.at \in Done \cup {"idle"} => task.stage = "none"
  /\ task.stage # "none" => task.tries \in 1 .. 2
  /\ task.at = "reset" => task.tries = 1
  /\ task.again => task.stage = "storage"

\* The identifier in hand is the one asked for, or the alternative that is next.
Candidate(task) ==
  /\ task.at \notin {"idle", "failed"} => task.uri \in Gids
  /\ task.alt > 0 => /\ task.primary \in Services /\ task.uri \in Gids
                     /\ task.alt <= Len(Catalogue[task.primary][task.uri].alts)
  /\ task.stage \in Services =>
       task.gid = (IF task.alt = 0 THEN task.uri
                   ELSE Catalogue[task.primary][task.uri].alts[task.alt])
  /\ task.stage \notin Services => task.alt = 0

\* A track that has been chosen can be played and belongs to what was asked for, and
\* what has been fetched for it is for the one file chosen from its metadata.
Sourced(task) ==
  /\ task.stage \in {"source", "storage"} \/ task.at \in Done =>
       /\ task.uri \in Gids /\ task.track \in Track /\ Playable(task.track)
       /\ task.track.gid \in {task.uri} \cup AlternativesOf(task.uri)
       /\ task.gid = Relinked(task.track, task.track.gid)
  /\ task.stage = "storage" \/ task.at \in Done =>
       task.key.file = File(task.track) /\ task.key.id \in {task.uri, task.gid}
  /\ task.at \in Done => task.urls = File(task.track)

Fits(task) == task \in Load /\ Staged(task) /\ Candidate(task) /\ Sourced(task)

\* No token is in hand.
Clean(task) ==
  task.client = "none" /\ task.bearer = "none" /\ task.posts = 0 /\ ~task.renewed

\* Tokens are in hand only on the way to the request; and while nothing has been
\* revoked since they were dropped, neither in hand nor in the providers (client and
\* bearer, c and b here) is one that has been.
Renews(task, c, b) ==
  /\ task.client # "none" => task.at \in {"bearer", "login", "post"}
  /\ task.bearer # "none" => task.at = "post"
  /\ task.posts > 0 => task.at = "login"
  /\ task.renewed => /\ task.at \in Waiting \ {"dropclient"}
                     /\ "revoked" \notin {c, task.client, task.bearer}
                     /\ task.at # "dropbearer" => b # "revoked"

\* The access point is taken from the key to the last byte of the answer.
UsesIo(task) == task.at \in {"key", "fallback"} \/ task.stage = "storage"

\* The faults a load must have met to be where it is.
Spent(task) ==
  IF task.stage \in Services
    THEN IF task.tries = 2 \/ task.at = "reset" THEN 2
         ELSE IF task.stage = "legacy" /\ ~task.ext THEN 1 ELSE 0
    ELSE IF task.stage = "source" THEN IF task.at = "reset" THEN 1 ELSE task.tries - 1
    ELSE IF task.stage = "storage" THEN IF task.again THEN task.tries ELSE task.tries - 1
    ELSE 0

Unplayable(gid) == \A t \in Versions(gid) : ~Playable(t)

\* The track asked for and its first n alternatives cannot be played.
TurnedDown(task, n) ==
  /\ Unplayable(task.uri)
  /\ \A k \in 1 .. n : Unplayable(Catalogue[task.primary][task.uri].alts[k])

\* A load has met n faults.  One whose access point is gone under its hands has met
\* one more than its place tells, one that has failed two, and one that has met fewer
\* has turned down every track before the one it is at.
Spends(task, n, access) ==
  /\ n >= Spent(task)
  /\ task.at \in {"use", "key", "fallback"} /\ access # "up" => n = 2 \/ n > Spent(task)
  /\ task.at = "failed" /\ task.uri \in Gids => n = 2
  /\ task.at = "unplayable" /\ Agreed(task.uri) => n = 2
  /\ n < 2 /\ Agreed(task.uri) /\ task.alt > 0 => TurnedDown(task, task.alt - 1)

Sorted == \A l \in Loaders : Fits(load[l])
Renewals == \A l \in Loaders : Renews(load[l], client, bearer)
Shelf == Fits(slot) /\ Clean(slot) /\ (slot # Idle => slot.at = "loaded")
IoHeld == \A l \in Loaders : UsesIo(load[l]) => io = l
Spending == \A l \in Loaders : Spends(load[l], hits[l], ap)

IInv == TypeOK /\ Sorted /\ Renewals /\ Shelf /\ IoHeld /\ Spending

-----------------------------------------------------------------------------
(* Records of a load.                                                      *)

Fields ==
  {"at", "stage", "uri", "gid", "tries", "again", "ext", "alt", "primary", "track", "key",
   "urls", "client", "bearer", "posts", "renewed"}
Same(new, old, changed) == \A f \in Fields \ changed : new[f] = old[f]
Shaped(new) ==
  new = [at |-> new.at, stage |-> new.stage, uri |-> new.uri, gid |-> new.gid,
         tries |-> new.tries, again |-> new.again, ext |-> new.ext, alt |-> new.alt,
         primary |-> new.primary, track |-> new.track, key |-> new.key, urls |-> new.urls,
         client |-> new.client, bearer |-> new.bearer, posts |-> new.posts,
         renewed |-> new.renewed]
Typed(new) ==
  /\ new.at \in Places /\ new.stage \in Services \cup {"source", "storage", "none"}
  /\ new.uri \in Uris \cup {None} /\ new.gid \in Gids \cup {None}
  /\ new.tries \in 0 .. 2 /\ new.again \in BOOLEAN /\ new.ext \in BOOLEAN
  /\ new.alt \in Nat /\ new.primary \in Services \cup {"none"}
  /\ new.track \in Track \cup {NoTrack} /\ new.key \in [id : Gids, file : Files] \cup {NoKey}
  /\ new.urls \in Files \cup {NoFile}
  /\ new.client \in Token /\ new.bearer \in Token /\ new.posts \in 0 .. 3
  /\ new.renewed \in BOOLEAN

\* A load is a record whose fields have their types.
LEMMA LoadFields ==
  ASSUME NEW new
  PROVE  new \in Load <=> Shaped(new) /\ Typed(new)
<1>1. new \in Load => Shaped(new) /\ Typed(new)
  BY DEF Load, Shaped, Typed
<1>2. Shaped(new) /\ Typed(new) => new \in Load
  BY DEF Load, Shaped, Typed
<1> QED
  BY <1>1, <1>2

\* So is one that differs from a load in fields that have theirs.
LEMMA Retyped ==
  ASSUME NEW task \in Load, NEW new, NEW changed, Shaped(new), Same(new, task, changed),
         "at" \in changed => new.at \in Places,
         "stage" \in changed => new.stage \in Services \cup {"source", "storage", "none"},
         "uri" \in changed => new.uri \in Uris \cup {None},
         "gid" \in changed => new.gid \in Gids \cup {None},
         "tries" \in changed => new.tries \in 0 .. 2,
         "again" \in changed => new.again \in BOOLEAN,
         "ext" \in changed => new.ext \in BOOLEAN,
         "alt" \in changed => new.alt \in Nat,
         "primary" \in changed => new.primary \in Services \cup {"none"},
         "track" \in changed => new.track \in Track \cup {NoTrack},
         "key" \in changed => new.key \in [id : Gids, file : Files] \cup {NoKey},
         "urls" \in changed => new.urls \in Files \cup {NoFile},
         "client" \in changed => new.client \in Token,
         "bearer" \in changed => new.bearer \in Token,
         "posts" \in changed => new.posts \in 0 .. 3,
         "renewed" \in changed => new.renewed \in BOOLEAN
  PROVE  new \in Load
<1>1. Typed(task)
  BY LoadFields
<1>2. /\ new.at \in Places /\ new.stage \in Services \cup {"source", "storage", "none"}
      /\ new.uri \in Uris \cup {None} /\ new.gid \in Gids \cup {None}
  BY <1>1 DEF Typed, Same, Fields
<1>3. /\ new.tries \in 0 .. 2 /\ new.again \in BOOLEAN /\ new.ext \in BOOLEAN
      /\ new.alt \in Nat /\ new.primary \in Services \cup {"none"}
  BY <1>1 DEF Typed, Same, Fields
<1>4. /\ new.track \in Track \cup {NoTrack} /\ new.urls \in Files \cup {NoFile}
      /\ new.key \in [id : Gids, file : Files] \cup {NoKey}
  BY <1>1 DEF Typed, Same, Fields
<1>5. /\ new.client \in Token /\ new.bearer \in Token /\ new.posts \in 0 .. 3
      /\ new.renewed \in BOOLEAN
  BY <1>1 DEF Typed, Same, Fields
<1> QED
  BY <1>2, <1>3, <1>4, <1>5, LoadFields DEF Typed

\* The types of the fields of a load.
LEMMA LoadTypes ==
  ASSUME NEW task \in Load
  PROVE  /\ task.at \in Places /\ task.uri \in Uris \cup {None} /\ task.gid \in Gids \cup {None}
         /\ task.tries \in 0 .. 2 /\ task.again \in BOOLEAN /\ task.ext \in BOOLEAN
         /\ task.alt \in Nat /\ task.client \in Token /\ task.bearer \in Token
         /\ task.posts \in 0 .. 3 /\ task.renewed \in BOOLEAN
         /\ task.stage \in Services \cup {"source", "storage", "none"}
BY DEF Load

\* Nothing has been loaded yet.
LEMMA IdleFits ==
  Fits(Idle) /\ Clean(Idle) /\ Spent(Idle) = 0 /\ ~UsesIo(Idle) /\ Idle.at = "idle"
  /\ Idle.alt = 0 /\ Idle.stage = "none" /\ ~Idle.again
<1>1. Idle \in Load
  BY DEF Idle, Load, Token, Places
<1> QED
  BY <1>1
  DEF Idle, Fits, Staged, Candidate, Sourced, Clean, Spent, UsesIo, Done, Waiting

-----------------------------------------------------------------------------
(* The catalogue.                                                          *)

\* The types of what a service says of a track.
LEMMA MetadataTypes ==
  ASSUME NEW track \in Track
  PROVE  /\ Metadata(track).formats \subseteq Formats
         /\ Metadata(track).gid \in Gids \cup {None}
         /\ Metadata(track).alts \in Seq(Gids)
BY LoadingAssumption DEF Metadata, Track

\* The alternatives a service lists are tracks.
LEMMA AltsType ==
  ASSUME NEW s \in Services, NEW gid \in Gids
  PROVE  /\ Catalogue[s][gid].alts \in Seq(Gids) /\ Len(Catalogue[s][gid].alts) \in Nat
         /\ \A k \in 1 .. Len(Catalogue[s][gid].alts) : Catalogue[s][gid].alts[k] \in Gids
<1>1. Catalogue[s][gid].alts \in Seq(Gids)
  BY LoadingAssumption
<1> QED
  BY <1>1

\* The chosen format of a track that can be played is one that can be decoded.
LEMMA ChosenDecodes ==
  ASSUME NEW track \in Track, Playable(track)
  PROVE  Chosen(track) \in 0 .. 2
<1> DEFINE order == <<Prefer, 1, 2, 0>>
           Test(f) == f \in Metadata(track).formats
           I == {i \in 1 .. 4 : Test(order[i])}
<1>1. Len(order) = 4 /\ \A i \in 1 .. 4 : order[i] \in 0 .. 2
  BY LoadingAssumption
<1>2. PICK f \in 0 .. 2 : Test(f)
  BY DEF Playable
<1>3. I # {} /\ I \in SUBSET (1 .. 4)
  <2>1. f \in {order[2], order[3], order[4]}
    OBVIOUS
  <2> QED
    BY <2>1, <1>2
<1>4. PICK i \in I : \A j \in I : i <= j
  <2> HIDE DEF I
  <2>1. PICK k \in I : TRUE
    BY <1>3
  <2>2. CASE 1 \in I
    BY <1>3, <2>2
  <2>3. CASE 1 \notin I /\ 2 \in I
    BY <1>3, <2>3
  <2>4. CASE 1 \notin I /\ 2 \notin I /\ 3 \in I
    BY <1>3, <2>4
  <2>5. CASE 1 \notin I /\ 2 \notin I /\ 3 \notin I
    BY <1>3, <2>1, <2>5
  <2> QED
    BY <2>2, <2>3, <2>4, <2>5
<1>5. Min(I) \in I
  <2> HIDE DEF I
  <2> QED
    BY <1>4 DEF Min
<1>6. SelectInSeq(order, Test) = Min(I)
  BY <1>1, <1>3 DEF SelectInSeq
<1>7. Chosen(track) = order[SelectInSeq(order, Test)]
  BY DEF Chosen
<1> QED
  BY <1>1, <1>5, <1>6, <1>7

\* The file chosen of a track that can be played is a file.
LEMMA FileType ==
  ASSUME NEW track \in Track, Playable(track)
  PROVE  File(track) \in Files
<1>1. track.gid \in Gids
  BY DEF Track
<1> QED
  BY <1>1, ChosenDecodes DEF File, Files

\* What a service lists is an alternative.
LEMMA AlternativeIn ==
  ASSUME NEW s \in Services, NEW uri \in Gids, NEW k \in 1 .. Len(Catalogue[s][uri].alts)
  PROVE  Catalogue[s][uri].alts[k] \in AlternativesOf(uri)
<1>1. [from |-> s, gid |-> uri] \in Versions(uri)
  BY DEF Versions
<1>2. Metadata([from |-> s, gid |-> uri]).alts = Catalogue[s][uri].alts
  BY DEF Metadata
<1>3. k \in DOMAIN Catalogue[s][uri].alts
  BY AltsType
<1>4. Catalogue[s][uri].alts[k] \in ToSet(Metadata([from |-> s, gid |-> uri]).alts)
  BY <1>2, <1>3 DEF ToSet
<1> QED
  BY <1>1, <1>4 DEF AlternativesOf

\* The candidate in hand is the track asked for or one of its alternatives.
LEMMA CandidateBelongs ==
  ASSUME NEW task \in Load, Candidate(task), task.stage \in Services, task.uri \in Gids
  PROVE  task.gid \in Gids /\ task.gid \in {task.uri} \cup AlternativesOf(task.uri)
<1>1. CASE task.alt = 0
  BY <1>1 DEF Candidate
<1>2. CASE task.alt # 0
  <2>1. task.alt \in Nat
    BY LoadTypes
  <2>2. /\ task.primary \in Services
        /\ task.alt \in 1 .. Len(Catalogue[task.primary][task.uri].alts)
        /\ task.gid = Catalogue[task.primary][task.uri].alts[task.alt]
    BY <1>2, <2>1, AltsType DEF Candidate
  <2> QED
    BY <2>2, AltsType, AlternativeIn
<1> QED
  BY <1>1, <1>2

\* Where the services agree, a track one of them cannot play neither can.
LEMMA AgreedUnplayable ==
  ASSUME NEW uri, Agreed(uri), NEW gid \in {uri} \cup AlternativesOf(uri), NEW s \in Services,
         ~Playable([from |-> s, gid |-> gid])
  PROVE  Unplayable(gid)
<1>1. [from |-> s, gid |-> gid] \in Versions(gid)
  BY DEF Versions
<1> QED
  BY <1>1 DEF Agreed, Unplayable

\* They do not agree on a track none of whose alternatives can be played.
LEMMA AgreedPlays ==
  ASSUME NEW uri \in Gids, Agreed(uri), NEW s \in Services, Unplayable(uri),
         \A k \in 1 .. Len(Catalogue[s][uri].alts) : Unplayable(Catalogue[s][uri].alts[k])
  PROVE  FALSE
<1>1. PICK gid \in {uri} \cup AlternativesOf(uri) : \A t \in Versions(gid) : Playable(t)
  BY DEF Agreed
<1>2. [from |-> s, gid |-> gid] \in Versions(gid) /\ [from |-> s, gid |-> uri] \in Versions(uri)
  BY DEF Versions
<1>3. ~Unplayable(gid)
  BY <1>1, <1>2 DEF Unplayable
<1>4. PICK t \in Versions(uri) : gid \in ToSet(Metadata(t).alts)
  BY <1>1, <1>3 DEF AlternativesOf
<1>5. Metadata(t).alts = Metadata([from |-> s, gid |-> uri]).alts
  BY <1>2, <1>4 DEF Agreed
<1>6. Metadata([from |-> s, gid |-> uri]).alts = Catalogue[s][uri].alts
  BY DEF Metadata
<1>7. PICK k \in DOMAIN Catalogue[s][uri].alts : gid = Catalogue[s][uri].alts[k]
  BY <1>4, <1>5, <1>6 DEF ToSet
<1>8. k \in 1 .. Len(Catalogue[s][uri].alts)
  BY <1>7, AltsType
<1> QED
  BY <1>3, <1>7, <1>8

-----------------------------------------------------------------------------
(* What the operators of the cascade make of a load.                       *)

\* The headers are asked for next.
LEMMA AuthorizedIs ==
  ASSUME NEW task \in Load, NEW new, new = Authorized(task)
  PROVE  /\ new \in Load /\ Same(new, task, {"at"})
         /\ new.at \in {"post", "dropclient", "client"}
<1>1. Shaped(new) /\ Same(new, task, {"at"})
  BY DEF Authorized, Shaped, Same, Fields, Load
<1>2. new.at \in {"post", "dropclient", "client"}
  BY DEF Authorized, Load
<1>3. new \in Load
  BY <1>1, <1>2, Retyped DEF Places
<1> QED
  BY <1>1, <1>2, <1>3

\* What changes in a load that turns to the first service.
LEMMA ExtendedIs ==
  ASSUME NEW task \in Load, NEW gid \in Gids, NEW tries \in 1 .. 2, NEW new,
         new = Extended(task, gid, tries)
  PROVE  /\ new \in Load /\ Same(new, task, {"at", "stage", "gid", "tries", "ext"})
         /\ new.at \in {"post", "dropclient", "client"}
         /\ new.stage = "extended" /\ new.gid = gid /\ new.tries = tries /\ ~new.ext
<1>1. PICK mid :
        mid = [task EXCEPT !.stage = "extended", !.gid = gid, !.tries = tries, !.ext = FALSE]
  OBVIOUS
<1>2. Shaped(mid) /\ Same(mid, task, {"stage", "gid", "tries", "ext"})
  BY <1>1 DEF Shaped, Same, Fields, Load
<1>3. mid.stage = "extended" /\ mid.gid = gid /\ mid.tries = tries /\ mid.ext = FALSE
  BY <1>1 DEF Load
<1>4. mid \in Load
  <2>1. mid.ext \in BOOLEAN
    BY <1>3
  <2> QED
    BY <1>2, <1>3, <2>1, Retyped DEF Services
<1>5. new = Authorized(mid)
  BY <1>1 DEF Extended
<1> QED
  BY <1>2, <1>3, <1>4, <1>5, AuthorizedIs DEF Same, Fields

\* gid is the candidate a load has come to, and k of the alternatives before it have
\* been turned down if the load has met fewer than two faults.
Asked(task, gid) ==
  /\ task.uri \in Gids
  /\ task.alt > 0 => /\ task.primary \in Services
                     /\ task.alt <= Len(Catalogue[task.primary][task.uri].alts)
  /\ gid = (IF task.alt = 0 THEN task.uri
            ELSE Catalogue[task.primary][task.uri].alts[task.alt])
Narrowed(task, n, k) == n < 2 /\ Agreed(task.uri) => TurnedDown(task, k)

\* A load that asks for a candidate's metadata, with the faults it has met.
LEMMA ExtendedFits ==
  ASSUME NEW task \in Load, NEW gid \in Gids, NEW tries \in 1 .. 2, NEW new,
         new = Extended(task, gid, tries), NEW n \in 0 .. 2, NEW access,
         Asked(task, gid), Clean(task), ~task.again, tries = 2 => n = 2,
         task.alt > 0 => Narrowed(task, n, task.alt - 1)
  PROVE  /\ Fits(new) /\ Clean(new) /\ ~UsesIo(new) /\ Spends(new, n, access)
         /\ new.at \in Waiting
<1>1. /\ new \in Load /\ Same(new, task, {"at", "stage", "gid", "tries", "ext"})
      /\ new.at \in {"post", "dropclient", "client"}
      /\ new.stage = "extended" /\ new.gid = gid /\ new.tries = tries /\ ~new.ext
  BY ExtendedIs
<1>2. /\ new.uri = task.uri /\ new.alt = task.alt /\ new.primary = task.primary
      /\ new.again = task.again /\ new.client = task.client /\ new.bearer = task.bearer
      /\ new.posts = task.posts /\ new.renewed = task.renewed
  BY <1>1 DEF Same, Fields
<1>3. Staged(new)
  <2>1. /\ new.at \in {"post", "dropclient", "client"} /\ new.stage = "extended"
        /\ new.tries \in 1 .. 2 /\ ~new.again
    BY <1>1, <1>2
  <2> QED
    BY <2>1 DEF Staged, Done
<1>4. Candidate(new)
  <2>1. /\ new.stage \in Services /\ new.uri = task.uri /\ new.alt = task.alt
        /\ new.primary = task.primary /\ new.gid = gid
    BY <1>1, <1>2 DEF Services
  <2> QED
    BY <2>1 DEF Asked, Candidate
<1>5. Sourced(new)
  BY <1>1 DEF Sourced, Done
<1>6. Clean(new) /\ ~UsesIo(new)
  BY <1>1, <1>2 DEF Clean, UsesIo
<1>7. Spent(new) = IF tries = 2 THEN 2 ELSE 0
  BY <1>1 DEF Spent, Services
<1>8. Spends(new, n, access)
  <2>1. n >= Spent(new)
    BY <1>7
  <2>2. n < 2 /\ Agreed(new.uri) /\ new.alt > 0 => TurnedDown(new, new.alt - 1)
    BY <1>2 DEF Narrowed, TurnedDown
  <2> QED
    BY <1>1, <2>1, <2>2 DEF Spends
<1> QED
  BY <1>1, <1>3, <1>4, <1>5, <1>6, <1>8 DEF Fits, Waiting

\* The next alternative, or none: every track that is agreed on has been turned down
\* then, so the load has met two faults.
LEMMA NextAlternativeFits ==
  ASSUME NEW task \in Load, NEW n \in 0 .. 2, NEW access, NEW new, new = NextAlternative(task),
         Asked(task, task.gid), task.primary \in Services,
         task.alt <= Len(Catalogue[task.primary][task.uri].alts), Clean(task), ~task.again,
         task.stage = "legacy", task.tries \in 1 .. 2, task.at # "reset", n >= Spent(task),
         Narrowed(task, n, task.alt)
  PROVE  Fits(new) /\ Clean(new) /\ ~UsesIo(new) /\ Spends(new, n, access)
<1> DEFINE alts == Catalogue[task.primary][task.uri].alts
<1>0. task.uri \in Gids /\ task.alt \in Nat /\ Len(alts) \in Nat
  BY AltsType, LoadTypes DEF Asked
<1>1. CASE task.alt < Len(alts)
  <2>1. PICK next : next = [task EXCEPT !.alt = @ + 1]
    OBVIOUS
  <2>2. Shaped(next) /\ Same(next, task, {"alt"})
    BY <2>1 DEF Shaped, Same, Fields, Load
  <2>3. next.alt = task.alt + 1
    BY <2>1 DEF Load
  <2>4. next \in Load
    BY <1>0, <2>2, <2>3, Retyped
  <2>5. /\ next.uri = task.uri /\ next.primary = task.primary /\ next.again = task.again
        /\ next.client = task.client /\ next.bearer = task.bearer /\ next.posts = task.posts
        /\ next.renewed = task.renewed
    BY <2>2 DEF Same, Fields
  <2>6. next.alt \in 1 .. Len(alts) /\ next.alt - 1 = task.alt /\ next.alt # 0
    BY <1>0, <1>1, <2>3
  <2>7. alts[next.alt] \in Gids
    BY <1>0, <2>6, AltsType
  <2>8. new = Extended(next, alts[next.alt], 1)
    BY <1>1, <2>1, <2>3 DEF NextAlternative
  <2>9. Clean(next) /\ ~next.again
    BY <2>5 DEF Clean
  <2>10. Narrowed(next, n, next.alt - 1)
    BY <2>5, <2>6 DEF Narrowed, TurnedDown
  <2>11. Asked(next, alts[next.alt])
    BY <1>0, <2>5, <2>6 DEF Asked
  <2> HIDE DEF alts
  <2> QED
    BY <2>4, <2>7, <2>8, <2>9, <2>10, <2>11, ExtendedFits
<1>2. CASE ~(task.alt < Len(alts))
  <2>1. new = [task EXCEPT !.at = "unplayable"]
    BY <1>2 DEF NextAlternative
  <2>2. Shaped(new) /\ Same(new, task, {"at"})
    BY <2>1 DEF Shaped, Same, Fields, Load
  <2>3. new.at = "unplayable"
    BY <2>1 DEF Load
  <2>4. new \in Load
    BY <2>2, <2>3, Retyped DEF Places
  <2>5. /\ new.uri = task.uri /\ new.alt = task.alt /\ new.primary = task.primary
        /\ new.again = task.again /\ new.client = task.client /\ new.bearer = task.bearer
        /\ new.posts = task.posts /\ new.renewed = task.renewed /\ new.stage = task.stage
        /\ new.tries = task.tries /\ new.gid = task.gid /\ new.ext = task.ext
    BY <2>2 DEF Same, Fields
  <2>6. Staged(new)
    BY <2>3, <2>5 DEF Staged, Waiting, Done
  <2>7. Candidate(new)
    BY <2>5 DEF Asked, Candidate, Services
  <2>8. Sourced(new)
    BY <2>3, <2>5 DEF Sourced, Done
  <2>9. Clean(new) /\ ~UsesIo(new)
    BY <2>3, <2>5 DEF Clean, UsesIo
  <2>10. Spent(new) = Spent(task)
    BY <2>3, <2>5 DEF Spent, Services
  <2>11. task.alt = Len(alts)
    BY <1>0, <1>2
  <2>12. ~(n < 2 /\ Agreed(task.uri))
    BY <1>0, <2>11, AgreedPlays DEF Narrowed, TurnedDown
  <2>13. Spends(new, n, access)
    BY <2>3, <2>5, <2>10, <2>12 DEF Spends
  <2> QED
    BY <2>4, <2>6, <2>7, <2>8, <2>9, <2>13 DEF Fits
<1> QED
  BY <1>1, <1>2

\* A load that has the metadata of its candidate from one of the services.
LEMMA ParsedFits ==
  ASSUME NEW task \in Load, NEW n \in 0 .. 2, NEW access, NEW new, NEW s \in Services,
         Staged(task), Candidate(task), Clean(task), task.stage = "legacy",
         task.at \in {"ensure", "use"}, Spends(task, n, access),
         new = Parsed(task, [from |-> s, gid |-> task.gid])
  PROVE  Fits(new) /\ Clean(new) /\ ~UsesIo(new) /\ Spends(new, n, access)
<1>0. /\ task.uri \in Gids /\ task.tries \in 1 .. 2 /\ ~task.again /\ task.stage \in Services
      /\ task.alt \in Nat
  BY LoadTypes DEF Staged, Candidate, Services
<1>1. task.gid \in Gids /\ task.gid \in {task.uri} \cup AlternativesOf(task.uri)
  BY <1>0, CandidateBelongs
<1>2. PICK track : track = [from |-> s, gid |-> task.gid]
  OBVIOUS
<1>3. track \in Track /\ track.gid = task.gid /\ track.from = s
  BY <1>1, <1>2 DEF Track
<1>4. CASE Playable(track)
  <2>1. PICK gid : gid = Relinked(track, task.gid)
    OBVIOUS
  <2>2. gid \in Gids /\ gid = Relinked(track, track.gid)
    BY <1>1, <1>3, <2>1, MetadataTypes DEF Relinked
  <2>3. new = [task EXCEPT !.at = "ensure", !.stage = "source", !.tries = 1, !.ext = FALSE,
                      !.alt = 0, !.primary = "none", !.track = track, !.gid = Relinked(track, @)]
    BY <1>2, <1>4 DEF Parsed
  <2>4. /\ Shaped(new)
        /\ Same(new, task, {"at", "stage", "tries", "ext", "alt", "primary", "track", "gid"})
    BY <2>3 DEF Shaped, Same, Fields, Load
  <2>5. /\ new.at = "ensure" /\ new.stage = "source" /\ new.tries = 1 /\ new.ext = FALSE
        /\ new.alt = 0 /\ new.primary = "none" /\ new.track = track
    BY <2>3, ZenonT(30) DEF Load
  <2>6. new.gid = gid
    BY <2>1, <2>3 DEF Load
  <2>7. new \in Load
    <3>1. new.ext \in BOOLEAN
      BY <2>5
    <3> QED
      BY <1>3, <2>2, <2>4, <2>5, <2>6, <3>1, Retyped DEF Places
  <2>8. /\ new.uri = task.uri /\ new.again = task.again /\ new.client = task.client
        /\ new.bearer = task.bearer /\ new.posts = task.posts /\ new.renewed = task.renewed
    BY <2>4 DEF Same, Fields
  <2>9. Staged(new)
    BY <2>5, <2>8 DEF Staged, Waiting, Done
  <2>10. Candidate(new)
    BY <2>5, <2>8 DEF Candidate, Services
  <2>11. Sourced(new)
    BY <1>0, <1>1, <1>3, <1>4, <2>2, <2>5, <2>6, <2>8 DEF Sourced, Done
  <2>12. Clean(new) /\ ~UsesIo(new)
    BY <2>5, <2>8 DEF Clean, UsesIo
  <2>13. Spent(new) = 0
    BY <2>5 DEF Spent, Services
  <2>14. Spends(new, n, access)
    BY <2>5, <2>13 DEF Spends
  <2> QED
    BY <2>7, <2>9, <2>10, <2>11, <2>12, <2>14 DEF Fits
<1>5. CASE ~Playable(track)
  <2>1. n < 2 /\ Agreed(task.uri) => Unplayable(task.gid)
    BY <1>1, <1>2, <1>5, AgreedUnplayable
  <2>2. n >= Spent(task)
    BY DEF Spends
  <2>3. CASE task.alt = 0
    <3>1. PICK mid : mid = [task EXCEPT !.primary = track.from]
      OBVIOUS
    <3>2. Shaped(mid) /\ Same(mid, task, {"primary"})
      BY <3>1 DEF Shaped, Same, Fields, Load
    <3>3. mid.primary = s
      BY <1>3, <3>1 DEF Load
    <3>4. mid \in Load
      BY <3>2, <3>3, Retyped
    <3>5. /\ mid.uri = task.uri /\ mid.again = task.again /\ mid.client = task.client
          /\ mid.bearer = task.bearer /\ mid.posts = task.posts /\ mid.renewed = task.renewed
          /\ mid.stage = task.stage /\ mid.tries = task.tries /\ mid.gid = task.gid
          /\ mid.at = task.at /\ mid.ext = task.ext /\ mid.alt = task.alt
      BY <3>2 DEF Same, Fields
    <3>6. new = NextAlternative(mid)
      BY <1>2, <1>5, <2>3, <3>1 DEF Parsed
    <3>7. Clean(mid) /\ Spent(mid) = Spent(task)
      BY <3>5 DEF Clean, Spent, Services
    <3>8. task.gid = task.uri
      BY <1>0, <2>3 DEF Candidate
    <3>9. Narrowed(mid, n, mid.alt)
      BY <2>1, <2>3, <3>5, <3>8 DEF Narrowed, TurnedDown
    <3>10. mid.alt <= Len(Catalogue[mid.primary][mid.uri].alts)
      <4>1. mid.alt = 0 /\ mid.uri \in Gids /\ mid.primary \in Services
        BY <1>0, <2>3, <3>3, <3>5
      <4>2. Len(Catalogue[mid.primary][mid.uri].alts) \in Nat
        BY <4>1, AltsType
      <4> QED
        BY <4>1, <4>2
    <3>11. Asked(mid, mid.gid)
      BY <1>0, <2>3, <3>5, <3>8 DEF Asked
    <3> QED
      BY <3>11, <1>0, <2>2, <3>3, <3>4, <3>5, <3>6, <3>7, <3>9, <3>10,
         NextAlternativeFits
  <2>4. CASE task.alt # 0
    <3>1. new = NextAlternative(task)
      BY <1>2, <1>5, <2>4 DEF Parsed
    <3>2. /\ task.primary \in Services
          /\ task.alt <= Len(Catalogue[task.primary][task.uri].alts)
          /\ task.gid = Catalogue[task.primary][task.uri].alts[task.alt]
      BY <1>0, <2>4 DEF Candidate
    <3>3. n < 2 /\ Agreed(task.uri) => TurnedDown(task, task.alt - 1)
      BY <1>0, <2>4 DEF Spends
    <3>4. Narrowed(task, n, task.alt)
      <4>1. \A k \in 1 .. task.alt : k = task.alt \/ k \in 1 .. task.alt - 1
        BY <1>0
      <4> QED
        BY <2>1, <3>2, <3>3, <4>1 DEF Narrowed, TurnedDown
    <3>5. Asked(task, task.gid)
      BY <1>0, <2>4, <3>2 DEF Asked
    <3> QED
      BY <1>0, <2>2, <3>1, <3>2, <3>4, <3>5, NextAlternativeFits
  <2> QED
    BY <2>3, <2>4
<1> QED
  BY <1>4, <1>5

\* A load whose candidate has no metadata has met two faults.
LEMMA MetadataFailedFits ==
  ASSUME NEW task \in Load, NEW access, NEW new,
         Staged(task), Candidate(task), Clean(task), task.stage = "legacy",
         task.at \in {"ensure", "use"}, Spent(task) <= 2, new = MetadataFailed(task)
  PROVE  Fits(new) /\ Clean(new) /\ ~UsesIo(new) /\ Spends(new, 2, access)
<1>0. /\ task.uri \in Gids /\ task.tries \in 1 .. 2 /\ ~task.again /\ task.stage \in Services
      /\ task.alt \in Nat
  BY LoadTypes DEF Staged, Candidate, Services
<1>1. CASE task.alt = 0
  <2>1. new = [task EXCEPT !.at = "failed"]
    BY <1>1 DEF MetadataFailed
  <2>2. Shaped(new) /\ Same(new, task, {"at"})
    BY <2>1 DEF Shaped, Same, Fields, Load
  <2>3. new.at = "failed"
    BY <2>1 DEF Load
  <2>4. new \in Load
    BY <2>2, <2>3, Retyped DEF Places
  <2>5. /\ new.uri = task.uri /\ new.alt = task.alt /\ new.primary = task.primary
        /\ new.again = task.again /\ new.client = task.client /\ new.bearer = task.bearer
        /\ new.posts = task.posts /\ new.renewed = task.renewed /\ new.stage = task.stage
        /\ new.tries = task.tries /\ new.gid = task.gid /\ new.ext = task.ext
    BY <2>2 DEF Same, Fields
  <2>6. Staged(new)
    BY <2>3, <2>5 DEF Staged, Waiting, Done
  <2>7. Candidate(new)
    BY <2>3, <2>5 DEF Candidate
  <2>8. Sourced(new) /\ Clean(new) /\ ~UsesIo(new)
    BY <2>3, <2>5 DEF Sourced, Done, Clean, UsesIo
  <2>9. Spent(new) = Spent(task)
    BY <2>3, <2>5 DEF Spent, Services
  <2> QED
    BY <2>4, <2>6, <2>7, <2>8, <2>9 DEF Fits, Spends
<1>2. CASE task.alt # 0
  <2>1. new = NextAlternative(task)
    BY <1>2 DEF MetadataFailed
  <2>2. /\ task.primary \in Services
        /\ task.alt <= Len(Catalogue[task.primary][task.uri].alts)
        /\ task.gid = Catalogue[task.primary][task.uri].alts[task.alt]
    BY <1>0, <1>2 DEF Candidate
  <2>3. Asked(task, task.gid)
    BY <1>0, <1>2, <2>2 DEF Asked
  <2>4. Narrowed(task, 2, task.alt)
    BY DEF Narrowed
  <2>5. 2 \in 0 .. 2 /\ 2 >= Spent(task) /\ task.at # "reset"
    OBVIOUS
  <2> QED
    BY <1>0, <2>1, <2>2, <2>3, <2>4, <2>5, NextAlternativeFits, Zenon
<1> QED
  BY <1>1, <1>2

\* A load that has heard the second service too.
LEMMA AfterLegacyFits ==
  ASSUME NEW task \in Load, NEW n \in 0 .. 2, NEW access, NEW new, NEW ok \in BOOLEAN,
         Staged(task), Candidate(task), Clean(task), task.stage = "legacy",
         task.at \in {"ensure", "use"}, Spends(task, n, access), new = AfterLegacy(task, ok),
         ~ok => n = 2 \/ n > Spent(task)
  PROVE  Fits(new) /\ Clean(new) /\ ~UsesIo(new) /\ Spends(new, n, access)
<1>0. /\ task.uri \in Gids /\ task.tries \in 1 .. 2 /\ ~task.again /\ task.stage \in Services
      /\ task.ext \in BOOLEAN
  BY LoadTypes DEF Staged, Candidate, Services
<1>1. CASE task.ext
  <2>1. PICK s \in Services : new = Parsed(task, [from |-> s, gid |-> task.gid])
    BY <1>1 DEF AfterLegacy, Services
  <2> QED
    BY <2>1, ParsedFits
<1>2. CASE ~task.ext /\ ok
  <2>1. new = Parsed(task, [from |-> "legacy", gid |-> task.gid])
    BY <1>2 DEF AfterLegacy
  <2> QED
    BY <2>1, ParsedFits DEF Services
<1>3. CASE ~task.ext /\ ~ok /\ task.tries = 1
  <2>0. n = 2
    BY <1>0, <1>3 DEF Spent
  <2>1. new = [task EXCEPT !.at = "reset"]
    BY <1>3 DEF AfterLegacy
  <2>2. Shaped(new) /\ Same(new, task, {"at"})
    BY <2>1 DEF Shaped, Same, Fields, Load
  <2>3. new.at = "reset"
    BY <2>1 DEF Load
  <2>4. new \in Load
    BY <2>2, <2>3, Retyped DEF Places
  <2>5. /\ new.uri = task.uri /\ new.alt = task.alt /\ new.primary = task.primary
        /\ new.again = task.again /\ new.client = task.client /\ new.bearer = task.bearer
        /\ new.posts = task.posts /\ new.renewed = task.renewed /\ new.stage = task.stage
        /\ new.tries = task.tries /\ new.gid = task.gid /\ new.ext = task.ext
    BY <2>2 DEF Same, Fields
  <2>6. Staged(new)
    BY <1>3, <2>3, <2>5 DEF Staged, Waiting, Done
  <2>7. Candidate(new)
    BY <1>0, <2>3, <2>5 DEF Candidate
  <2>8. Sourced(new) /\ Clean(new) /\ ~UsesIo(new)
    BY <2>3, <2>5 DEF Sourced, Done, Clean, UsesIo
  <2>9. Spent(new) = 2
    BY <1>0, <2>3, <2>5 DEF Spent
  <2> QED
    BY <2>0, <2>4, <2>6, <2>7, <2>8, <2>9 DEF Fits, Spends
<1>4. CASE ~task.ext /\ ~ok /\ task.tries # 1
  <2>1. new = MetadataFailed(task)
    BY <1>4 DEF AfterLegacy
  <2>2. Spent(task) = 2
    BY <1>0, <1>4 DEF Spent
  <2>3. n = 2
    BY <2>2 DEF Spends
  <2> QED
    BY <2>1, <2>2, <2>3, MetadataFailedFits
<1> QED
  BY <1>1, <1>2, <1>3, <1>4

-----------------------------------------------------------------------------
(* Requests that fail, and what a load keeps while it waits.               *)

\* A load on its way to the request changes nothing but its place and its tokens.
LEMMA Waits ==
  ASSUME NEW task \in Load, NEW new \in Load, NEW n, NEW access, NEW access2,
         Fits(task), task.at \in Waiting, new.at \in Waiting, Spends(task, n, access),
         Same(new, task, {"at", "client", "bearer", "posts", "renewed"})
  PROVE  Fits(new) /\ Spends(new, n, access2) /\ UsesIo(new) = UsesIo(task)
<1>1. /\ new.uri = task.uri /\ new.alt = task.alt /\ new.primary = task.primary
      /\ new.again = task.again /\ new.stage = task.stage /\ new.tries = task.tries
      /\ new.gid = task.gid /\ new.ext = task.ext /\ new.track = task.track
      /\ new.key = task.key
  BY DEF Same, Fields
<1>2. new.at \notin
        {"idle", "failed", "reset", "unplayable", "key", "fallback", "use", "ensure"} \cup Done
  BY DEF Waiting, Done
<1>3. task.at \notin
        {"idle", "failed", "reset", "unplayable", "key", "fallback", "use", "ensure"} \cup Done
  BY DEF Waiting, Done
<1>4. Staged(new)
  BY <1>1, <1>2 DEF Fits, Staged
<1>5. Candidate(new)
  BY <1>1, <1>3 DEF Fits, Candidate
<1>6. Sourced(new)
  BY <1>1, <1>2 DEF Fits, Sourced
<1>7. Spent(new) = Spent(task)
  BY <1>1, <1>2, <1>3 DEF Spent
<1>8. Spends(new, n, access2)
  BY <1>1, <1>2, <1>7 DEF Spends, TurnedDown
<1>9. UsesIo(new) = UsesIo(task)
  BY <1>1, <1>2, <1>3 DEF UsesIo
<1> QED
  BY <1>4, <1>5, <1>6, <1>8, <1>9 DEF Fits

\* The headers of a request go with it.
LEMMA BareIs ==
  ASSUME NEW task \in Load, NEW new, new = Bare(task)
  PROVE  /\ new \in Load /\ Same(new, task, {"again", "client", "bearer", "posts", "renewed"})
         /\ Clean(new) /\ ~new.again
<1>1. Shaped(new) /\ Same(new, task, {"again", "client", "bearer", "posts", "renewed"})
  BY DEF Bare, Shaped, Same, Fields, Load
<1>2. /\ new.client = "none" /\ new.bearer = "none" /\ new.posts = 0
      /\ new.again = FALSE /\ new.renewed = FALSE
  BY DEF Bare, Load
<1>3. new.again \in BOOLEAN /\ new.renewed \in BOOLEAN
  BY <1>2
<1>4. new \in Load
  BY <1>1, <1>2, <1>3, Retyped DEF Token
<1> QED
  BY <1>1, <1>2, <1>4 DEF Clean

\* A source that could not be had is tried for a second time, or given up with two
\* faults.
LEMMA SourceFailedFits ==
  ASSUME NEW task \in Load, Fits(task), task.stage \in {"source", "storage"},
         NEW n \in 0 .. 2, n >= task.tries, NEW access, NEW new, new = SourceFailed(task)
  PROVE  /\ Fits(new) /\ Clean(new) /\ ~UsesIo(new) /\ Spends(new, n, access)
<1>1. PICK mid : mid = [task EXCEPT !.at = IF task.tries = 1 THEN "reset" ELSE "failed",
                                    !.stage = "source", !.key = NoKey]
  OBVIOUS
<1>2. Shaped(mid) /\ Same(mid, task, {"at", "stage", "key"})
  BY <1>1 DEF Shaped, Same, Fields, Load
<1>3. /\ mid.at = (IF task.tries = 1 THEN "reset" ELSE "failed") /\ mid.stage = "source"
      /\ mid.key = NoKey
  BY <1>1 DEF Load
<1>4. mid \in Load
  BY <1>2, <1>3, Retyped DEF Places
<1>5. new = Bare(mid)
  BY <1>1 DEF SourceFailed
<1>6. /\ new \in Load /\ Same(new, mid, {"again", "client", "bearer", "posts", "renewed"})
      /\ Clean(new) /\ ~new.again
  BY <1>4, <1>5, BareIs
<1>7. /\ new.uri = task.uri /\ new.alt = task.alt /\ new.tries = task.tries
      /\ new.gid = task.gid /\ new.track = task.track
      /\ new.at = (IF task.tries = 1 THEN "reset" ELSE "failed") /\ new.stage = "source"
  BY <1>2, <1>3, <1>6 DEF Same, Fields
<1>8. task.tries \in 1 .. 2 /\ task.alt = 0
  BY DEF Fits, Staged, Candidate, Services
<1>9. Staged(new)
  BY <1>6, <1>7, <1>8 DEF Staged, Waiting, Done
<1>10. Sourced(new)
  BY <1>7 DEF Fits, Sourced, Done
<1>11. Candidate(new)
  BY <1>7 DEF Fits, Sourced, Candidate, Services
<1>12. Spent(new) = 1
  BY <1>7, <1>8 DEF Spent, Services
<1>13. Spends(new, n, access)
  BY <1>7, <1>8, <1>12 DEF Spends
<1> QED
  BY <1>6, <1>7, <1>9, <1>10, <1>11, <1>13 DEF Fits, UsesIo

\* A request that fails costs a fault: the load turns to the other service, or to the
\* second attempt at the source.
LEMMA PostFailedFits ==
  ASSUME NEW task \in Load, Fits(task), task.at \in Waiting, NEW m, NEW n \in 0 .. 2,
         NEW access, NEW access2, Spends(task, m, access), m \in Nat, n = 2 \/ n > m, n >= m,
         NEW new, new = PostFailed(task)
  PROVE  Fits(new) /\ Clean(new) /\ ~UsesIo(new) /\ Spends(new, n, access2)
<1>0. /\ task.stage \in {"extended", "storage"} /\ task.tries \in 1 .. 2 /\ m >= Spent(task)
      /\ task.again \in BOOLEAN /\ task.at # "reset" /\ task.uri \in Gids
  BY LoadTypes DEF Fits, Staged, Candidate, Waiting, Spends
<1>1. CASE task.stage = "storage"
  <2>1. new = SourceFailed(task)
    BY <1>1 DEF PostFailed
  <2>2. Spent(task) = IF task.again THEN task.tries ELSE task.tries - 1
    BY <1>1 DEF Spent, Services
  <2>3. n >= task.tries
    BY <1>0, <2>2
  <2> QED
    BY <1>1, <2>1, <2>3, SourceFailedFits
<1>2. CASE task.stage = "extended"
  <2>1. PICK mid : mid = [task EXCEPT !.at = "ensure", !.stage = "legacy"]
    OBVIOUS
  <2>2. Shaped(mid) /\ Same(mid, task, {"at", "stage"})
    BY <2>1 DEF Shaped, Same, Fields, Load
  <2>3. mid.at = "ensure" /\ mid.stage = "legacy"
    BY <2>1 DEF Load
  <2>4. mid \in Load
    BY <2>2, <2>3, Retyped DEF Places, Services
  <2>5. new = Bare(mid)
    BY <1>2, <2>1 DEF PostFailed
  <2>6. /\ new \in Load /\ Same(new, mid, {"again", "client", "bearer", "posts", "renewed"})
        /\ Clean(new) /\ ~new.again
    BY <2>4, <2>5, BareIs
  <2>7. /\ new.uri = task.uri /\ new.alt = task.alt /\ new.tries = task.tries
        /\ new.gid = task.gid /\ new.primary = task.primary /\ new.ext = task.ext
        /\ new.at = "ensure" /\ new.stage = "legacy"
    BY <2>2, <2>3, <2>6 DEF Same, Fields
  <2>8. Staged(new)
    BY <1>0, <2>6, <2>7 DEF Staged, Waiting, Done
  <2>9. Candidate(new)
    BY <1>0, <1>2, <2>7 DEF Fits, Candidate, Services
  <2>10. Sourced(new) /\ ~UsesIo(new)
    BY <2>7 DEF Sourced, Done, UsesIo
  <2>11. Spent(task) = (IF task.tries = 2 THEN 2 ELSE 0) /\ Spent(new) \in 0 .. 2
         /\ (Spent(new) = 2 => task.tries = 2)
    BY <1>0, <1>2, <2>7 DEF Spent, Services
  <2>12. n >= Spent(new)
    BY <1>0, <2>11
  <2>13. n < 2 => m < 2
    OBVIOUS
  <2>14. n < 2 /\ Agreed(new.uri) /\ new.alt > 0 => TurnedDown(new, new.alt - 1)
    BY <2>7, <2>13 DEF Spends, TurnedDown
  <2>15. Spends(new, n, access2)
    BY <2>7, <2>12, <2>14 DEF Spends
  <2> QED
    BY <2>6, <2>8, <2>9, <2>10, <2>15 DEF Fits
<1> QED
  BY <1>0, <1>1, <1>2

\* With the key of the file, its URLs are asked for.
LEMMA KeyedFits ==
  ASSUME NEW task \in Load, Fits(task), Clean(task), task.at \in {"key", "fallback"},
         NEW n \in 0 .. 2, Spends(task, n, "up"), NEW id \in {task.uri, task.gid},
         NEW access, NEW new, new = Keyed(task, id)
  PROVE  /\ Fits(new) /\ Clean(new) /\ UsesIo(new) /\ Spends(new, n, access)
         /\ new.at \in Waiting
<1>1. PICK key : key = [id |-> id, file |-> File(task.track)]
  OBVIOUS
<1>2. PICK mid : mid = [task EXCEPT !.key = key, !.stage = "storage"]
  OBVIOUS
<1>3. Shaped(mid) /\ Same(mid, task, {"key", "stage"})
  BY <1>2 DEF Shaped, Same, Fields, Load
<1>4. mid.key = key /\ mid.stage = "storage"
  BY <1>2 DEF Load
<1>5. /\ task.stage = "source" /\ task.tries \in 1 .. 2 /\ task.alt = 0 /\ task.uri \in Gids
      /\ task.track \in Track /\ Playable(task.track)
  BY DEF Fits, Staged, Candidate, Sourced, Services
<1>6. task.gid \in Gids
  <2>1. task.gid = Relinked(task.track, task.track.gid) /\ task.track.gid \in Gids
    BY <1>5 DEF Fits, Sourced, Track
  <2> QED
    BY <1>5, <2>1, MetadataTypes DEF Relinked
<1>7. key \in [id : Gids, file : Files]
  BY <1>1, <1>5, <1>6, FileType
<1>8. mid \in Load
  BY <1>3, <1>4, <1>7, Retyped
<1>9. new = Authorized(mid)
  BY <1>1, <1>2 DEF Keyed
<1>10. new \in Load /\ Same(new, mid, {"at"}) /\ new.at \in {"post", "dropclient", "client"}
  BY <1>8, <1>9, AuthorizedIs
<1>11. /\ new.uri = task.uri /\ new.alt = task.alt /\ new.tries = task.tries
       /\ new.gid = task.gid /\ new.track = task.track /\ new.again = task.again
       /\ new.client = task.client /\ new.bearer = task.bearer /\ new.posts = task.posts
       /\ new.renewed = task.renewed /\ new.stage = "storage" /\ new.key = key
  BY <1>3, <1>4, <1>10 DEF Same, Fields
<1>12. Staged(new)
  BY <1>5, <1>10, <1>11 DEF Staged, Done
<1>13. Candidate(new)
  BY <1>5, <1>11 DEF Candidate, Services
<1>14. key.file = File(task.track) /\ key.id = id
  BY <1>1
<1>15. Sourced(new)
  <2>1. task.track.gid \in {task.uri} \cup AlternativesOf(task.uri)
        /\ task.gid = Relinked(task.track, task.track.gid)
    BY <1>5 DEF Fits, Sourced
  <2> QED
    BY <1>5, <1>10, <1>11, <1>14, <2>1 DEF Sourced, Done
<1>16. task.again \in BOOLEAN /\ ~task.again
  BY <1>5, LoadTypes DEF Fits, Staged
<1>17. Spent(new) = Spent(task)
  BY <1>5, <1>11, <1>16 DEF Spent, Services
<1>18. Spends(new, n, access)
  BY <1>5, <1>10, <1>11, <1>17 DEF Spends
<1> QED
  BY <1>10, <1>11, <1>12, <1>13, <1>15, <1>18 DEF Fits, Clean, UsesIo, Waiting

\* A load that starts has met no fault.
LEMMA StartedFits ==
  ASSUME NEW uri \in Uris, NEW access, NEW new, new = Started(uri)
  PROVE  /\ Fits(new) /\ Clean(new) /\ ~UsesIo(new)
         /\ Spends(new, 0, access)
<1>1. PICK mid : mid = [Idle EXCEPT !.uri = uri]
  OBVIOUS
<1>2. Shaped(mid) /\ Same(mid, Idle, {"uri"})
  BY <1>1, IdleFits DEF Shaped, Same, Fields, Load, Fits
<1>3. mid.uri = uri
  BY <1>1, IdleFits DEF Load, Fits
<1>4. mid \in Load
  BY <1>2, <1>3, Retyped, IdleFits DEF Fits
<1>5. /\ mid.alt = 0 /\ mid.stage = "none" /\ mid.again = Idle.again
      /\ mid.client = Idle.client /\ mid.bearer = Idle.bearer /\ mid.posts = Idle.posts
      /\ mid.renewed = Idle.renewed
  BY <1>2, IdleFits DEF Same, Fields
<1>6. Clean(mid) /\ ~mid.again
  BY <1>5, IdleFits DEF Clean
<1>7. CASE uri \in Gids
  <2>1. new = Extended(mid, uri, 1)
    BY <1>1, <1>7 DEF Started
  <2>2. Asked(mid, uri)
    BY <1>3, <1>5, <1>7 DEF Asked
  <2> QED
    BY <1>4, <1>5, <1>6, <1>7, <2>1, <2>2, ExtendedFits
<1>8. CASE uri \notin Gids
  <2>1. new = [Idle EXCEPT !.at = "failed", !.uri = uri]
    BY <1>8 DEF Started
  <2>2. Shaped(new) /\ Same(new, Idle, {"at", "uri"})
    BY <2>1, IdleFits DEF Shaped, Same, Fields, Load, Fits
  <2>3. new.at = "failed" /\ new.uri = uri
    BY <2>1, IdleFits DEF Load, Fits
  <2>4. new \in Load
    BY <2>2, <2>3, Retyped, IdleFits DEF Fits, Places
  <2>5. /\ new.alt = 0 /\ new.stage = "none" /\ new.again = Idle.again
        /\ new.client = Idle.client /\ new.bearer = Idle.bearer /\ new.posts = Idle.posts
        /\ new.renewed = Idle.renewed
    BY <2>2, IdleFits DEF Same, Fields
  <2>6. Staged(new) /\ Candidate(new)
    BY <2>3, <2>5, IdleFits DEF Staged, Candidate, Waiting, Services
  <2>7. Sourced(new) /\ Clean(new) /\ ~UsesIo(new)
    BY <2>3, <2>5, IdleFits DEF Sourced, Clean, UsesIo, Done
  <2>8. Spent(new) = 0
    BY <2>5 DEF Spent, Services
  <2>9. Spends(new, 0, access)
    BY <1>8, <2>3, <2>5, <2>8 DEF Spends
  <2> QED
    BY <2>4, <2>6, <2>7, <2>9 DEF Fits
<1> QED
  BY <1>7, <1>8

-----------------------------------------------------------------------------
(* Steps of a loader.                                                      *)

Scalars ==
  /\ ap \in {"none", "up", "dead"} /\ io \in Loaders \cup {None}
  /\ client \in Token /\ bearer \in Token
  /\ clientBusy \in Loaders \cup {None} /\ bearerBusy \in Loaders \cup {None}
  /\ prefetching \in BOOLEAN /\ hostToken \in BOOLEAN
  /\ loads \in 0 .. MaxLoads /\ kicks \in 0 .. MaxKicks
  /\ faults \in 0 .. MaxFaults /\ turns \in 0 .. MaxTurns

\* They have their types in every state of the invariant.
LEMMA ScalarsHold == ASSUME IInv PROVE Scalars
BY DEF IInv, TypeOK, Scalars

\* A fault stays within its bound.
LEMMA FaultIs ==
  ASSUME IInv, NEW l \in Loaders, Fault(l) \/ UNCHANGED faults
  PROVE  faults' \in 0 .. MaxFaults
<1>1. faults \in 0 .. MaxFaults /\ MaxFaults \in Nat
  BY LoadingAssumption DEF IInv, TypeOK
<1>2. CASE Fault(l)
  <2>1. faults < MaxFaults /\ faults' = faults + 1
    BY <1>2 DEF Fault
  <2> QED
    BY <1>1, <2>1
<1> QED
  BY <1>1, <1>2

\* The access point stays with a loader or with nobody.
LEMMA GivesUpIoIs ==
  ASSUME IInv, NEW l \in Loaders, GivesUpIo(l) \/ UNCHANGED io
  PROVE  io' \in Loaders \cup {None}
BY DEF IInv, TypeOK, GivesUpIo

\* What the invariant says of a loader.
LEMMA InHand ==
  ASSUME IInv, NEW l \in Loaders
  PROVE  /\ load \in [Loaders -> Load] /\ hits \in [Loaders -> 0 .. 2]
         /\ load[l] \in Load /\ hits[l] \in 0 .. 2
         /\ Fits(load[l]) /\ Renews(load[l], client, bearer) /\ Spends(load[l], hits[l], ap)
         /\ UsesIo(load[l]) => io = l
BY DEF IInv, TypeOK, Sorted, Renewals, Spending, IoHeld

\* The parts of the type invariant that the others imply.
LEMMA TypesAgain ==
  ASSUME Sorted', Shelf', Scalars', hits' \in [Loaders -> 0 .. 2], load' \in [Loaders -> Load]
  PROVE  TypeOK'
<1>1. \A l \in Loaders : load'[l].alt > 0 =>
        load'[l].alt <= Len(Catalogue[load'[l].primary][load'[l].uri].alts)
  BY DEF Sorted, Fits, Candidate
<1>2. slot' \in Load /\ slot'.at \in {"idle", "loaded"}
  BY IdleFits DEF Shelf, Fits
<1> QED
  BY <1>1, <1>2 DEF Scalars, TypeOK

\* A loader that moves keeps the invariant when it fits its new place, takes the access
\* point only when nobody else has it, and leaves the other's tokens and faults alone.
LEMMA Moved ==
  ASSUME IInv, NEW l \in Loaders, NEW new, load' = [load EXCEPT ![l] = new],
         Fits(new), Renews(new, client', bearer'), Spends(new, hits'[l], ap'),
         client' = "revoked" => client = "revoked",
         bearer' = "revoked" => bearer = "revoked",
         io' = io \/ io \in {l, None}, UsesIo(new) => io' = l,
         hits' \in [Loaders -> 0 .. 2],
         \A k \in Loaders \ {l} : Spends(load[k], hits'[k], ap'),
         slot' = slot, Scalars'
  PROVE  IInv'
<1>1. new \in Load
  BY DEF Fits
<1>2. load' \in [Loaders -> Load] /\ load'[l] = new
      /\ \A k \in Loaders \ {l} : load'[k] = load[k]
  BY <1>1, InHand
<1>3. Sorted'
  BY <1>2, InHand DEF Sorted
<1>4. Renewals'
  <2> SUFFICES ASSUME NEW k \in Loaders \ {l} PROVE Renews(load[k], client', bearer')
    BY <1>2 DEF Renewals
  <2>1. Renews(load[k], client, bearer)
    BY InHand
  <2> QED
    BY <2>1 DEF Renews
<1>5. Shelf'
  BY DEF IInv, Shelf
<1>6. IoHeld'
  <2> SUFFICES ASSUME NEW k \in Loaders \ {l}, UsesIo(load[k]) PROVE io' = k
    BY <1>2 DEF IoHeld
  <2>1. io = k
    BY InHand
  <2> QED
    BY <2>1, LoadingAssumption
<1>7. Spending'
  BY <1>2 DEF Spending
<1>8. TypeOK'
  BY <1>2, <1>3, <1>5, TypesAgain
<1> QED
  BY <1>3, <1>4, <1>5, <1>6, <1>7, <1>8 DEF IInv

\* Faults only grow, except at a load's end.
LEMMA HitIs ==
  ASSUME IInv, NEW struck, Hit(struck)
  PROVE  /\ hits' \in [Loaders -> 0 .. 2]
         /\ \A k \in Loaders :
              hits'[k] >= hits[k] /\ (k \in struck => hits'[k] = 2 \/ hits'[k] > hits[k])
         /\ \A k \in Loaders : hits'[k] \in 0 .. 2
<1>1. hits \in [Loaders -> 0 .. 2]
  BY DEF IInv, TypeOK
<1>2. \A k \in Loaders : hits'[k] = IF k \in struck /\ hits[k] < 2 THEN hits[k] + 1 ELSE hits[k]
  BY DEF Hit
<1>3. \A k \in Loaders : hits[k] \in 0 .. 2
  BY <1>1
<1>4. \A k \in Loaders : hits'[k] \in 0 .. 2
  BY <1>2, <1>3
<1>5. hits' \in [Loaders -> 0 .. 2]
  <2>1. hits' = [k \in Loaders |-> hits'[k]]
    BY DEF Hit
  <2> QED
    BY <1>4, <2>1
<1> QED
  BY <1>2, <1>3, <1>4, <1>5

\* More faults do no harm.
LEMMA SpendsMore ==
  ASSUME NEW task \in Load, Fits(task), NEW n \in 0 .. 2, NEW m \in 0 .. 2, m >= n, NEW access,
         Spends(task, n, access)
  PROVE  Spends(task, m, access)
<1>1. Spent(task) \in Int
  <2>1. task.tries \in Int
    BY LoadTypes
  <2> QED
    BY <2>1 DEF Spent
<1> QED
  BY <1>1 DEF Spends

\* Neither does an access point that is there again.
LEMMA SpendsUp ==
  ASSUME NEW task, NEW n, NEW access, Spends(task, n, access)
  PROVE  Spends(task, n, "up")
BY DEF Spends

\* What the other loader has met, when it is left alone.
LEMMA OthersSpend ==
  ASSUME IInv, NEW l \in Loaders, hits' \in [Loaders -> 0 .. 2],
         \A k \in Loaders \ {l} : hits'[k] >= hits[k], ap' = ap \/ ap' = "up"
  PROVE  \A k \in Loaders \ {l} : Spends(load[k], hits'[k], ap')
<1> SUFFICES ASSUME NEW k \in Loaders \ {l} PROVE Spends(load[k], hits'[k], ap')
  OBVIOUS
<1>1. /\ load[k] \in Load /\ Fits(load[k]) /\ hits[k] \in 0 .. 2 /\ hits'[k] \in 0 .. 2
      /\ Spends(load[k], hits[k], ap)
  BY InHand
<1>2. Spends(load[k], hits'[k], ap)
  <2>1. hits'[k] >= hits[k]
    OBVIOUS
  <2> QED
    BY <1>1, <2>1, SpendsMore
<1> QED
  BY <1>2, SpendsUp

\* A loader that goes on waiting.
LEMMA WaitingStep ==
  ASSUME IInv, NEW l \in Loaders, load[l].at \in Waiting, NEW new \in Load,
         new.at \in Waiting, Same(new, load[l], {"at", "client", "bearer", "posts", "renewed"}),
         load' = [load EXCEPT ![l] = new], Renews(new, client', bearer'),
         client' = "revoked" => client = "revoked",
         bearer' = "revoked" => bearer = "revoked",
         ap' = ap, io' = io, slot' = slot, hits' = hits, Scalars'
  PROVE  IInv'
<1>1. /\ load[l] \in Load /\ hits[l] \in 0 .. 2 /\ hits \in [Loaders -> 0 .. 2]
      /\ Fits(load[l]) /\ Spends(load[l], hits[l], ap) /\ (UsesIo(load[l]) => io = l)
  BY InHand
<1>2. Fits(new) /\ Spends(new, hits[l], ap) /\ UsesIo(new) = UsesIo(load[l])
  BY <1>1, Waits
<1>3. \A k \in Loaders \ {l} : Spends(load[k], hits'[k], ap')
  BY InHand
<1> QED
  BY <1>1, <1>2, <1>3, Moved

\* A request that fails.
LEMMA FailingStep ==
  ASSUME IInv, NEW l \in Loaders, load[l].at \in Waiting,
         load' = [load EXCEPT ![l] = PostFailed(load[l])], Hit({l}), GivesUpIo(l),
         client' = "revoked" => client = "revoked",
         bearer' = "revoked" => bearer = "revoked",
         ap' = ap, slot' = slot, Scalars'
  PROVE  IInv'
<1>1. /\ load[l] \in Load /\ hits[l] \in 0 .. 2
      /\ Fits(load[l]) /\ Spends(load[l], hits[l], ap) /\ (UsesIo(load[l]) => io = l)
  BY InHand
<1>2. /\ hits' \in [Loaders -> 0 .. 2] /\ hits'[l] \in 0 .. 2
      /\ \A k \in Loaders : hits'[k] >= hits[k]
      /\ hits'[l] = 2 \/ hits'[l] > hits[l]
  BY HitIs
<1>3. PICK new : new = PostFailed(load[l])
  OBVIOUS
<1>4. Fits(new) /\ Clean(new) /\ ~UsesIo(new) /\ Spends(new, hits'[l], ap')
  <2>1. hits[l] \in Nat /\ hits'[l] >= hits[l]
    BY <1>1, <1>2
  <2> QED
    BY <1>1, <1>2, <1>3, PostFailedFits
<1>5. Renews(new, client', bearer')
  BY <1>4 DEF Clean, Renews
<1>6. io' = io \/ io \in {l, None}
  BY <1>1 DEF GivesUpIo, UsesIo
<1>7. \A k \in Loaders \ {l} : Spends(load[k], hits'[k], ap')
  BY <1>2, OthersSpend
<1> QED
  BY <1>2, <1>3, <1>4, <1>5, <1>6, <1>7, Moved

\* A forced refresh drops the client token.
LEMMA DropClientKeeps ==
  ASSUME IInv, NEW l \in Loaders, DropClient(l)
  PROVE  IInv'
<1>1. /\ load[l] \in Load /\ load[l].at = "dropclient" /\ Renews(load[l], client, bearer)
  BY InHand DEF DropClient, At
<1>2. PICK new : new = [load[l] EXCEPT !.at = "dropbearer", !.renewed = TRUE]
  OBVIOUS
<1>3. Shaped(new) /\ Same(new, load[l], {"at", "renewed"})
  BY <1>1, <1>2 DEF Shaped, Same, Fields, Load
<1>4. new.at = "dropbearer" /\ new.renewed = TRUE
  BY <1>1, <1>2 DEF Load
<1>5. new.renewed \in BOOLEAN
  BY <1>4
<1>6. new \in Load
  BY <1>1, <1>3, <1>4, <1>5, Retyped DEF Places
<1>7. Same(new, load[l], {"at", "client", "bearer", "posts", "renewed"})
  BY <1>3 DEF Same
<1>8. Renews(new, client', bearer')
  <2>1. new.client = load[l].client /\ new.bearer = load[l].bearer /\ new.posts = load[l].posts
    BY <1>3 DEF Same, Fields
  <2>2. load[l].client = "none" /\ load[l].bearer = "none" /\ ~(load[l].posts > 0)
    BY <1>1 DEF Renews
  <2>3. client' = "none"
    BY DEF DropClient
  <2> QED
    BY <1>4, <2>1, <2>2, <2>3 DEF Renews, Waiting
<1>9. Scalars'
  BY ScalarsHold DEF DropClient, Scalars, NoFault, spare, counters, Token
<1>10. /\ load' = [load EXCEPT ![l] = new] /\ client' = "none" /\ bearer' = bearer /\ ap' = ap
       /\ io' = io /\ slot' = slot /\ hits' = hits
  BY <1>2 DEF DropClient, Now, NoFault, spare
<1> QED
  BY <1>1, <1>4, <1>6, <1>7, <1>8, <1>9, <1>10, WaitingStep DEF Waiting

\* A forced refresh drops the access token.
LEMMA DropBearerKeeps ==
  ASSUME IInv, NEW l \in Loaders, DropBearer(l)
  PROVE  IInv'
<1>1. /\ load[l] \in Load /\ load[l].at = "dropbearer" /\ Renews(load[l], client, bearer)
      /\ load \in [Loaders -> Load]
  BY InHand DEF DropBearer, At
<1>2. PICK new : new = [load[l] EXCEPT !.at = "client"]
  OBVIOUS
<1>3. Shaped(new) /\ Same(new, load[l], {"at"})
  BY <1>1, <1>2 DEF Shaped, Same, Fields, Load
<1>4. new.at = "client"
  BY <1>1, <1>2 DEF Load
<1>5. new \in Load
  BY <1>1, <1>3, <1>4, Retyped DEF Places
<1>6. Same(new, load[l], {"at", "client", "bearer", "posts", "renewed"})
  BY <1>3 DEF Same
<1>7. Renews(new, client', bearer')
  <2>1. /\ new.client = load[l].client /\ new.bearer = load[l].bearer
        /\ new.posts = load[l].posts
        /\ new.renewed = load[l].renewed
    BY <1>3 DEF Same, Fields
  <2>2. load[l].client = "none" /\ load[l].bearer = "none" /\ ~(load[l].posts > 0)
    BY <1>1 DEF Renews
  <2>3. client' = client /\ bearer' = "none"
    BY DEF DropBearer
  <2> QED
    BY <1>1, <1>4, <2>1, <2>3 DEF Renews, Waiting
<1>8. Scalars'
  BY ScalarsHold DEF DropBearer, Scalars, NoFault, spare, counters, Token
<1>9. /\ load' = [load EXCEPT ![l] = new] /\ bearer' = "none" /\ client' = client /\ ap' = ap
      /\ io' = io /\ slot' = slot /\ hits' = hits
  BY <1>2 DEF DropBearer, Go, NoFault, spare
<1> QED
  BY <1>1, <1>4, <1>5, <1>6, <1>7, <1>8, <1>9, WaitingStep DEF Waiting

\* The client token is taken from the provider, or asked for.
LEMMA GetClientKeeps ==
  ASSUME IInv, NEW l \in Loaders, GetClient(l)
  PROVE  IInv'
<1>1. /\ load[l] \in Load /\ load[l].at = "client" /\ Renews(load[l], client, bearer)
      /\ load \in [Loaders -> Load]
  BY InHand DEF GetClient, At
<1>2. load[l].client = "none" /\ load[l].bearer = "none" /\ ~(load[l].posts > 0)
  BY <1>1 DEF Renews
<1>3. /\ client' = client /\ bearer' = bearer /\ ap' = ap /\ io' = io /\ slot' = slot
      /\ hits' = hits
  BY DEF GetClient, NoFault, spare
<1>4. Scalars'
  BY ScalarsHold DEF GetClient, Scalars, NoFault, spare, counters
<1>5. client \in Token
  BY ScalarsHold DEF Scalars
<1>6. CASE client # "none"
  <2>1. PICK new : new = [load[l] EXCEPT !.at = "bearer", !.client = client]
    OBVIOUS
  <2>2. Shaped(new) /\ Same(new, load[l], {"at", "client"})
    BY <1>1, <2>1 DEF Shaped, Same, Fields, Load
  <2>3. new.at = "bearer" /\ new.client = client
    BY <1>1, <2>1 DEF Load
  <2>4. new \in Load
    BY <1>1, <1>5, <2>2, <2>3, Retyped DEF Places
  <2>5. Same(new, load[l], {"at", "client", "bearer", "posts", "renewed"})
    BY <2>2 DEF Same
  <2>6. /\ new.bearer = load[l].bearer /\ new.posts = load[l].posts
        /\ new.renewed = load[l].renewed
    BY <2>2 DEF Same, Fields
  <2>7. Renews(new, client', bearer')
    BY <1>1, <1>3, <2>3, <2>6 DEF Renews, Waiting
  <2>8. load' = [load EXCEPT ![l] = new]
    BY <1>6, <2>1 DEF GetClient, Now
  <2> QED
    BY <1>1, <1>3, <1>4, <2>3, <2>4, <2>5, <2>7, <2>8, WaitingStep DEF Waiting
<1>7. CASE client = "none"
  <2>1. PICK new : new = [load[l] EXCEPT !.at = "askclient"]
    OBVIOUS
  <2>2. Shaped(new) /\ Same(new, load[l], {"at"})
    BY <1>1, <2>1 DEF Shaped, Same, Fields, Load
  <2>3. new.at = "askclient"
    BY <1>1, <2>1 DEF Load
  <2>4. new \in Load
    BY <1>1, <2>2, <2>3, Retyped DEF Places
  <2>5. Same(new, load[l], {"at", "client", "bearer", "posts", "renewed"})
    BY <2>2 DEF Same
  <2>6. /\ new.client = load[l].client /\ new.bearer = load[l].bearer
        /\ new.posts = load[l].posts /\ new.renewed = load[l].renewed
    BY <2>2 DEF Same, Fields
  <2>7. Renews(new, client', bearer')
    BY <1>1, <1>3, <2>3, <2>6 DEF Renews, Waiting
  <2>8. load' = [load EXCEPT ![l] = new]
    BY <1>7, <2>1 DEF GetClient, Go
  <2> QED
    BY <1>1, <1>3, <1>4, <2>3, <2>4, <2>5, <2>7, <2>8, WaitingStep DEF Waiting
<1> QED
  BY <1>6, <1>7

\* A token is granted or asked for again, or the request fails.
LEMMA AskClientKeeps ==
  ASSUME IInv, NEW l \in Loaders, AskClient(l)
  PROVE  IInv'
<1>1. /\ load[l] \in Load /\ load[l].at \in {"askclient", "answer"}
      /\ Renews(load[l], client, bearer) /\ load \in [Loaders -> Load]
  BY InHand DEF AskClient, At
<1>2. load[l].client = "none" /\ load[l].bearer = "none" /\ ~(load[l].posts > 0)
  BY <1>1 DEF Renews
<1>3. bearer' = bearer /\ ap' = ap /\ slot' = slot
  BY DEF AskClient, spare
<1>4. Scalars'
  <2>1. faults' \in 0 .. MaxFaults
    BY FaultIs DEF AskClient, NoFault
  <2>2. io' \in Loaders \cup {None}
    BY GivesUpIoIs DEF AskClient
  <2>3. client' \in Token /\ clientBusy' \in Loaders \cup {None}
    BY ScalarsHold DEF AskClient, Scalars, Token
  <2> QED
    BY <2>1, <2>2, <2>3, ScalarsHold DEF AskClient, Scalars, spare, counters
<1>5. CASE /\ client' = "good" /\ clientBusy' = None
           /\ Now(l, [load[l] EXCEPT !.at = "bearer", !.client = "good"])
           /\ NoFault /\ UNCHANGED io
  <2>1. PICK new : new = [load[l] EXCEPT !.at = "bearer", !.client = "good"]
    OBVIOUS
  <2>2. Shaped(new) /\ Same(new, load[l], {"at", "client"})
    BY <1>1, <2>1 DEF Shaped, Same, Fields, Load
  <2>3. new.at = "bearer" /\ new.client = "good"
    BY <1>1, <2>1 DEF Load
  <2>4. new \in Load
    BY <1>1, <2>2, <2>3, Retyped DEF Places, Token
  <2>5. Same(new, load[l], {"at", "client", "bearer", "posts", "renewed"})
    BY <2>2 DEF Same
  <2>6. /\ new.bearer = load[l].bearer /\ new.posts = load[l].posts
        /\ new.renewed = load[l].renewed
    BY <2>2 DEF Same, Fields
  <2>7. Renews(new, client', bearer')
    BY <1>1, <1>3, <1>5, <2>3, <2>6 DEF Renews, Waiting
  <2>8. /\ load' = [load EXCEPT ![l] = new] /\ hits' = hits /\ io' = io
        /\ (client' = "revoked" => client = "revoked")
    BY <1>5, <2>1 DEF Now, NoFault
  <2> QED
    BY <1>1, <1>3, <1>4, <2>3, <2>4, <2>5, <2>7, <2>8, WaitingStep DEF Waiting
<1>6. CASE Go(l, "answer") /\ NoFault /\ UNCHANGED <<io, client, clientBusy>>
  <2>1. PICK new : new = [load[l] EXCEPT !.at = "answer"]
    OBVIOUS
  <2>2. Shaped(new) /\ Same(new, load[l], {"at"})
    BY <1>1, <2>1 DEF Shaped, Same, Fields, Load
  <2>3. new.at = "answer"
    BY <1>1, <2>1 DEF Load
  <2>4. new \in Load
    BY <1>1, <2>2, <2>3, Retyped DEF Places
  <2>5. Same(new, load[l], {"at", "client", "bearer", "posts", "renewed"})
    BY <2>2 DEF Same
  <2>6. /\ new.client = load[l].client /\ new.bearer = load[l].bearer
        /\ new.posts = load[l].posts /\ new.renewed = load[l].renewed
    BY <2>2 DEF Same, Fields
  <2>7. Renews(new, client', bearer')
    BY <1>1, <1>3, <1>6, <2>3, <2>6 DEF Renews, Waiting
  <2>8. load' = [load EXCEPT ![l] = new] /\ hits' = hits /\ io' = io /\ client' = client
    BY <1>6, <2>1 DEF Go, NoFault
  <2> QED
    BY <1>1, <1>3, <1>4, <2>3, <2>4, <2>5, <2>7, <2>8, WaitingStep DEF Waiting
<1>7. CASE Fault(l) /\ Now(l, PostFailed(load[l])) /\ GivesUpIo(l) /\ client' = client
  <2>1. Hit({l}) /\ load' = [load EXCEPT ![l] = PostFailed(load[l])]
    BY <1>7 DEF Fault, Now
  <2> QED
    BY <1>1, <1>3, <1>4, <1>7, <2>1, FailingStep DEF Waiting
<1> QED
  BY <1>5, <1>6, <1>7 DEF AskClient

\* The access token is taken from the provider, or asked for.
LEMMA GetBearerKeeps ==
  ASSUME IInv, NEW l \in Loaders, GetBearer(l)
  PROVE  IInv'
<1>1. /\ load[l] \in Load /\ load[l].at = "bearer" /\ Renews(load[l], client, bearer)
      /\ load \in [Loaders -> Load]
  BY InHand DEF GetBearer, At
<1>2. load[l].bearer = "none" /\ ~(load[l].posts > 0)
  BY <1>1 DEF Renews
<1>3. /\ client' = client /\ bearer' = bearer /\ ap' = ap /\ io' = io /\ slot' = slot
      /\ hits' = hits
  BY DEF GetBearer, NoFault, spare
<1>4. Scalars'
  BY ScalarsHold DEF GetBearer, Scalars, NoFault, spare, counters
<1>5. bearer \in Token
  BY ScalarsHold DEF Scalars
<1>6. CASE bearer # "none"
  <2>1. PICK new : new = [load[l] EXCEPT !.at = "post", !.bearer = bearer]
    OBVIOUS
  <2>2. Shaped(new) /\ Same(new, load[l], {"at", "bearer"})
    BY <1>1, <2>1 DEF Shaped, Same, Fields, Load
  <2>3. new.at = "post" /\ new.bearer = bearer
    BY <1>1, <2>1 DEF Load
  <2>4. new \in Load
    BY <1>1, <1>5, <2>2, <2>3, Retyped DEF Places
  <2>5. Same(new, load[l], {"at", "client", "bearer", "posts", "renewed"})
    BY <2>2 DEF Same
  <2>6. /\ new.client = load[l].client /\ new.posts = load[l].posts
        /\ new.renewed = load[l].renewed
    BY <2>2 DEF Same, Fields
  <2>7. Renews(new, client', bearer')
    BY <1>1, <1>3, <2>3, <2>6 DEF Renews, Waiting
  <2>8. load' = [load EXCEPT ![l] = new]
    BY <1>6, <2>1 DEF GetBearer, Now
  <2> QED
    BY <1>1, <1>3, <1>4, <2>3, <2>4, <2>5, <2>7, <2>8, WaitingStep DEF Waiting
<1>7. CASE bearer = "none"
  <2>1. PICK new : new = [load[l] EXCEPT !.at = "login", !.posts = 1]
    OBVIOUS
  <2>2. Shaped(new) /\ Same(new, load[l], {"at", "posts"})
    BY <1>1, <2>1 DEF Shaped, Same, Fields, Load
  <2>3. new.at = "login" /\ new.posts = 1
    BY <1>1, <2>1 DEF Load
  <2>4. new \in Load
    BY <1>1, <2>2, <2>3, Retyped DEF Places
  <2>5. Same(new, load[l], {"at", "client", "bearer", "posts", "renewed"})
    BY <2>2 DEF Same
  <2>6. /\ new.client = load[l].client /\ new.bearer = load[l].bearer
        /\ new.renewed = load[l].renewed
    BY <2>2 DEF Same, Fields
  <2>7. Renews(new, client', bearer')
    BY <1>1, <1>3, <2>3, <2>6 DEF Renews, Waiting
  <2>8. load' = [load EXCEPT ![l] = new]
    BY <1>7, <2>1 DEF GetBearer, Now
  <2> QED
    BY <1>1, <1>3, <1>4, <2>3, <2>4, <2>5, <2>7, <2>8, WaitingStep DEF Waiting
<1> QED
  BY <1>6, <1>7

\* A login is challenged once more.
LEMMA LoginChallengedKeeps ==
  ASSUME IInv, NEW l \in Loaders, LoginChallenged(l)
  PROVE  IInv'
<1>1. /\ load[l] \in Load /\ load[l].at = "login" /\ Renews(load[l], client, bearer)
      /\ load[l].posts \in 0 .. 2
  <2>1. load[l] \in Load /\ load[l].at = "login" /\ load[l].posts < 3
        /\ Renews(load[l], client, bearer)
    BY InHand DEF LoginChallenged, At
  <2> QED
    BY <2>1, LoadTypes
<1>2. /\ client' = client /\ bearer' = bearer /\ ap' = ap /\ io' = io /\ slot' = slot
      /\ hits' = hits
  BY DEF LoginChallenged, NoFault, spare, tokens
<1>3. Scalars'
  BY ScalarsHold DEF LoginChallenged, Scalars, NoFault, spare, counters, tokens
<1>4. PICK new : new = [load[l] EXCEPT !.posts = @ + 1]
  OBVIOUS
<1>5. Shaped(new) /\ Same(new, load[l], {"posts"})
  BY <1>1, <1>4 DEF Shaped, Same, Fields, Load
<1>6. new.posts = load[l].posts + 1
  BY <1>1, <1>4 DEF Load
<1>7. new \in Load
  <2>1. new.posts \in 0 .. 3
    BY <1>1, <1>6
  <2> QED
    BY <1>1, <1>5, <2>1, Retyped
<1>8. Same(new, load[l], {"at", "client", "bearer", "posts", "renewed"})
  BY <1>5 DEF Same
<1>9. /\ new.client = load[l].client /\ new.bearer = load[l].bearer
      /\ new.renewed = load[l].renewed /\ new.at = load[l].at
  BY <1>5 DEF Same, Fields
<1>10. Renews(new, client', bearer')
  BY <1>1, <1>2, <1>9 DEF Renews
<1>11. load' = [load EXCEPT ![l] = new]
  BY <1>4 DEF LoginChallenged, Now
<1> QED
  BY <1>1, <1>2, <1>3, <1>7, <1>8, <1>9, <1>10, <1>11, WaitingStep DEF Waiting

\* A login is granted or fails.
LEMMA LoginKeeps ==
  ASSUME IInv, NEW l \in Loaders, Login(l)
  PROVE  IInv'
<1>1. /\ load[l] \in Load /\ load[l].at = "login" /\ Renews(load[l], client, bearer)
  BY InHand DEF Login, At
<1>2. client' = client /\ ap' = ap /\ slot' = slot
  BY DEF Login, spare
<1>3. Scalars'
  <2>1. faults' \in 0 .. MaxFaults
    BY FaultIs DEF Login, NoFault
  <2>2. io' \in Loaders \cup {None}
    BY GivesUpIoIs DEF Login
  <2>3. bearer' \in Token /\ bearerBusy' \in Loaders \cup {None}
    BY ScalarsHold DEF Login, Scalars, Token
  <2> QED
    BY <2>1, <2>2, <2>3, ScalarsHold DEF Login, Scalars, spare, counters
<1>4. CASE /\ bearer' = "good"
           /\ Now(l, [load[l] EXCEPT !.at = "post", !.bearer = "good", !.posts = 0])
           /\ NoFault /\ UNCHANGED io
  <2>1. PICK new : new = [load[l] EXCEPT !.at = "post", !.bearer = "good", !.posts = 0]
    OBVIOUS
  <2>2. Shaped(new) /\ Same(new, load[l], {"at", "bearer", "posts"})
    BY <1>1, <2>1 DEF Shaped, Same, Fields, Load
  <2>3. new.at = "post" /\ new.bearer = "good" /\ new.posts = 0
    BY <1>1, <2>1 DEF Load
  <2>4. new \in Load
    BY <1>1, <2>2, <2>3, Retyped DEF Places, Token
  <2>5. Same(new, load[l], {"at", "client", "bearer", "posts", "renewed"})
    BY <2>2 DEF Same
  <2>6. new.client = load[l].client /\ new.renewed = load[l].renewed
    BY <2>2 DEF Same, Fields
  <2>7. Renews(new, client', bearer')
    BY <1>1, <1>2, <1>4, <2>3, <2>6 DEF Renews, Waiting
  <2>8. /\ load' = [load EXCEPT ![l] = new] /\ hits' = hits /\ io' = io
        /\ (bearer' = "revoked" => bearer = "revoked")
    BY <1>4, <2>1 DEF Now, NoFault
  <2> QED
    BY <1>1, <1>2, <1>3, <2>3, <2>4, <2>5, <2>7, <2>8, WaitingStep DEF Waiting
<1>5. CASE Hit({l}) /\ Now(l, PostFailed(load[l])) /\ GivesUpIo(l) /\ bearer' = bearer
  <2>1. load' = [load EXCEPT ![l] = PostFailed(load[l])]
    BY <1>5 DEF Now
  <2> QED
    BY <1>1, <1>2, <1>3, <1>5, <2>1, FailingStep DEF Waiting
<1> QED
  BY <1>4, <1>5 DEF Login, Fault

\* The URLs of the file, or the metadata of the first service.
LEMMA PostAnsweredKeeps ==
  ASSUME IInv, NEW l \in Loaders, PostAnswered(l)
  PROVE  IInv'
<1>1. /\ load[l] \in Load /\ load[l].at = "post" /\ Fits(load[l])
      /\ Spends(load[l], hits[l], ap) /\ (UsesIo(load[l]) => io = l)
      /\ hits \in [Loaders -> 0 .. 2]
  BY InHand DEF PostAnswered, At
<1>2. /\ client' = client /\ bearer' = bearer /\ ap' = ap /\ slot' = slot
  BY DEF PostAnswered, spare, tokens
<1>3. Scalars'
  BY ScalarsHold DEF PostAnswered, Scalars, GivesUpIo, spare, counters, tokens
<1>4. PICK task : task = Bare(load[l])
  OBVIOUS
<1>5. /\ task \in Load /\ Clean(task) /\ ~task.again
      /\ Same(task, load[l], {"again", "client", "bearer", "posts", "renewed"})
  BY <1>1, <1>4, BareIs
<1>6. /\ load[l].stage \in {"extended", "storage"} /\ load[l].tries \in 1 .. 2
      /\ load[l].uri \in Gids
  BY <1>1 DEF Fits, Staged, Candidate, Waiting
<1>7. /\ task.uri = load[l].uri /\ task.alt = load[l].alt /\ task.tries = load[l].tries
      /\ task.gid = load[l].gid /\ task.primary = load[l].primary /\ task.key = load[l].key
      /\ task.track = load[l].track /\ task.stage = load[l].stage
  BY <1>5 DEF Same, Fields
<1>8. io' = io \/ io \in {l, None}
  BY <1>1 DEF PostAnswered, GivesUpIo, UsesIo
<1>9. hits' \in [Loaders -> 0 .. 2] /\ \A k \in Loaders \ {l} : hits'[k] = hits[k]
  BY <1>1 DEF PostAnswered
<1>10. \A k \in Loaders \ {l} : Spends(load[k], hits'[k], ap')
  BY <1>2, <1>9, InHand
<1>11. CASE load[l].stage = "extended"
  <2>1. PICK new : new = [task EXCEPT !.at = "ensure", !.stage = "legacy", !.ext = TRUE]
    OBVIOUS
  <2>2. Shaped(new) /\ Same(new, task, {"at", "stage", "ext"})
    BY <1>5, <2>1 DEF Shaped, Same, Fields, Load
  <2>3. new.at = "ensure" /\ new.stage = "legacy" /\ new.ext = TRUE
    BY <1>5, <2>1 DEF Load
  <2>4. new.ext \in BOOLEAN
    BY <2>3
  <2>5. new \in Load
    BY <1>5, <2>2, <2>3, <2>4, Retyped DEF Places, Services
  <2>6. /\ new.uri = task.uri /\ new.alt = task.alt /\ new.tries = task.tries
        /\ new.gid = task.gid /\ new.primary = task.primary /\ new.again = task.again
        /\ new.client = task.client /\ new.bearer = task.bearer /\ new.posts = task.posts
        /\ new.renewed = task.renewed
    BY <2>2 DEF Same, Fields
  <2>7. Staged(new)
    BY <1>5, <1>6, <1>7, <2>3, <2>6 DEF Staged, Waiting, Done
  <2>8. Candidate(new)
    BY <1>1, <1>6, <1>7, <1>11, <2>3, <2>6 DEF Fits, Candidate, Services
  <2>9. Sourced(new) /\ ~UsesIo(new) /\ Clean(new)
    BY <1>5, <2>3, <2>6 DEF Sourced, Done, UsesIo, Clean
  <2>10. Spent(new) = Spent(load[l])
    BY <1>1, <1>7, <1>11, <2>3, <2>6 DEF Spent, Services
  <2>11. Spends(new, hits[l], ap)
    BY <1>1, <1>7, <2>3, <2>6, <2>10 DEF Spends, TurnedDown
  <2>12. Renews(new, client', bearer')
    BY <2>9 DEF Clean, Renews
  <2>13. hits' = hits
    BY <1>11 DEF PostAnswered
  <2>14. load' = [load EXCEPT ![l] = new]
    BY <1>4, <1>7, <1>11, <2>1 DEF PostAnswered, Now
  <2>15. Fits(new)
    BY <2>5, <2>7, <2>8, <2>9 DEF Fits
  <2> QED
    BY <1>2, <1>3, <1>8, <1>9, <1>10, <2>9, <2>11, <2>12, <2>13, <2>14, <2>15, Moved
<1>12. CASE load[l].stage = "storage"
  <2>0. load[l].track \in Track /\ Playable(load[l].track)
    BY <1>1, <1>12 DEF Fits, Sourced
  <2>1. PICK file : file = File(task.track)
    OBVIOUS
  <2>2. file \in Files
    BY <1>7, <2>0, <2>1, FileType
  <2>3. PICK place : place = IF l = Player THEN "playing" ELSE "loaded"
    OBVIOUS
  <2>4. place \in Done /\ place \in Places
    BY <2>3 DEF Done, Places
  <2>5. PICK new : new = [task EXCEPT !.at = place, !.urls = file, !.tries = 0, !.stage = "none"]
    OBVIOUS
  <2>6. Shaped(new) /\ Same(new, task, {"at", "urls", "tries", "stage"})
    BY <1>5, <2>5 DEF Shaped, Same, Fields, Load
  <2>7. new.at = place /\ new.urls = file /\ new.tries = 0 /\ new.stage = "none"
    BY <1>5, <2>5 DEF Load
  <2>8. new \in Load
    BY <1>5, <2>2, <2>4, <2>6, <2>7, Retyped
  <2>9. /\ new.uri = task.uri /\ new.alt = task.alt /\ new.gid = task.gid
        /\ new.track = task.track /\ new.key = task.key /\ new.again = task.again
        /\ new.client = task.client /\ new.bearer = task.bearer /\ new.posts = task.posts
        /\ new.renewed = task.renewed
    BY <2>6 DEF Same, Fields
  <2>10. Staged(new)
    BY <1>5, <2>4, <2>7, <2>9 DEF Staged, Waiting, Done
  <2>11. new.alt = 0
    BY <1>1, <1>7, <1>12, <2>9 DEF Fits, Candidate, Services
  <2>12. Candidate(new)
    BY <1>6, <1>7, <2>7, <2>9, <2>11 DEF Candidate, Services
  <2>13. Sourced(new)
    BY <1>1, <1>7, <1>12, <2>1, <2>7, <2>9 DEF Fits, Sourced
  <2>14. ~UsesIo(new) /\ Clean(new)
    BY <1>5, <2>4, <2>7, <2>9 DEF Done, UsesIo, Clean
  <2>15. hits'[l] = 0
    BY <1>1, <1>12 DEF PostAnswered
  <2>16. Spent(new) = 0
    BY <2>7 DEF Spent, Services
  <2>17. Spends(new, hits'[l], ap')
    BY <2>4, <2>7, <2>11, <2>15, <2>16 DEF Spends, Done
  <2>18. Renews(new, client', bearer')
    BY <2>14 DEF Clean, Renews
  <2>19. load' = [load EXCEPT ![l] = new]
    BY <1>4, <1>7, <1>12, <2>1, <2>3, <2>5 DEF PostAnswered, Now
  <2>20. Fits(new)
    BY <2>8, <2>10, <2>12, <2>13 DEF Fits
  <2> QED
    BY <1>2, <1>3, <1>8, <1>9, <1>10, <2>14, <2>17, <2>18, <2>19, <2>20, Moved
<1> QED
  BY <1>6, <1>11, <1>12

\* A request that is refused fails; but the URLs are asked for again, once.
LEMMA PostRefusedKeeps ==
  ASSUME IInv, NEW l \in Loaders, PostRefused(l)
  PROVE  IInv'
<1>1. /\ load[l] \in Load /\ load[l].at = "post" /\ Fits(load[l]) /\ hits[l] \in 0 .. 2
      /\ Spends(load[l], hits[l], ap) /\ (UsesIo(load[l]) => io = l)
  BY InHand DEF PostRefused, At
<1>2. client' = client /\ bearer' = bearer /\ ap' = ap /\ slot' = slot /\ Hit({l})
  BY DEF PostRefused, spare, tokens
<1>3. Scalars'
  BY ScalarsHold DEF PostRefused, Scalars, GivesUpIo, spare, counters, tokens
<1>4. CASE ~(load[l].stage = "storage" /\ ~load[l].again)
  <2>1. load' = [load EXCEPT ![l] = PostFailed(load[l])] /\ GivesUpIo(l)
    BY <1>4 DEF PostRefused, Now
  <2> QED
    BY <1>1, <1>2, <1>3, <2>1, FailingStep DEF Waiting
<1>5. CASE load[l].stage = "storage" /\ ~load[l].again
  <2>1. PICK task : task = Bare(load[l])
    OBVIOUS
  <2>2. /\ task \in Load /\ Clean(task)
        /\ Same(task, load[l], {"again", "client", "bearer", "posts", "renewed"})
    BY <1>1, <2>1, BareIs
  <2>3. PICK mid : mid = [task EXCEPT !.again = TRUE]
    OBVIOUS
  <2>4. Shaped(mid) /\ Same(mid, task, {"again"})
    BY <2>2, <2>3 DEF Shaped, Same, Fields, Load
  <2>5. mid.again = TRUE
    BY <2>2, <2>3 DEF Load
  <2>6. mid.again \in BOOLEAN
    BY <2>5
  <2>7. mid \in Load
    BY <2>2, <2>4, <2>6, Retyped
  <2>8. PICK new : new = Authorized(mid)
    OBVIOUS
  <2>9. new \in Load /\ Same(new, mid, {"at"}) /\ new.at \in {"post", "dropclient", "client"}
    BY <2>7, <2>8, AuthorizedIs
  <2>10. /\ new.uri = load[l].uri /\ new.alt = load[l].alt /\ new.tries = load[l].tries
         /\ new.gid = load[l].gid /\ new.track = load[l].track /\ new.key = load[l].key
         /\ new.primary = load[l].primary
         /\ new.client = task.client /\ new.bearer = task.bearer /\ new.posts = task.posts
         /\ new.renewed = task.renewed /\ new.stage = load[l].stage /\ new.again = mid.again
    BY <2>2, <2>4, <2>9 DEF Same, Fields
  <2>11. load[l].alt = 0 /\ load[l].tries \in 1 .. 2 /\ load[l].uri \in Gids
    BY <1>1, <1>5 DEF Fits, Staged, Candidate, Services
  <2>12. Staged(new)
    BY <1>5, <2>9, <2>10, <2>11 DEF Staged, Done
  <2>13. Candidate(new)
    BY <1>5, <2>10, <2>11 DEF Candidate, Services
  <2>14. Sourced(new)
    BY <1>1, <2>9, <2>10 DEF Fits, Sourced, Done
  <2>15. Clean(new)
    BY <2>2, <2>10 DEF Clean
  <2>16. Spent(new) = load[l].tries /\ Spent(load[l]) = load[l].tries - 1
    BY <1>5, <2>5, <2>10 DEF Spent, Services
  <2>17. /\ hits' \in [Loaders -> 0 .. 2] /\ hits'[l] \in 0 .. 2
         /\ \A k \in Loaders : hits'[k] >= hits[k]
         /\ hits'[l] = 2 \/ hits'[l] > hits[l]
    BY <1>2, HitIs
  <2>18. hits'[l] >= Spent(new)
    <3>1. hits[l] >= load[l].tries - 1
      BY <1>1, <2>16 DEF Spends
    <3> QED
      BY <1>1, <2>11, <2>16, <2>17, <3>1
  <2>19. Spends(new, hits'[l], ap')
    BY <2>9, <2>10, <2>11, <2>18 DEF Spends
  <2>20. Renews(new, client', bearer')
    BY <2>15 DEF Clean, Renews
  <2>21. load' = [load EXCEPT ![l] = new] /\ io' = io
    BY <1>5, <2>1, <2>3, <2>8 DEF PostRefused, Now
  <2>22. \A k \in Loaders \ {l} : Spends(load[k], hits'[k], ap')
    BY <1>2, <2>17, OthersSpend
  <2>23. Fits(new)
    BY <2>9, <2>12, <2>13, <2>14 DEF Fits
  <2>24. io = l
    BY <1>1, <1>5 DEF UsesIo
  <2> QED
    BY <1>2, <1>3, <2>17, <2>19, <2>20, <2>21, <2>22, <2>23, <2>24, Moved
<1> QED
  BY <1>4, <1>5

\* A request fails.
LEMMA PostFailsKeeps ==
  ASSUME IInv, NEW l \in Loaders, PostFails(l)
  PROVE  IInv'
<1>1. /\ load[l].at = "post" /\ client' = client /\ bearer' = bearer /\ ap' = ap
      /\ slot' = slot /\ Hit({l}) /\ load' = [load EXCEPT ![l] = PostFailed(load[l])]
      /\ GivesUpIo(l)
  BY DEF PostFails, spare, tokens, At, Fault, Now
<1>2. Scalars'
  <2>1. faults' \in 0 .. MaxFaults
    BY FaultIs DEF PostFails
  <2>2. io' \in Loaders \cup {None}
    BY <1>1, GivesUpIoIs
  <2> QED
    BY <2>1, <2>2, ScalarsHold DEF PostFails, Scalars, spare, counters, tokens
<1> QED
  BY <1>1, <1>2, FailingStep DEF Waiting

-----------------------------------------------------------------------------
(* The access point.                                                       *)

\* A load that goes on to the access point from where it has been reached.
LEMMA GoesOn ==
  ASSUME NEW task \in Load, Fits(task), NEW n, NEW access, Spends(task, n, access), Clean(task),
         NEW place, NEW new, new = [task EXCEPT !.at = place],
         \/ task.at = "ensure" /\ place = "use"
         \/ task.at = "use" /\ task.stage = "source" /\ place = "key"
         \/ task.at = "key" /\ place = "fallback"
  PROVE  /\ Fits(new) /\ Spends(new, n, "up") /\ Clean(new)
         /\ task.at = "key" => UsesIo(task)
<1>1. Shaped(new) /\ Same(new, task, {"at"})
  BY DEF Shaped, Same, Fields, Load
<1>2. new.at = place
  BY DEF Load
<1>3. new \in Load
  BY <1>1, <1>2, Retyped DEF Places
<1>4. /\ new.uri = task.uri /\ new.alt = task.alt /\ new.primary = task.primary
      /\ new.again = task.again /\ new.client = task.client /\ new.bearer = task.bearer
      /\ new.posts = task.posts /\ new.renewed = task.renewed /\ new.stage = task.stage
      /\ new.tries = task.tries /\ new.gid = task.gid /\ new.ext = task.ext
      /\ new.track = task.track /\ new.key = task.key
  BY <1>1 DEF Same, Fields
<1>5. Staged(new)
  BY DEF Fits, Staged, Waiting, Done
<1>6. Candidate(new)
  BY <1>2, <1>4 DEF Fits, Candidate
<1>7. Sourced(new)
  BY DEF Fits, Sourced, Done
<1>8. Spent(new) = Spent(task)
  BY <1>2, <1>4 DEF Spent
<1>9. Spends(new, n, "up")
  BY <1>8 DEF Spends, TurnedDown
<1> QED
  BY <1>3, <1>5, <1>6, <1>7, <1>9 DEF Fits, Clean, UsesIo

\* A load that is not waiting for a request holds no token.
LEMMA CleanOutside ==
  ASSUME NEW task \in Load, NEW c, NEW b, Renews(task, c, b), task.at \notin Waiting
  PROVE  Clean(task)
<1>1. task.client = "none" /\ task.bearer = "none" /\ ~task.renewed
  BY DEF Renews, Waiting
<1>2. ~(task.posts > 0) /\ task.posts \in 0 .. 3
  BY LoadTypes DEF Renews, Waiting
<1>3. task.posts = 0
  BY <1>2
<1> QED
  BY <1>1, <1>3 DEF Clean

\* A load with no token in hand has none that was refused.
LEMMA CleanRenews ==
  ASSUME NEW task, Clean(task), NEW c, NEW b
  PROVE  Renews(task, c, b)
BY DEF Clean, Renews

\* The access point is there, or is reached, or costs the load a fault: two for a source.
LEMMA EnsureKeeps ==
  ASSUME IInv, NEW l \in Loaders, Ensure(l)
  PROVE  IInv'
<1>1. /\ load[l] \in Load /\ load[l].at = "ensure" /\ Fits(load[l]) /\ hits[l] \in 0 .. 2
      /\ Renews(load[l], client, bearer) /\ Spends(load[l], hits[l], ap)
      /\ load \in [Loaders -> Load] /\ hits \in [Loaders -> 0 .. 2]
  BY InHand DEF Ensure, At
<1>2. Clean(load[l]) /\ load[l].stage \in {"legacy", "source"}
  BY <1>1, CleanOutside DEF Fits, Staged
<1>3. client' = client /\ bearer' = bearer /\ io' = io /\ io = None /\ slot' = slot
  BY DEF Ensure, spare, tokens
<1>4. Scalars'
  <2>1. faults' \in 0 .. MaxFaults
    <3>1. faults \in 0 .. MaxFaults /\ MaxFaults \in Nat
      BY LoadingAssumption DEF IInv, TypeOK
    <3>2. faults' = faults \/ (faults < MaxFaults /\ faults' = faults + 1)
      BY DEF Ensure, NoFault
    <3> QED
      BY <3>1, <3>2
  <2> QED
    BY <2>1, ScalarsHold DEF Ensure, Scalars, spare, counters, tokens
<1>5. CASE ap' = "up" /\ Go(l, "use") /\ NoFault
  <2>1. PICK new : new = [load[l] EXCEPT !.at = "use"]
    OBVIOUS
  <2>2. Fits(new) /\ Spends(new, hits[l], "up") /\ Clean(new)
    BY <1>1, <1>2, <2>1, GoesOn
  <2>3. ~UsesIo(new)
    <3>1. new.at = "use" /\ new.stage = load[l].stage
      BY <1>1, <2>1 DEF Load
    <3> QED
      BY <1>2, <3>1 DEF UsesIo
  <2>4. load' = [load EXCEPT ![l] = new] /\ hits' = hits
    BY <1>5, <2>1 DEF Go, NoFault
  <2>5. \A k \in Loaders \ {l} : Spends(load[k], hits'[k], ap')
    BY <1>5, <2>4, InHand, SpendsUp
  <2>6. Renews(new, client', bearer')
    BY <2>2, CleanRenews
  <2> QED
    BY <1>1, <1>3, <1>4, <1>5, <2>2, <2>3, <2>4, <2>5, <2>6, Moved
<1>6. CASE /\ load[l].stage = "legacy" /\ Now(l, AfterLegacy(load[l], FALSE)) /\ Hit({l})
           /\ UNCHANGED ap
  <2>1. PICK new : new = AfterLegacy(load[l], FALSE)
    OBVIOUS
  <2>2. /\ hits' \in [Loaders -> 0 .. 2] /\ hits'[l] \in 0 .. 2
        /\ \A k \in Loaders : hits'[k] >= hits[k]
        /\ hits'[l] = 2 \/ hits'[l] > hits[l]
    BY <1>6, HitIs
  <2>3. Spends(load[l], hits'[l], ap)
    <3>1. hits'[l] >= hits[l]
      BY <2>2
    <3> QED
      BY <1>1, <2>2, <3>1, SpendsMore
  <2>4. hits'[l] = 2 \/ hits'[l] > Spent(load[l])
    <3>1. hits[l] >= Spent(load[l]) /\ Spent(load[l]) \in Int
      <4>1. load[l].tries \in Int
        BY <1>1, LoadTypes
      <4> QED
        BY <1>1, <4>1 DEF Spends, Spent
    <3> QED
      BY <1>1, <2>2, <3>1
  <2>5. Fits(new) /\ Clean(new) /\ ~UsesIo(new) /\ Spends(new, hits'[l], ap)
    <3>1. Staged(load[l]) /\ Candidate(load[l])
      BY <1>1 DEF Fits
    <3> QED
      BY <1>1, <1>2, <1>6, <2>1, <2>2, <2>3, <2>4, <3>1, AfterLegacyFits
  <2>6. \A k \in Loaders \ {l} : Spends(load[k], hits'[k], ap')
    BY <1>6, <2>2, OthersSpend
  <2>7. Renews(new, client', bearer')
    BY <2>5, CleanRenews
  <2>8. load' = [load EXCEPT ![l] = new] /\ ap' = ap
    BY <1>6, <2>1 DEF Now
  <2> QED
    BY <1>3, <1>4, <2>2, <2>5, <2>6, <2>7, <2>8, Moved
<1>7. CASE /\ load[l].stage # "legacy" /\ Go(l, "failed") /\ hits' = [hits EXCEPT ![l] = 2]
           /\ UNCHANGED ap
  <2>1. PICK new : new = [load[l] EXCEPT !.at = "failed"]
    OBVIOUS
  <2>2. Shaped(new) /\ Same(new, load[l], {"at"})
    BY <1>1, <2>1 DEF Shaped, Same, Fields, Load
  <2>3. new.at = "failed"
    BY <1>1, <2>1 DEF Load
  <2>4. new \in Load
    BY <1>1, <2>2, <2>3, Retyped DEF Places
  <2>5. /\ new.uri = load[l].uri /\ new.alt = load[l].alt /\ new.primary = load[l].primary
        /\ new.again = load[l].again /\ new.client = load[l].client
        /\ new.bearer = load[l].bearer /\ new.posts = load[l].posts
        /\ new.renewed = load[l].renewed /\ new.stage = load[l].stage
        /\ new.tries = load[l].tries /\ new.gid = load[l].gid /\ new.track = load[l].track
    BY <2>2 DEF Same, Fields
  <2>6. Fits(new)
    <3>1. Staged(new)
      BY <1>1, <2>3, <2>5 DEF Fits, Staged, Waiting, Done
    <3>2. Candidate(new)
      BY <1>1, <1>2, <1>7, <2>3, <2>5 DEF Fits, Candidate, Services
    <3>3. Sourced(new)
      BY <1>1, <1>2, <2>3, <2>5 DEF Fits, Sourced, Done
    <3> QED
      BY <2>4, <3>1, <3>2, <3>3 DEF Fits
  <2>7. Clean(new) /\ ~UsesIo(new)
    BY <1>2, <2>3, <2>5 DEF Clean, UsesIo
  <2>8. Spent(new) \in 0 .. 1
    <3>1. new.tries \in 1 .. 2 /\ new.stage = "source"
      BY <1>1, <1>7, <2>5 DEF Fits, Staged
    <3> QED
      BY <2>3, <3>1 DEF Spent, Services
  <2>9. hits' \in [Loaders -> 0 .. 2] /\ hits'[l] = 2
        /\ \A k \in Loaders \ {l} : hits'[k] = hits[k]
    BY <1>1, <1>7
  <2>10. Spends(new, hits'[l], ap')
    BY <2>3, <2>8, <2>9 DEF Spends
  <2>11. \A k \in Loaders \ {l} : Spends(load[k], hits'[k], ap')
    BY <1>7, <2>9, InHand
  <2>12. Renews(new, client', bearer')
    BY <2>7, CleanRenews
  <2>13. load' = [load EXCEPT ![l] = new] /\ ap' = ap
    BY <1>1, <1>7, <2>1 DEF Go
  <2> QED
    BY <1>3, <1>4, <2>6, <2>7, <2>9, <2>10, <2>11, <2>12, <2>13, Moved
<1> QED
  BY <1>5, <1>6, <1>7 DEF Ensure

\* The number of faults a place tells is one.
LEMMA SpentType ==
  ASSUME NEW task \in Load
  PROVE  Spent(task) \in Int
<1>1. task.tries \in Int
  BY LoadTypes
<1> QED
  BY <1>1 DEF Spent

\* A fault of its own counts for the load.
LEMMA HitSpends ==
  ASSUME IInv, NEW l \in Loaders, Hit({l}), ap' = ap
  PROVE  /\ hits' \in [Loaders -> 0 .. 2] /\ hits'[l] \in 0 .. 2
         /\ Spends(load[l], hits'[l], ap)
         /\ hits'[l] = 2 \/ hits'[l] > Spent(load[l])
         /\ \A k \in Loaders \ {l} : Spends(load[k], hits'[k], ap')
<1>1. /\ load[l] \in Load /\ Fits(load[l]) /\ hits[l] \in 0 .. 2 /\ Spends(load[l], hits[l], ap)
  BY InHand
<1>2. /\ hits' \in [Loaders -> 0 .. 2] /\ hits'[l] \in 0 .. 2
      /\ \A k \in Loaders : hits'[k] >= hits[k]
      /\ hits'[l] = 2 \/ hits'[l] > hits[l]
  BY HitIs
<1>3. Spends(load[l], hits'[l], ap)
  <2>1. hits'[l] >= hits[l]
    BY <1>2
  <2> QED
    BY <1>1, <1>2, <2>1, SpendsMore
<1>4. hits'[l] = 2 \/ hits'[l] > Spent(load[l])
  <2>1. hits[l] >= Spent(load[l]) /\ Spent(load[l]) \in Int
    BY <1>1, SpentType DEF Spends
  <2> QED
    BY <1>1, <1>2, <2>1
<1>5. \A k \in Loaders \ {l} : Spends(load[k], hits'[k], ap')
  BY <1>2, OthersSpend
<1> QED
  BY <1>2, <1>3, <1>4, <1>5

\* The second service is asked on an access point that may be gone.
LEMMA AskLegacyKeeps ==
  ASSUME IInv, NEW l \in Loaders, AskLegacy(l)
  PROVE  IInv'
<1>1. /\ load[l] \in Load /\ load[l].at = "use" /\ Fits(load[l]) /\ hits[l] \in 0 .. 2
      /\ Renews(load[l], client, bearer) /\ Spends(load[l], hits[l], ap)
      /\ hits \in [Loaders -> 0 .. 2] /\ load[l].stage = "legacy"
  BY InHand DEF AskLegacy, At
<1>2. Clean(load[l]) /\ Staged(load[l]) /\ Candidate(load[l])
  BY <1>1, CleanOutside DEF Waiting, Fits
<1>3. /\ client' = client /\ bearer' = bearer /\ io' = io /\ slot' = slot /\ ap' = ap
  BY DEF AskLegacy, spare, tokens
<1>4. Scalars'
  <2>1. faults' \in 0 .. MaxFaults
    BY FaultIs DEF AskLegacy, NoFault
  <2> QED
    BY <2>1, ScalarsHold DEF AskLegacy, Scalars, spare, counters, tokens
<1>0. PICK ok \in BOOLEAN : /\ Now(l, AfterLegacy(load[l], ok))
                           /\ \/ (ok \/ ap # "up") /\ NoFault
                              \/ ~ok /\ Fault(l)
  <2>1. CASE Now(l, AfterLegacy(load[l], TRUE)) /\ NoFault
    BY <2>1
  <2>2. CASE Now(l, AfterLegacy(load[l], FALSE)) /\ Fault(l)
    BY <2>2
  <2>3. CASE ap # "up" /\ Now(l, AfterLegacy(load[l], FALSE)) /\ NoFault
    BY <2>3
  <2> QED
    BY <2>1, <2>2, <2>3 DEF AskLegacy
<1>5. PICK new : new = AfterLegacy(load[l], ok)
  OBVIOUS
<1>6. /\ hits' \in [Loaders -> 0 .. 2] /\ hits'[l] \in 0 .. 2 /\ Spends(load[l], hits'[l], ap)
      /\ (~ok => hits'[l] = 2 \/ hits'[l] > Spent(load[l]))
      /\ \A k \in Loaders \ {l} : Spends(load[k], hits'[k], ap')
  <2>1. CASE Fault(l)
    BY <1>3, <2>1, HitSpends DEF Fault
  <2>2. CASE (ok \/ ap # "up") /\ NoFault
    <3>1. hits' = hits
      BY <2>2 DEF NoFault
    <3>2. ap # "up" => hits[l] = 2 \/ hits[l] > Spent(load[l])
      BY <1>1 DEF Spends
    <3> QED
      BY <1>3, <2>2, <3>1, <3>2, InHand
  <2> QED
    BY <1>0, <2>1, <2>2
<1>7. Fits(new) /\ Clean(new) /\ ~UsesIo(new) /\ Spends(new, hits'[l], ap)
  BY <1>1, <1>2, <1>5, <1>6, AfterLegacyFits
<1>8. Renews(new, client', bearer')
  BY <1>7, CleanRenews
<1>9. load' = [load EXCEPT ![l] = new]
  <2>1. load' = [load EXCEPT ![l] = AfterLegacy(load[l], ok)]
    BY <1>0 DEF Now
  <2> QED
    BY <1>5, <2>1
<1> QED
  BY <1>3, <1>4, <1>6, <1>7, <1>8, <1>9, Moved

\* A source that fails, on an access point that is gone or by a fault.
LEMMA SourceStep ==
  ASSUME IInv, NEW l \in Loaders, load[l].at \in {"use", "key", "fallback"},
         load[l].stage = "source", load' = [load EXCEPT ![l] = SourceFailed(load[l])],
         (ap # "up" /\ NoFault) \/ Fault(l), io' = io \/ io \in {l, None},
         client' = client, bearer' = bearer, slot' = slot, ap' = ap, Scalars'
  PROVE  IInv'
<1>1. /\ load[l] \in Load /\ Fits(load[l]) /\ hits[l] \in 0 .. 2
      /\ Spends(load[l], hits[l], ap) /\ hits \in [Loaders -> 0 .. 2]
  BY InHand
<1>2. /\ hits' \in [Loaders -> 0 .. 2] /\ hits'[l] \in 0 .. 2
      /\ hits'[l] = 2 \/ hits'[l] > Spent(load[l])
      /\ \A k \in Loaders \ {l} : Spends(load[k], hits'[k], ap')
  <2>1. CASE Fault(l)
    BY <2>1, HitSpends DEF Fault
  <2>2. CASE ap # "up" /\ NoFault
    <3>1. hits' = hits
      BY <2>2 DEF NoFault
    <3>2. hits[l] = 2 \/ hits[l] > Spent(load[l])
      BY <1>1, <2>2 DEF Spends
    <3> QED
      BY <1>1, <3>1, <3>2, InHand
  <2> QED
    BY <2>1, <2>2
<1>3. load[l].tries \in 1 .. 2 /\ Spent(load[l]) = load[l].tries - 1
  BY <1>1 DEF Fits, Staged, Spent, Services
<1>4. hits'[l] >= load[l].tries
  BY <1>2, <1>3
<1>5. PICK new : new = SourceFailed(load[l])
  OBVIOUS
<1>6. Fits(new) /\ Clean(new) /\ ~UsesIo(new) /\ Spends(new, hits'[l], ap')
  BY <1>1, <1>2, <1>4, <1>5, SourceFailedFits
<1>7. Renews(new, client', bearer')
  BY <1>6, CleanRenews
<1> QED
  BY <1>2, <1>5, <1>6, <1>7, Moved

\* The access point is taken for the key and the URLs, unless it is gone.
LEMMA TakeIoKeeps ==
  ASSUME IInv, NEW l \in Loaders, TakeIo(l)
  PROVE  IInv'
<1>1. /\ load[l] \in Load /\ load[l].at = "use" /\ Fits(load[l]) /\ hits[l] \in 0 .. 2
      /\ Renews(load[l], client, bearer) /\ Spends(load[l], hits[l], ap)
      /\ load \in [Loaders -> Load] /\ hits \in [Loaders -> 0 .. 2]
      /\ load[l].stage = "source"
  BY InHand DEF TakeIo, At
<1>2. /\ client' = client /\ bearer' = bearer /\ io = None /\ slot' = slot /\ ap' = ap
      /\ hits' = hits /\ NoFault
  BY DEF TakeIo, spare, tokens, NoFault
<1>3. Scalars'
  BY ScalarsHold DEF TakeIo, NoFault, Scalars, spare, counters, tokens
<1>4. CASE ap = "up"
  <2>1. PICK new : new = [load[l] EXCEPT !.at = "key"]
    OBVIOUS
  <2>2. Clean(load[l])
    BY <1>1, CleanOutside DEF Waiting
  <2>3. Fits(new) /\ Spends(new, hits[l], "up") /\ Clean(new)
    BY <1>1, <2>1, <2>2, GoesOn
  <2>4. load' = [load EXCEPT ![l] = new] /\ io' = l
    BY <1>4, <2>1 DEF TakeIo, Go
  <2>5. Renews(new, client', bearer')
    BY <2>3, CleanRenews
  <2>6. \A k \in Loaders \ {l} : Spends(load[k], hits'[k], ap')
    BY <1>2, InHand
  <2> QED
    BY <1>1, <1>2, <1>3, <1>4, <2>3, <2>4, <2>5, <2>6, Moved
<1>5. CASE ap # "up"
  <2>1. load' = [load EXCEPT ![l] = SourceFailed(load[l])]
    BY <1>5 DEF TakeIo, Now
  <2> QED
    BY <1>1, <1>2, <1>3, <1>5, <2>1, SourceStep
<1> QED
  BY <1>4, <1>5

\* With a key, the URLs are asked for next.
LEMMA KeyedStep ==
  ASSUME IInv, NEW l \in Loaders, load[l].at \in {"key", "fallback"},
         NEW id \in {load[l].uri, load[l].gid}, load' = [load EXCEPT ![l] = Keyed(load[l], id)],
         ap = "up", NoFault, io' = io, client' = client, bearer' = bearer, slot' = slot,
         ap' = ap, Scalars'
  PROVE  IInv'
<1>1. /\ load[l] \in Load /\ Fits(load[l]) /\ hits[l] \in 0 .. 2
      /\ Renews(load[l], client, bearer) /\ Spends(load[l], hits[l], ap)
      /\ hits \in [Loaders -> 0 .. 2] /\ (UsesIo(load[l]) => io = l)
  BY InHand
<1>2. Clean(load[l]) /\ hits' = hits /\ UsesIo(load[l])
  BY <1>1, CleanOutside DEF Waiting, NoFault, UsesIo
<1>3. PICK new : new = Keyed(load[l], id)
  OBVIOUS
<1>4. Fits(new) /\ Clean(new) /\ UsesIo(new) /\ Spends(new, hits[l], ap)
  BY <1>1, <1>2, <1>3, KeyedFits
<1>5. Renews(new, client', bearer')
  BY <1>4, CleanRenews
<1>6. \A k \in Loaders \ {l} : Spends(load[k], hits'[k], ap')
  BY <1>2, InHand
<1> QED
  BY <1>1, <1>2, <1>3, <1>4, <1>5, <1>6, Moved

\* The key is asked for under the track's own identifier.
LEMMA AskKeyKeeps ==
  ASSUME IInv, NEW l \in Loaders, AskKey(l)
  PROVE  IInv'
<1>1. /\ load[l] \in Load /\ load[l].at = "key" /\ Fits(load[l]) /\ hits[l] \in 0 .. 2
      /\ Renews(load[l], client, bearer) /\ Spends(load[l], hits[l], ap)
      /\ load \in [Loaders -> Load] /\ hits \in [Loaders -> 0 .. 2] /\ io = l
  BY InHand DEF AskKey, At, UsesIo
<1>2. load[l].stage = "source"
  BY <1>1 DEF Fits, Staged
<1>3. client' = client /\ bearer' = bearer /\ slot' = slot /\ ap' = ap
  BY DEF AskKey, spare, tokens
<1>4. Scalars'
  <2>1. faults' \in 0 .. MaxFaults
    BY FaultIs DEF AskKey, NoFault
  <2>2. io' \in Loaders \cup {None}
    BY <1>1 DEF AskKey
  <2> QED
    BY <2>1, ScalarsHold DEF AskKey, Scalars, spare, counters, tokens
<1>5. CASE ap = "up" /\ Now(l, Keyed(load[l], load[l].gid)) /\ NoFault /\ UNCHANGED io
  <2>1. load' = [load EXCEPT ![l] = Keyed(load[l], load[l].gid)]
    BY <1>5 DEF Now
  <2> QED
    BY <1>1, <1>3, <1>4, <1>5, <2>1, KeyedStep
<1>6. CASE ap = "up" /\ Go(l, "fallback") /\ NoFault /\ UNCHANGED io
  <2>1. PICK new : new = [load[l] EXCEPT !.at = "fallback"]
    OBVIOUS
  <2>2. Clean(load[l])
    BY <1>1, CleanOutside DEF Waiting
  <2>3. Fits(new) /\ Spends(new, hits[l], "up") /\ Clean(new)
    BY <1>1, <2>1, <2>2, GoesOn
  <2>4. load' = [load EXCEPT ![l] = new] /\ io' = io /\ hits' = hits
    BY <1>6, <2>1 DEF Go, NoFault
  <2>5. Renews(new, client', bearer')
    BY <2>3, CleanRenews
  <2>6. \A k \in Loaders \ {l} : Spends(load[k], hits'[k], ap')
    BY <1>3, <2>4, InHand
  <2> QED
    BY <1>1, <1>3, <1>4, <1>6, <2>3, <2>4, <2>5, <2>6, Moved
<1>7. CASE ((ap # "up" /\ NoFault) \/ Fault(l)) /\ Now(l, SourceFailed(load[l])) /\ io' = None
  <2>1. load' = [load EXCEPT ![l] = SourceFailed(load[l])]
    BY <1>7 DEF Now
  <2> QED
    BY <1>1, <1>2, <1>3, <1>4, <1>7, <2>1, SourceStep
<1> QED
  BY <1>5, <1>6, <1>7 DEF AskKey

\* Then under the one first asked for.
LEMMA AskFallbackKeeps ==
  ASSUME IInv, NEW l \in Loaders, AskFallback(l)
  PROVE  IInv'
<1>1. /\ load[l].at = "fallback" /\ Fits(load[l]) /\ io = l
  BY InHand DEF AskFallback, At, UsesIo
<1>2. load[l].stage = "source"
  BY <1>1 DEF Fits, Staged
<1>3. client' = client /\ bearer' = bearer /\ slot' = slot /\ ap' = ap
  BY DEF AskFallback, spare, tokens
<1>4. Scalars'
  <2>1. faults' \in 0 .. MaxFaults
    BY FaultIs DEF AskFallback, NoFault
  <2>2. io' \in Loaders \cup {None}
    BY <1>1 DEF AskFallback
  <2> QED
    BY <2>1, ScalarsHold DEF AskFallback, Scalars, spare, counters, tokens
<1>5. CASE ap = "up" /\ Now(l, Keyed(load[l], load[l].uri)) /\ NoFault /\ UNCHANGED io
  <2>1. load' = [load EXCEPT ![l] = Keyed(load[l], load[l].uri)]
    BY <1>5 DEF Now
  <2> QED
    BY <1>1, <1>3, <1>4, <1>5, <2>1, KeyedStep
<1>6. CASE ((ap # "up" /\ NoFault) \/ Fault(l)) /\ Now(l, SourceFailed(load[l])) /\ io' = None
  <2>1. load' = [load EXCEPT ![l] = SourceFailed(load[l])]
    BY <1>6 DEF Now
  <2> QED
    BY <1>1, <1>2, <1>3, <1>4, <1>6, <2>1, SourceStep
<1> QED
  BY <1>5, <1>6 DEF AskFallback

\* The second attempt begins without an access point; the other loader, if it was about
\* to use it, has met a fault.
LEMMA ResetKeeps ==
  ASSUME IInv, NEW l \in Loaders, Reset(l)
  PROVE  IInv'
<1>1. /\ load[l] \in Load /\ load[l].at = "reset" /\ Fits(load[l]) /\ hits[l] \in 0 .. 2
      /\ Renews(load[l], client, bearer) /\ Spends(load[l], hits[l], ap)
      /\ load \in [Loaders -> Load] /\ hits \in [Loaders -> 0 .. 2]
  BY InHand DEF Reset, At
<1>2. /\ client' = client /\ bearer' = bearer /\ slot' = slot /\ ap' = "none" /\ io' = io
      /\ io = None
  BY DEF Reset, spare, tokens
<1>3. Clean(load[l]) /\ load[l].stage \in {"legacy", "source"} /\ ~load[l].again
      /\ load[l].uri \in Gids /\ load[l].tries = 1
  BY <1>1, CleanOutside DEF Fits, Staged, Candidate
<1>4. Scalars'
  BY ScalarsHold DEF Reset, Scalars, spare, counters, tokens
<1>5. /\ hits' \in [Loaders -> 0 .. 2]
      /\ \A k \in Loaders : /\ hits'[k] \in 0 .. 2 /\ hits'[k] >= hits[k]
                            /\ k \in {j \in Loaders \ {l} : At(j, "use")} =>
                                 hits'[k] = 2 \/ hits'[k] > hits[k]
  BY HitIs DEF Reset
<1>6. \A k \in Loaders \ {l} : Spends(load[k], hits'[k], ap')
  <2> SUFFICES ASSUME NEW k \in Loaders \ {l} PROVE Spends(load[k], hits'[k], "none")
    BY <1>2
  <2>1. /\ load[k] \in Load /\ Fits(load[k]) /\ hits[k] \in 0 .. 2
        /\ Spends(load[k], hits[k], ap) /\ (UsesIo(load[k]) => io = k)
    BY InHand
  <2>2. hits'[k] \in 0 .. 2 /\ hits'[k] >= hits[k]
    BY <1>5
  <2>3. Spends(load[k], hits'[k], ap)
    BY <2>1, <2>2, SpendsMore
  <2>4. load[k].at \notin {"key", "fallback"}
    BY <1>2, <2>1, LoadingAssumption DEF UsesIo
  <2>5. load[k].at = "use" => hits'[k] = 2 \/ hits'[k] > Spent(load[k])
    <3>1. load[k].at = "use" => hits'[k] = 2 \/ hits'[k] > hits[k]
      BY <1>5 DEF At
    <3>2. hits[k] >= Spent(load[k]) /\ Spent(load[k]) \in Int
      BY <2>1, SpentType DEF Spends
    <3> QED
      BY <2>1, <2>2, <3>1, <3>2
  <2> QED
    BY <2>3, <2>4, <2>5 DEF Spends
<1>7. CASE load[l].stage = "legacy"
  <2>1. PICK new : new = Extended(load[l], load[l].gid, 2)
    OBVIOUS
  <2>2. Spent(load[l]) = 2
    BY <1>1, <1>7 DEF Spent, Services
  <2>3. hits'[l] = 2
    <3>1. hits[l] >= 2
      BY <1>1, <2>2 DEF Spends
    <3> QED
      BY <1>1, <1>5, <3>1
  <2>4. Asked(load[l], load[l].gid)
    BY <1>1, <1>3, <1>7 DEF Fits, Candidate, Asked, Services
  <2>5. load[l].gid \in Gids
    BY <1>1, <1>3, <1>7, CandidateBelongs DEF Fits, Services
  <2>6. Narrowed(load[l], hits'[l], load[l].alt - 1)
    BY <2>3 DEF Narrowed
  <2>7. Fits(new) /\ Clean(new) /\ ~UsesIo(new) /\ Spends(new, hits'[l], ap')
    BY <1>1, <1>3, <2>1, <2>3, <2>4, <2>5, <2>6, ExtendedFits
  <2>8. Renews(new, client', bearer')
    BY <2>7, CleanRenews
  <2>9. load' = [load EXCEPT ![l] = new]
    BY <1>7, <2>1 DEF Reset, Now
  <2> QED
    BY <1>2, <1>4, <1>5, <1>6, <2>7, <2>8, <2>9, Moved
<1>8. CASE load[l].stage = "source"
  <2>1. PICK new : new = [load[l] EXCEPT !.at = "ensure", !.tries = 2]
    OBVIOUS
  <2>2. Shaped(new) /\ Same(new, load[l], {"at", "tries"})
    BY <1>1, <2>1 DEF Shaped, Same, Fields, Load
  <2>3. new.at = "ensure" /\ new.tries = 2
    BY <1>1, <2>1 DEF Load
  <2>4. new \in Load
    BY <1>1, <2>2, <2>3, Retyped DEF Places
  <2>5. /\ new.uri = load[l].uri /\ new.alt = load[l].alt /\ new.primary = load[l].primary
        /\ new.again = load[l].again /\ new.client = load[l].client
        /\ new.bearer = load[l].bearer /\ new.posts = load[l].posts
        /\ new.renewed = load[l].renewed /\ new.stage = load[l].stage
        /\ new.gid = load[l].gid /\ new.track = load[l].track
    BY <2>2 DEF Same, Fields
  <2>6. Staged(new)
    BY <1>3, <2>3, <2>5 DEF Staged, Waiting, Done
  <2>7. Candidate(new)
    BY <1>1, <1>8, <2>5 DEF Fits, Candidate
  <2>8. Sourced(new)
    BY <1>1, <1>8, <2>3, <2>5 DEF Fits, Sourced, Done
  <2>9. Clean(new) /\ ~UsesIo(new)
    BY <1>3, <2>3, <2>5 DEF Clean, UsesIo
  <2>10. Spent(new) = 1 /\ Spent(load[l]) = 1
    BY <1>1, <1>8, <2>3, <2>5 DEF Spent, Services
  <2>11. hits'[l] >= 1
    <3>1. hits[l] >= 1
      BY <1>1, <2>10 DEF Spends
    <3> QED
      BY <1>1, <1>5, <3>1
  <2>12. new.alt = 0
    BY <1>1, <1>8, <2>5 DEF Fits, Candidate, Services
  <2>13. Spends(new, hits'[l], ap')
    BY <2>3, <2>10, <2>11, <2>12 DEF Spends
  <2>14. Renews(new, client', bearer')
    BY <2>9, CleanRenews
  <2>15. load' = [load EXCEPT ![l] = new]
    BY <1>8, <2>1 DEF Reset, Now
  <2>16. Fits(new)
    BY <2>4, <2>6, <2>7, <2>8 DEF Fits
  <2> QED
    BY <1>2, <1>4, <1>5, <1>6, <2>9, <2>13, <2>14, <2>15, <2>16, Moved
<1> QED
  BY <1>3, <1>7, <1>8

-----------------------------------------------------------------------------
(* The playback thread, the prefetch and the world.                        *)

\* A loader that begins anew or has ended leaves the access point to the other.
LEMMA Begins ==
  ASSUME IInv, NEW l \in Loaders, NEW new, load' = [load EXCEPT ![l] = new],
         Fits(new), Clean(new), ~UsesIo(new), Spends(new, 0, ap),
         hits' = [hits EXCEPT ![l] = 0], client' = client, bearer' = bearer, io' = io,
         ap' = ap, slot' = slot, Scalars'
  PROVE  IInv'
<1>1. /\ hits' \in [Loaders -> 0 .. 2] /\ hits'[l] = 0
      /\ \A k \in Loaders \ {l} : hits'[k] = hits[k]
  BY InHand
<1>2. \A k \in Loaders \ {l} : Spends(load[k], hits'[k], ap')
  BY <1>1, InHand
<1>3. Renews(new, client', bearer')
  BY CleanRenews
<1> QED
  BY <1>1, <1>2, <1>3, Moved

\* A loader at rest has met no fault.
LEMMA IdleSpends ==
  ASSUME NEW access
  PROVE  Spends(Idle, 0, access)
BY IdleFits DEF Spends

\* A track that has been prefetched is played as it is; another is loaded.
LEMMA RunKeeps ==
  ASSUME IInv, NEW uri \in Uris, Run(uri)
  PROVE  IInv'
<1>1. Player \in Loaders
  BY DEF Loaders
<1>2. /\ client' = client /\ bearer' = bearer /\ io' = io /\ ap' = ap
      /\ hits' = [hits EXCEPT ![Player] = 0]
  BY DEF Run, tokens
<1>3. Scalars'
  <2>1. loads' \in 0 .. MaxLoads
    <3>1. loads \in 0 .. MaxLoads /\ MaxLoads \in Nat
      BY LoadingAssumption, ScalarsHold DEF Scalars
    <3> QED
      BY <3>1 DEF Run
  <2> QED
    BY <2>1, ScalarsHold DEF Run, Scalars, tokens
<1>4. CASE ~(uri \in Gids /\ Prefetched(uri))
  <2>1. PICK new : new = Started(uri)
    OBVIOUS
  <2>2. Fits(new) /\ Clean(new) /\ ~UsesIo(new) /\ Spends(new, 0, ap)
    BY <2>1, StartedFits
  <2>3. load' = [load EXCEPT ![Player] = new] /\ slot' = slot
    BY <1>4, <2>1 DEF Run, Now
  <2> QED
    BY <1>1, <1>2, <1>3, <2>2, <2>3, Begins
<1>5. CASE uri \in Gids /\ Prefetched(uri)
  <2>1. /\ Fits(slot) /\ Clean(slot) /\ slot.at = "loaded" /\ slot.uri = uri /\ slot \in Load
    BY <1>5 DEF IInv, Shelf, Prefetched, Fits
  <2>2. PICK new : new = [slot EXCEPT !.at = "playing", !.uri = uri]
    OBVIOUS
  <2>3. Shaped(new) /\ Same(new, slot, {"at", "uri"})
    BY <2>1, <2>2 DEF Shaped, Same, Fields, Load
  <2>4. new.at = "playing" /\ new.uri = uri
    BY <2>1, <2>2 DEF Load
  <2>5. new \in Load
    BY <2>1, <2>3, <2>4, Retyped DEF Places
  <2>6. /\ new.alt = slot.alt /\ new.primary = slot.primary
        /\ new.again = slot.again /\ new.client = slot.client
        /\ new.bearer = slot.bearer /\ new.posts = slot.posts
        /\ new.renewed = slot.renewed /\ new.stage = slot.stage /\ new.tries = slot.tries
        /\ new.gid = slot.gid /\ new.track = slot.track /\ new.key = slot.key
        /\ new.urls = slot.urls
    BY <2>3 DEF Same, Fields
  <2>7. slot.stage = "none" /\ slot.alt = 0
    BY <2>1 DEF Fits, Staged, Candidate, Done, Services
  <2>8. Staged(new)
    BY <2>1, <2>4, <2>6 DEF Fits, Staged, Waiting, Done
  <2>9. Candidate(new)
    BY <1>5, <2>4, <2>6, <2>7 DEF Candidate, Services
  <2>10. Sourced(new)
    BY <2>1, <2>4, <2>6 DEF Fits, Sourced, Done
  <2>11. Fits(new)
    BY <2>5, <2>8, <2>9, <2>10 DEF Fits
  <2>12. Clean(new) /\ ~UsesIo(new)
    BY <2>1, <2>4, <2>6, <2>7 DEF Clean, UsesIo
  <2>13. Spent(new) = 0
    BY <2>6, <2>7 DEF Spent, Services
  <2>14. Spends(new, 0, ap)
    BY <2>4, <2>6, <2>7, <2>13 DEF Spends
  <2>15. load' = [load EXCEPT ![Player] = new] /\ slot' = Idle
    BY <1>5, <2>2 DEF Run, Now
  <2>16. /\ hits' \in [Loaders -> 0 .. 2] /\ hits'[Player] = 0
         /\ \A k \in Loaders \ {Player} : hits'[k] = hits[k]
    BY <1>1, <1>2, InHand
  <2>17. /\ load' \in [Loaders -> Load] /\ load'[Player] = new
         /\ \A k \in Loaders \ {Player} : load'[k] = load[k]
    BY <1>1, <2>5, <2>15, InHand
  <2>18. Sorted'
    BY <2>11, <2>17, InHand DEF Sorted
  <2>19. Renewals'
    BY <1>2, <2>12, <2>17, InHand, CleanRenews DEF Renewals
  <2>20. Shelf'
    BY <2>15, IdleFits DEF Shelf
  <2>21. IoHeld'
    BY <1>2, <2>12, <2>17, InHand DEF IoHeld
  <2>22. Spending'
    BY <1>2, <2>14, <2>17, InHand DEF Spending
  <2>23. TypeOK'
    BY <1>3, <2>16, <2>17, <2>18, <2>20, TypesAgain
  <2> QED
    BY <2>18, <2>19, <2>20, <2>21, <2>22, <2>23 DEF IInv
<1> QED
  BY <1>4, <1>5

\* A track ends.
LEMMA EndTrackKeeps ==
  ASSUME IInv, EndTrack
  PROVE  IInv'
<1>1. /\ client' = client /\ bearer' = bearer /\ io' = io /\ ap' = ap /\ slot' = slot
      /\ hits' = [hits EXCEPT ![Player] = 0] /\ load' = [load EXCEPT ![Player] = Idle]
      /\ Player \in Loaders
  BY DEF EndTrack, tokens, spare, Now, Loaders
<1>2. Scalars'
  BY ScalarsHold DEF EndTrack, Scalars, tokens, spare, counters
<1> QED
  BY <1>1, <1>2, IdleFits, IdleSpends, Begins

\* The prefetch of another is started.
LEMMA KickKeeps ==
  ASSUME IInv, Kick
  PROVE  IInv'
<1>1. PICK uri \in Uris : Now(Helper, Started(uri))
  BY DEF Kick
<1>2. PICK new : new = Started(uri)
  OBVIOUS
<1>3. /\ client' = client /\ bearer' = bearer /\ io' = io /\ ap' = ap /\ slot' = slot
      /\ hits' = [hits EXCEPT ![Helper] = 0] /\ load' = [load EXCEPT ![Helper] = new]
      /\ Helper \in Loaders
  BY <1>1, <1>2 DEF Kick, tokens, Now, Loaders
<1>4. Scalars'
  <2>1. kicks' \in 0 .. MaxKicks
    <3>1. kicks \in 0 .. MaxKicks /\ MaxKicks \in Nat
      BY LoadingAssumption, ScalarsHold DEF Scalars
    <3> QED
      BY <3>1 DEF Kick
  <2> QED
    BY <2>1, ScalarsHold DEF Kick, Scalars, tokens
<1>5. Fits(new) /\ Clean(new) /\ ~UsesIo(new) /\ Spends(new, 0, ap)
  BY <1>2, StartedFits
<1> QED
  BY <1>3, <1>4, <1>5, Begins

\* One that failed is given up.
LEMMA BailKeeps ==
  ASSUME IInv, Bail
  PROVE  IInv'
<1>1. /\ client' = client /\ bearer' = bearer /\ io' = io /\ ap' = ap /\ slot' = slot
      /\ hits' = [hits EXCEPT ![Helper] = 0] /\ load' = [load EXCEPT ![Helper] = Idle]
      /\ Helper \in Loaders
  BY DEF Bail, tokens, Now, Loaders
<1>2. Scalars'
  BY ScalarsHold DEF Bail, Scalars, tokens, counters
<1> QED
  BY <1>1, <1>2, IdleFits, IdleSpends, Begins

\* What the helper has loaded goes on the shelf.
LEMMA PublishKeeps ==
  ASSUME IInv, Publish
  PROVE  IInv'
<1>1. /\ client' = client /\ bearer' = bearer /\ io' = io /\ ap' = ap /\ slot' = load[Helper]
      /\ hits' = [hits EXCEPT ![Helper] = 0] /\ load' = [load EXCEPT ![Helper] = Idle]
      /\ Helper \in Loaders /\ load[Helper].at = "loaded"
  BY DEF Publish, tokens, Now, Loaders, At
<1>2. Scalars'
  BY ScalarsHold DEF Publish, Scalars, tokens, counters
<1>3. Shelf'
  <2>1. Clean(load[Helper]) /\ Fits(load[Helper])
    <3>1. load[Helper] \in Load /\ Renews(load[Helper], client, bearer) /\ Fits(load[Helper])
      BY <1>1, InHand
    <3> QED
      BY <1>1, <3>1, CleanOutside DEF Waiting
  <2> QED
    BY <1>1, <2>1 DEF Shelf
<1>4. /\ hits' \in [Loaders -> 0 .. 2] /\ hits'[Helper] = 0
      /\ \A k \in Loaders \ {Helper} : hits'[k] = hits[k]
  BY <1>1, InHand
<1>5. /\ load' \in [Loaders -> Load] /\ load'[Helper] = Idle
      /\ \A k \in Loaders \ {Helper} : load'[k] = load[k]
  BY <1>1, InHand, IdleFits DEF Fits
<1>6. Sorted'
  BY <1>5, InHand, IdleFits DEF Sorted
<1>7. Renewals'
  BY <1>1, InHand, IdleFits, CleanRenews DEF Renewals
<1>8. IoHeld'
  BY <1>1, InHand, IdleFits DEF IoHeld
<1>9. Spending'
  BY <1>1, InHand, IdleSpends DEF Spending
<1>10. TypeOK'
  BY <1>2, <1>3, <1>4, <1>5, <1>6, TypesAgain
<1> QED
  BY <1>3, <1>6, <1>7, <1>8, <1>9, <1>10 DEF IInv

\* Whoever is loading when the access point is lost has met a fault.
LEMMA LoseApKeeps ==
  ASSUME IInv, LoseAp
  PROVE  IInv'
<1>1. /\ client' = client /\ bearer' = bearer /\ io' = io /\ ap' = "dead" /\ slot' = slot
      /\ load' = load /\ Hit({l \in Loaders : Loading(l)})
  BY DEF LoseAp, tokens, spare
<1>2. Scalars'
  <2>1. faults' \in 0 .. MaxFaults
    <3>1. faults \in 0 .. MaxFaults /\ MaxFaults \in Nat
      BY LoadingAssumption, ScalarsHold DEF Scalars
    <3> QED
      BY <3>1 DEF LoseAp
  <2> QED
    BY <2>1, ScalarsHold DEF LoseAp, Scalars, tokens, spare, counters
<1>3. /\ hits' \in [Loaders -> 0 .. 2]
      /\ \A k \in Loaders : /\ hits'[k] \in 0 .. 2 /\ hits'[k] >= hits[k]
                            /\ k \in {l \in Loaders : Loading(l)} =>
                                 hits'[k] = 2 \/ hits'[k] > hits[k]
  BY <1>1, HitIs
<1>4. Spending'
  <2> SUFFICES ASSUME NEW k \in Loaders PROVE Spends(load[k], hits'[k], "dead")
    BY <1>1 DEF Spending
  <2>1. /\ load[k] \in Load /\ Fits(load[k]) /\ hits[k] \in 0 .. 2
        /\ Spends(load[k], hits[k], ap)
    BY InHand
  <2>2. hits'[k] \in 0 .. 2 /\ hits'[k] >= hits[k]
    BY <1>3
  <2>3. Spends(load[k], hits'[k], ap)
    BY <2>1, <2>2, SpendsMore
  <2>4. load[k].at \in {"use", "key", "fallback"} =>
          hits'[k] = 2 \/ hits'[k] > Spent(load[k])
    <3>1. load[k].at \in {"use", "key", "fallback"} => hits'[k] = 2 \/ hits'[k] > hits[k]
      BY <1>3 DEF Loading
    <3>2. hits[k] >= Spent(load[k]) /\ Spent(load[k]) \in Int
      BY <2>1, SpentType DEF Spends
    <3> QED
      BY <2>1, <2>2, <3>1, <3>2
  <2> QED
    BY <2>3, <2>4 DEF Spends
<1>5. Sorted' /\ Renewals' /\ Shelf' /\ IoHeld'
  BY <1>1 DEF IInv, Sorted, Renewals, Shelf, IoHeld
<1>6. load' \in [Loaders -> Load]
  BY <1>1, InHand DEF IInv, TypeOK
<1>7. TypeOK'
  BY <1>2, <1>3, <1>5, <1>6, TypesAgain
<1> QED
  BY <1>4, <1>5, <1>7 DEF IInv

\* Copies of a token that is revoked are revoked with it.
LEMMA RevokedIs ==
  ASSUME NEW task \in Load, NEW new,
         \/ new = [task EXCEPT !.client = Revoked(@), !.renewed = FALSE]
         \/ new = [task EXCEPT !.bearer = Revoked(@), !.renewed = FALSE]
  PROVE  /\ new \in Load /\ Same(new, task, {"client", "bearer", "renewed"})
         /\ new.renewed = FALSE
         /\ new.client \in {task.client, Revoked(task.client)}
         /\ new.bearer \in {task.bearer, Revoked(task.bearer)}
<1>1. task.client \in Token /\ task.bearer \in Token
  BY LoadTypes
<1>2. Revoked(task.client) \in Token /\ Revoked(task.bearer) \in Token
  BY <1>1 DEF Revoked, Token
<1>3. CASE new = [task EXCEPT !.client = Revoked(@), !.renewed = FALSE]
  <2>1. PICK token : token = Revoked(task.client)
    OBVIOUS
  <2>2. new = [task EXCEPT !.client = token, !.renewed = FALSE]
    BY <1>3, <2>1
  <2>3. Shaped(new) /\ Same(new, task, {"client", "renewed"})
    BY <2>2 DEF Shaped, Same, Fields, Load
  <2>4. new.client = token /\ new.renewed = FALSE /\ new.bearer = task.bearer
    BY <2>2 DEF Load
  <2>5. new.renewed \in BOOLEAN
    BY <2>4
  <2>6. new \in Load
    BY <1>2, <2>1, <2>3, <2>4, <2>5, Retyped
  <2> QED
    BY <2>1, <2>3, <2>4, <2>6 DEF Same
<1>4. CASE new = [task EXCEPT !.bearer = Revoked(@), !.renewed = FALSE]
  <2>1. PICK token : token = Revoked(task.bearer)
    OBVIOUS
  <2>2. new = [task EXCEPT !.bearer = token, !.renewed = FALSE]
    BY <1>4, <2>1
  <2>3. Shaped(new) /\ Same(new, task, {"bearer", "renewed"})
    BY <2>2 DEF Shaped, Same, Fields, Load
  <2>4. new.bearer = token /\ new.renewed = FALSE /\ new.client = task.client
    BY <2>2 DEF Load
  <2>5. new.renewed \in BOOLEAN
    BY <2>4
  <2>6. new \in Load
    BY <1>2, <2>1, <2>3, <2>4, <2>5, Retyped
  <2> QED
    BY <2>1, <2>3, <2>4, <2>6 DEF Same
<1> QED
  BY <1>3, <1>4

\* Nothing else about a load changes with its tokens.
LEMMA TokensOnly ==
  ASSUME NEW task \in Load, NEW new \in Load, Fits(task), NEW n, NEW access,
         Spends(task, n, access), Same(new, task, {"client", "bearer", "renewed"})
  PROVE  Fits(new) /\ Spends(new, n, access) /\ UsesIo(new) = UsesIo(task)
<1>1. /\ new.at = task.at /\ new.uri = task.uri /\ new.alt = task.alt
      /\ new.primary = task.primary
      /\ new.again = task.again /\ new.stage = task.stage /\ new.tries = task.tries
      /\ new.gid = task.gid /\ new.ext = task.ext /\ new.track = task.track
      /\ new.key = task.key /\ new.urls = task.urls
  BY DEF Same, Fields
<1>2. Staged(new)
  BY <1>1 DEF Fits, Staged
<1>3. Candidate(new)
  BY <1>1 DEF Fits, Candidate
<1>4. Sourced(new)
  BY <1>1 DEF Fits, Sourced
<1>5. Spent(new) = Spent(task)
  BY <1>1 DEF Spent
<1>6. Spends(new, n, access)
  BY <1>1, <1>5 DEF Spends, TurnedDown
<1> QED
  BY <1>1, <1>2, <1>3, <1>4, <1>6 DEF Fits, UsesIo

\* A service refuses a token from now on.
LEMMA RevokeKeeps ==
  ASSUME IInv, Revoke
  PROVE  IInv'
<1>1. io' = io /\ ap' = ap /\ slot' = slot /\ hits' = hits
  BY DEF Revoke, spare, NoFault
<1>2. Scalars'
  <2>1. turns' \in 0 .. MaxTurns
    <3>1. turns \in 0 .. MaxTurns /\ MaxTurns \in Nat
      BY LoadingAssumption, ScalarsHold DEF Scalars
    <3>2. turns < MaxTurns /\ turns' = turns + 1
      BY DEF Revoke
    <3> QED
      BY <3>1, <3>2
  <2>2. client' \in Token /\ bearer' \in Token
    BY ScalarsHold DEF Revoke, Scalars, Token
  <2> QED
    BY <2>1, <2>2, ScalarsHold DEF Revoke, Scalars, spare, NoFault
<1>3. \A k \in Loaders : load[k] \in Load /\ Fits(load[k]) /\ Spends(load[k], hits[k], ap)
                         /\ Renews(load[k], client, bearer) /\ (UsesIo(load[k]) => io = k)
  BY InHand
<1>4. /\ load' = [k \in Loaders |-> load'[k]]
      /\ \A k \in Loaders :
           \/ load'[k] = [load[k] EXCEPT !.client = Revoked(@), !.renewed = FALSE]
           \/ load'[k] = [load[k] EXCEPT !.bearer = Revoked(@), !.renewed = FALSE]
  BY DEF Revoke
<1>5. ASSUME NEW k \in Loaders
      PROVE  /\ load'[k] \in Load /\ Fits(load'[k]) /\ Spends(load'[k], hits[k], ap)
             /\ UsesIo(load'[k]) = UsesIo(load[k]) /\ Renews(load'[k], client', bearer')
  <2>1. PICK new : new = load'[k]
    OBVIOUS
  <2>2. /\ new \in Load /\ Same(new, load[k], {"client", "bearer", "renewed"})
        /\ new.renewed = FALSE
        /\ new.client \in {load[k].client, Revoked(load[k].client)}
        /\ new.bearer \in {load[k].bearer, Revoked(load[k].bearer)}
    <3>1. load[k] \in Load
      BY <1>3
    <3> QED
      BY <1>4, <2>1, <3>1, RevokedIs
  <2>3. Fits(new) /\ Spends(new, hits[k], ap) /\ UsesIo(new) = UsesIo(load[k])
    BY <1>3, <2>2, TokensOnly
  <2>4. new.at = load[k].at /\ new.posts = load[k].posts
    BY <2>2 DEF Same, Fields
  <2>5. Renews(new, client', bearer')
    <3>1. new.client # "none" => load[k].client # "none"
      BY <2>2 DEF Revoked
    <3>2. new.bearer # "none" => load[k].bearer # "none"
      BY <2>2 DEF Revoked
    <3> QED
      BY <1>3, <2>2, <2>4, <3>1, <3>2 DEF Renews
  <2> QED
    BY <2>1, <2>2, <2>3, <2>5
<1>6. Sorted'
  BY <1>5 DEF Sorted
<1>7. Renewals'
  BY <1>5 DEF Renewals
<1>8. Shelf'
  BY <1>1 DEF IInv, Shelf
<1>9. IoHeld'
  BY <1>1, <1>3, <1>5 DEF IoHeld
<1>10. Spending'
  BY <1>1, <1>5 DEF Spending
<1>11. load' \in [Loaders -> Load] /\ hits' \in [Loaders -> 0 .. 2]
  BY <1>1, <1>4, <1>5 DEF IInv, TypeOK
<1>12. TypeOK'
  BY <1>2, <1>6, <1>8, <1>11, TypesAgain
<1> QED
  BY <1>6, <1>7, <1>8, <1>9, <1>10, <1>12 DEF IInv

\* A token's time has passed.
LEMMA LapseKeeps ==
  ASSUME IInv, Lapse
  PROVE  IInv'
<1>1. /\ io' = io /\ ap' = ap /\ slot' = slot /\ hits' = hits /\ load' = load
      /\ client' \in {client, "none"} /\ bearer' \in {bearer, "none"}
  BY DEF Lapse, spare, NoFault
<1>2. Scalars'
  <2>1. turns' \in 0 .. MaxTurns
    <3>1. turns \in 0 .. MaxTurns /\ MaxTurns \in Nat
      BY LoadingAssumption, ScalarsHold DEF Scalars
    <3> QED
      BY <3>1 DEF Lapse
  <2>2. client' \in Token /\ bearer' \in Token
    BY <1>1, ScalarsHold DEF Scalars, Token
  <2> QED
    BY <2>1, <2>2, ScalarsHold DEF Lapse, Scalars, spare, NoFault
<1>3. Renewals'
  <2> SUFFICES ASSUME NEW k \in Loaders PROVE Renews(load[k], client', bearer')
    BY <1>1 DEF Renewals
  <2>1. Renews(load[k], client, bearer)
    BY InHand
  <2> QED
    BY <1>1, <2>1 DEF Renews
<1>4. Sorted' /\ Shelf' /\ IoHeld' /\ Spending'
  BY <1>1 DEF IInv, Sorted, Shelf, IoHeld, Spending
<1>5. load' \in [Loaders -> Load] /\ hits' \in [Loaders -> 0 .. 2]
  BY <1>1 DEF IInv, TypeOK
<1>6. TypeOK'
  BY <1>2, <1>4, <1>5, TypesAgain
<1> QED
  BY <1>3, <1>4, <1>6 DEF IInv


\* No action: nothing changes.
LEMMA StutterKeeps ==
  ASSUME IInv, UNCHANGED vars
  PROVE  IInv'
<1>1. /\ load' = load /\ ap' = ap /\ io' = io /\ slot' = slot /\ hits' = hits
      /\ client' = client /\ bearer' = bearer
  BY DEF vars, tokens, spare
<1>2. Sorted' /\ Renewals' /\ Shelf' /\ IoHeld' /\ Spending'
  BY <1>1 DEF IInv, Sorted, Renewals, Shelf, IoHeld, Spending
<1>3. Scalars'
  BY ScalarsHold DEF Scalars, vars, tokens, spare, counters
<1>4. load' \in [Loaders -> Load] /\ hits' \in [Loaders -> 0 .. 2]
  BY <1>1 DEF IInv, TypeOK
<1>5. TypeOK'
  BY <1>2, <1>3, <1>4, TypesAgain
<1> QED
  BY <1>2, <1>5 DEF IInv

\* The invariant holds before anything has been asked for.
LEMMA InitKeeps == Init => IInv
<1> SUFFICES ASSUME Init PROVE IInv
  OBVIOUS
<1>1. Idle \in Load /\ Fits(Idle) /\ Clean(Idle) /\ ~UsesIo(Idle) /\ Idle.at = "idle"
  BY IdleFits DEF Fits
<1>2. \A l \in Loaders : load[l] = Idle /\ hits[l] = 0
  BY DEF Init
<1>3. load \in [Loaders -> Load] /\ hits \in [Loaders -> 0 .. 2]
  BY <1>1 DEF Init
<1>4. Sorted /\ IoHeld /\ Shelf
  BY <1>1 DEF Sorted, IoHeld, Shelf, Init
<1>5. Renewals
  BY <1>1, <1>2, CleanRenews DEF Renewals
<1>6. Spending
  BY <1>2, IdleSpends DEF Spending
<1>7. TypeOK
  <2>1. \A l \in Loaders : load[l].alt = 0
    BY <1>2, IdleFits
  <2>2. /\ 0 \in 0 .. MaxLoads /\ 0 \in 0 .. MaxKicks /\ 0 \in 0 .. MaxFaults
        /\ 0 \in 0 .. MaxTurns
    BY LoadingAssumption
  <2>3. \A l \in Loaders : load[l].alt > 0 =>
          load[l].alt <= Len(Catalogue[load[l].primary][load[l].uri].alts)
    BY <2>1
  <2>4. /\ ap \in {"none", "up", "dead"} /\ io = None /\ clientBusy = None /\ bearerBusy = None
        /\ client \in Token /\ bearer \in Token /\ slot = Idle
        /\ prefetching \in BOOLEAN /\ hostToken \in BOOLEAN
    BY DEF Init, Token
  <2>5. loads \in 0 .. MaxLoads /\ kicks \in 0 .. MaxKicks /\ faults \in 0 .. MaxFaults
        /\ turns \in 0 .. MaxTurns
    BY <2>2 DEF Init
  <2> QED
    BY <1>1, <1>3, <2>3, <2>4, <2>5 DEF TypeOK
<1> QED
  BY <1>4, <1>5, <1>6, <1>7 DEF IInv

\* Every step of a loader keeps the invariant.
LEMMA StepKeeps ==
  ASSUME IInv, NEW l \in Loaders, Step(l)
  PROVE  IInv'
BY DropClientKeeps, DropBearerKeeps, GetClientKeeps, AskClientKeeps, GetBearerKeeps,
   LoginChallengedKeeps, LoginKeeps, PostAnsweredKeeps, PostRefusedKeeps, PostFailsKeeps,
   EnsureKeeps, AskLegacyKeeps, TakeIoKeeps, AskKeyKeeps, AskFallbackKeeps, ResetKeeps
   DEF Step

\* So does every step of the program and of the world.
LEMMA NextKeeps ==
  ASSUME IInv, [Next]_vars
  PROVE  IInv'
<1>1. CASE Play \/ SkipUnplayable
  BY <1>1, RunKeeps DEF Play, SkipUnplayable
<1>2. CASE EndTrack \/ Kick \/ Publish \/ Bail
  BY <1>2, EndTrackKeeps, KickKeeps, PublishKeeps, BailKeeps
<1>3. CASE LoseAp \/ Revoke \/ Lapse
  BY <1>3, LoseApKeeps, RevokeKeeps, LapseKeeps
<1> QED
  BY <1>1, <1>2, <1>3, StepKeeps, StutterKeeps DEF Next

-----------------------------------------------------------------------------
(* The theorems.                                                           *)

\* Whatever the services list, refuse or revoke, and however the two loaders get in
\* each other's way, loading is in a state that IInv describes.
THEOREM LoadingInductive == Spec => []IInv
BY InitKeeps, NextKeeps, PTL DEF Spec

\* Every variable of the loaders keeps its type; an alternative in hand is one that
\* the service lists.
THEOREM LoadingTypes == Spec => []TypeOK
<1>1. IInv => TypeOK
  BY DEF IInv
<1> QED
  BY <1>1, LoadingInductive, PTL

\* What plays is what was asked for or an alternative of it, with the key and the URLs
\* of the one file chosen.
THEOREM LoadingPlaysItsSource == Spec => []SourceMatches
<1>1. IInv => SourceMatches
  <2> SUFFICES ASSUME IInv, At(Player, "playing") PROVE SourceMatches
    BY DEF SourceMatches
  <2>1. Player \in Loaders
    BY DEF Loaders
  <2>2. Sourced(load[Player]) /\ load[Player].at \in Done
    BY <2>1, InHand DEF Fits, At, Done
  <2> QED
    BY <2>2 DEF Sourced, SourceMatches
<1> QED
  BY <1>1, LoadingInductive, PTL

\* A request repeated with renewed tokens carries none that had been refused.
THEOREM LoadingRetryRenews == Spec => []RetryRenews
<1>1. IInv => RetryRenews
  <2> SUFFICES ASSUME IInv, NEW l \in Loaders, load[l].renewed PROVE ~Stale(load[l])
    BY DEF RetryRenews
  <2>1. Renews(load[l], client, bearer)
    BY InHand
  <2> QED
    BY <2>1 DEF Renews, Stale
<1> QED
  BY <1>1, LoadingInductive, PTL

\* Whatever the catalogue, a load the services agree on fails only after two faults.
THEOREM LoadingSurvives == Spec => []SurvivesOneFault
<1>1. IInv => SurvivesOneFault
  <2> SUFFICES ASSUME IInv, NEW l \in Loaders,
                      load[l].at \in {"failed", "unplayable"}, Agreed(load[l].uri)
               PROVE  hits[l] = 2
    BY DEF SurvivesOneFault
  <2>1. Spends(load[l], hits[l], ap)
    BY InHand
  <2>2. load[l].uri \in Gids
    BY DEF Agreed
  <2> QED
    BY <2>1, <2>2 DEF Spends
<1> QED
  BY <1>1, LoadingInductive, PTL

=============================================================================
