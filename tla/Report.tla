------------------------------- MODULE Report -------------------------------
(***************************************************************************)
(* What the Connect device tells the cloud, and the commands that make it  *)
(* do so (src/connect/spirc_device.cpp and .h, put_state.cpp).             *)
(*                                                                         *)
(* A report is a PUT of the device's state.  The reader thread, which      *)
(* serves the dealer's messages, and the context resolver's worker send    *)
(* theirs themselves; the player's threads leave theirs in put_queue_ for  *)
(* a thread of its own.  Arguments, snapshot and PUT of a report are       *)
(* separate steps, so reports of different threads overtake each other.    *)
(*                                                                         *)
(* What a player thread tells (track, playing, position, duration) is      *)
(* named by the number n of the telling; 0 is what a report says of a      *)
(* track the player has not told about.  Of play and transfer, which are   *)
(* in module Spirc, only what they do to the context is here, and Resolve  *)
(* is their resolver.  The list of the context is fixed, and module        *)
(* ContextState has its order.                                             *)
(***************************************************************************)
EXTENDS Integers, Sequences, FiniteSets

CONSTANTS
  Hosts,       \* threads of the player and of the application
  List,        \* tracks of the context, in order
  None,        \* no track, no sender, no key
  Requests,    \* commands the dealer may deliver, in any order, repeatedly
  Clusters,    \* cluster updates it may deliver: [active, items]
  ItemTracks,  \* tracks a message may list
  Volumes,     \* volumes of its volume messages
  NoteTracks,  \* tracks the player may tell about
  InitialVolume, DefaultVolume, MaxVolume,  \* dev_cfg_, current_volume_, 65535
  PutLimit,    \* kMaxPendingPuts
  Window,      \* kMaxRecentCommandKeys
  ItemLimit,   \* tracks taken from one message
  MaxNotes,    \* bound on what the player tells
  MaxEvents    \* bound on that and on what else happens to the device

IsInjectiveSeq(s) == \A i, j \in 1 .. Len(s) : s[i] = s[j] => i = j
Members(s) == {s[i] : i \in 1 .. Len(s)}

Own == {"starter", "reader", "resolver", "worker"}   \* the device's threads
Threads == Hosts \cup Own
Direct == {"starter", "reader", "resolver"}   \* those that call put_state themselves
Items == Seq([uri : ItemTracks, queued : BOOLEAN])

ASSUME ReportAssumption ==
  /\ Hosts \cap Own = {} /\ List \in Seq(Members(List))
  /\ None \notin Members(List)
  /\ MaxVolume \in Nat /\ Volumes \subseteq 0 .. MaxVolume
  /\ InitialVolume \in 1 .. MaxVolume /\ DefaultVolume \in 1 .. MaxVolume
  /\ PutLimit \in Nat \ {0} /\ Window \in Nat \ {0} /\ ItemLimit \in Nat
  /\ MaxNotes \in Nat /\ MaxEvents \in Nat
  /\ \A r \in Requests :
       /\ r.kind \in
              {"volume", "add", "set", "options", "next", "prev", "tell", "play", "other"}
       /\ r.number \in Nat /\ r.level \in Nat /\ r.flag \in BOOLEAN /\ r.items \in Items
  /\ \A c \in Clusters : c.items \in Items

Blank ==
  [n |-> 0, track |-> None, first |-> FALSE, volume |-> 0, options |-> FALSE,
   queue |-> <<>>, next |-> <<>>]

VARIABLES
  control,     \* how far start() and stop() are
  wsOpen,      \* the dealer's socket
  putStop,     \* put_stop_
  doing,       \* per thread: where it is, and the report in its hands
  putQueue,    \* put_queue_
  memory,      \* last_playback_*: the last telling, and its track
  volume,      \* current_volume_
  isActive,    \* is_active_cloud_
  at, options, \* of ctx_state_: the position, 0 without one, and the options
  queue,       \* explicit_queue_tracks_
  recentKeys, lastNumber,  \* recent_command_keys_, last_command_msg_by_sender_
  encoded,     \* ghost: the newest contents ever put into a report
  silent,      \* ghost: whether the context was changed since, with no report to follow
  fromCloud,   \* ghost: the queue of the last cluster update taken over
  newest,      \* ghost: the telling that was queued last
  sent,        \* ghost: the telling that was taken from the queue and sent last
  served,      \* ghost: the requests carried out, in order
  pushes,      \* ghost: keys that entered recentKeys
  notes, inputs  \* ghosts: what has been told, and what has happened

commandVars == <<recentKeys, lastNumber, served, pushes>>
ctxVars == <<at, options, queue, silent>>
vars == <<control, wsOpen, putStop, doing, putQueue, memory, volume, isActive, ctxVars,
          commandVars, encoded, fromCloud, newest, sent, notes, inputs>>

Idle == [at |-> "idle", r |-> Blank]
Senders == {r.sender : r \in Requests}
Tracks == Members(List) \cup NoteTracks \cup ItemTracks

Reports ==
  [n : 0 .. MaxNotes, track : Tracks \cup {None} \cup {c.active : c \in Clusters},
   first : BOOLEAN, volume : 0 .. MaxVolume, options : BOOLEAN, queue : Seq(Tracks),
   next : Seq(Tracks)]

TypeOK ==
  /\ control \in {"off", "starting", "started", "failed", "closed", "joined", "cleared", "ended"}
  /\ wsOpen \in BOOLEAN /\ putStop \in BOOLEAN /\ isActive \in BOOLEAN
  /\ doing \in [Threads -> [at : {"none", "idle", "echo", "queue", "encode", "put", "gone"},
                            r : Reports]]
  /\ putQueue \in Seq(Reports) /\ Len(putQueue) <= PutLimit
  /\ memory \in [n : 0 .. MaxNotes, track : Tracks \cup {None}]
  /\ volume \in 0 .. MaxVolume
  /\ at \in 0 .. Len(List) /\ options \in BOOLEAN /\ queue \in Seq(Tracks)
  /\ Len(recentKeys) <= Window /\ lastNumber \in [Senders -> Nat]
  /\ encoded \in Reports /\ silent \in BOOLEAN
  /\ newest \in 0 .. notes /\ sent \in 0 .. notes
  /\ notes \in 0 .. MaxNotes /\ inputs \in 0 .. MaxEvents

Init ==
  /\ control = "off" /\ wsOpen = FALSE /\ putStop = FALSE
  /\ doing = [t \in Threads |->
                IF t \in {"reader", "worker"} THEN [Idle EXCEPT !.at = "none"] ELSE Idle]
  /\ putQueue = <<>> /\ memory = [n |-> 0, track |-> None]
  /\ volume = DefaultVolume /\ isActive = FALSE
  /\ at = 0 /\ options = FALSE /\ queue = <<>>
  /\ recentKeys = <<>> /\ lastNumber = [s \in Senders |-> 0]
  /\ encoded = Blank /\ silent = FALSE /\ fromCloud = <<>>
  /\ newest = 0 /\ sent = 0 /\ served = <<>> /\ pushes = 0 /\ notes = 0 /\ inputs = 0

-----------------------------------------------------------------------------
(* The explicit queue, and what is advertised of it.                       *)

\* The elements of a sequence at the given places.
Picked(s, places) ==
  LET upto[i \in 0 .. Len(s)] ==
        IF i = 0 THEN <<>>
        ELSE IF i \in places THEN Append(upto[i - 1], s[i]) ELSE upto[i - 1]
  IN upto[Len(s)]

Distinct(s) == Picked(s, {i \in 1 .. Len(s) : \A j \in 1 .. i - 1 : s[j] # s[i]})
Without(s, x) == Picked(s, {i \in 1 .. Len(s) : s[i] # x})
Capped(s) == SubSeq(s, 1, IF Len(s) < ItemLimit THEN Len(s) ELSE ItemLimit)

\* The tracks of a message, however deep in it and in whatever encoding.
Uris(items) == [i \in 1 .. Len(items) |-> items[i].uri]
Queued(items) == Picked(items, {i \in 1 .. Len(items) : items[i].queued})

\* What add_to_queue, set_queue and cluster updates make of theirs.
CollectTracks(items) == Capped(Distinct(Uris(items)))
CollectSetQueue(items) == Distinct(Uris(Queued(items)))
CollectExplicit(items) == Capped(Distinct(Uris(Queued(items))))

Upcoming == IF at = 0 THEN <<>> ELSE SubSeq(List, at + 1, Len(List))

\* Mutant: the queue is left out.
AdvertisedUnmerged(track) ==
  IF queue = <<>> THEN Upcoming ELSE Distinct(Without(Upcoming, track))

\* next_tracks of a report that is about the given track: the merged list is used
\* only when it has another length than the context's own.
Advertised(track) ==
  LET merged == Distinct(Without(queue \o Upcoming, track))
  IN IF queue = <<>> \/ Len(merged) = Len(Upcoming) THEN Upcoming ELSE merged

\* add_explicit_queue_track for each.
Added(tracks) ==
  queue \o Picked(tracks, {i \in 1 .. Len(tracks) : tracks[i] \notin Members(queue)})

Current == IF at = 0 THEN None ELSE List[at]

-----------------------------------------------------------------------------
(* Reports.                                                                *)

\* What remembered_playback_* and estimated_playback_position_ms know of a track.
Known(track) == IF track # None /\ track = memory.track THEN memory.n ELSE 0

Busy(t, label) == doing[t].at = label
Go(t, label) == doing' = [doing EXCEPT ![t].at = label]
Rest(t) == doing' = [doing EXCEPT ![t] = Idle]

\* Thread t is about to report on a track, on its own initiative.
About(t, track) ==
  doing' = [doing EXCEPT ![t] =
              [at |-> "encode", r |-> [Blank EXCEPT !.n = Known(track), !.track = track]]]

\* A volume of 0 is reported as the initial one.
Shown(v) == IF v = 0 THEN InitialVolume ELSE v

\* The snapshot taken by put_state; without a track there is no player state.  queue
\* is put_state's copy of the explicit queue: next, made of it, is what is sent.
Contents(r) ==
  LET base == [r EXCEPT !.volume = Shown(volume)]
  IN IF r.track = None THEN base
     ELSE [base EXCEPT !.options = options, !.queue = queue, !.next = Advertised(r.track)]

Encode(t) ==
  LET r == Contents(doing[t].r)
  IN /\ Busy(t, "encode")
     /\ doing' = [doing EXCEPT ![t] = [at |-> "put", r |-> r]]
     /\ encoded' = IF r.track = None THEN [encoded EXCEPT !.volume = r.volume, !.first = r.first]
                   ELSE [r EXCEPT !.n = 0]
     /\ silent' = (silent /\ r.track = None)
     /\ sent' = (IF t = "worker" THEN r.n ELSE sent)
     /\ UNCHANGED <<control, wsOpen, putStop, putQueue, memory, volume, isActive, at, options,
                    queue, commandVars, fromCloud, newest, notes, inputs>>

\* The PUT of a running device comes back; the cloud may have refused it.
Put(t) ==
  /\ Busy(t, "put") /\ t # "starter"
  /\ Rest(t)
  /\ UNCHANGED <<control, wsOpen, putStop, putQueue, memory, volume, isActive, ctxVars,
                 commandVars, encoded, fromCloud, newest, sent, notes, inputs>>

-----------------------------------------------------------------------------
(* start and stop.                                                         *)

\* The dealer greets: the device announces itself.
Connect ==
  /\ control = "off"
  /\ control' = "starting" /\ wsOpen' = TRUE
  /\ doing' = [doing EXCEPT !["starter"] =
                 [at |-> "encode", r |-> [Blank EXCEPT !.first = TRUE]]]
  /\ UNCHANGED <<putStop, putQueue, memory, volume, isActive, ctxVars, commandVars,
                 encoded, fromCloud, newest, sent, notes, inputs>>

\* No token, no address, no socket, no greeting.
ConnectFails ==
  /\ control = "off" /\ control' = "failed"
  /\ UNCHANGED <<wsOpen, putStop, doing, putQueue, memory, volume, isActive, ctxVars,
                 commandVars, encoded, fromCloud, newest, sent, notes, inputs>>

\* The announcement is accepted: the volume is set and both threads are started.
Started ==
  /\ Busy("starter", "put")
  /\ volume' = InitialVolume
  /\ control' = "started" /\ putStop' = FALSE
  /\ doing' = [doing EXCEPT !["starter"] = Idle, !["reader"] = Idle, !["worker"] = Idle]
  /\ UNCHANGED <<wsOpen, putQueue, memory, isActive, ctxVars, commandVars, encoded,
                 fromCloud, newest, sent, notes, inputs>>

Refused ==
  /\ Busy("starter", "put")
  /\ Rest("starter") /\ control' = "failed" /\ wsOpen' = FALSE
  /\ UNCHANGED <<putStop, putQueue, memory, volume, isActive, ctxVars, commandVars,
                 encoded, fromCloud, newest, sent, notes, inputs>>

StopUnchanged ==
  UNCHANGED <<memory, volume, isActive, ctxVars, commandVars, encoded, fromCloud,
              newest, sent, notes, inputs>>

StopClose ==
  /\ control = "started"
  /\ control' = "closed" /\ wsOpen' = FALSE
  /\ UNCHANGED <<putStop, doing, putQueue>> /\ StopUnchanged

\* Mutant: the worker is not told.
StopJoinQuietly ==
  /\ control = "closed" /\ Busy("reader", "gone")
  /\ control' = "joined"
  /\ UNCHANGED <<wsOpen, putStop, doing, putQueue>> /\ StopUnchanged

\* The reader has ended: the worker is next.
StopJoin ==
  /\ control = "closed" /\ Busy("reader", "gone")
  /\ control' = "joined" /\ putStop' = TRUE
  /\ UNCHANGED <<wsOpen, doing, putQueue>> /\ StopUnchanged

\* put_queue_ is cleared under its lock, and then the worker is woken.
StopClear ==
  /\ control = "joined"
  /\ control' = "cleared" /\ putQueue' = <<>>
  /\ UNCHANGED <<wsOpen, putStop, doing>> /\ StopUnchanged

StopEnd ==
  /\ control = "cleared" /\ Busy("worker", "gone")
  /\ control' = "ended"
  /\ UNCHANGED <<wsOpen, putStop, doing, putQueue>> /\ StopUnchanged

-----------------------------------------------------------------------------
(* The queue of reports.                                                   *)

\* Mutant: nothing is dropped.
KeptAll(q) == q

\* Mutant: what is dropped is the newest.
KeptOldest(q) == SubSeq(q, 1, IF Len(q) < PutLimit THEN Len(q) ELSE PutLimit)

\* The newest PutLimit reports.
Kept(q) == SubSeq(q, IF Len(q) > PutLimit THEN Len(q) - PutLimit + 1 ELSE 1, Len(q))

\* notify_state: what is told is remembered, and then queued.
Tell(t, track) ==
  /\ notes < MaxNotes /\ notes + inputs < MaxEvents /\ notes' = notes + 1
  /\ memory' = [n |-> notes', track |-> track]
  /\ doing' = [doing EXCEPT ![t] =
                 [at |-> "queue", r |-> [Blank EXCEPT !.n = notes', !.track = track]]]

Notify(h) ==
  /\ control # "off" /\ Busy(h, "idle")
  /\ \E track \in NoteTracks : Tell(h, track)
  /\ UNCHANGED <<control, wsOpen, putStop, putQueue, volume, isActive, ctxVars,
                 commandVars, encoded, fromCloud, newest, sent, inputs>>

QueuePut(t) ==
  /\ Busy(t, "queue")
  /\ putQueue' = Kept(Append(putQueue, doing[t].r))
  /\ newest' = doing[t].r.n
  /\ Rest(t)
  /\ UNCHANGED <<control, wsOpen, putStop, memory, volume, isActive, ctxVars, commandVars,
                 encoded, fromCloud, sent, notes, inputs>>

WorkerUnchanged ==
  UNCHANGED <<control, wsOpen, putStop, memory, volume, isActive, ctxVars, commandVars,
              encoded, fromCloud, newest, sent, notes, inputs>>

WorkerTake ==
  /\ Busy("worker", "idle") /\ ~putStop /\ putQueue # <<>>
  /\ putQueue' = Tail(putQueue)
  /\ doing' = [doing EXCEPT !["worker"] = [at |-> "encode", r |-> Head(putQueue)]]
  /\ WorkerUnchanged

WorkerEnd ==
  /\ Busy("worker", "idle") /\ putStop
  /\ Go("worker", "gone")
  /\ UNCHANGED putQueue /\ WorkerUnchanged

-----------------------------------------------------------------------------
(* The reader: what the dealer sends.                                      *)

\* Something happens to the device.
Input == notes + inputs < MaxEvents /\ inputs' = inputs + 1

Reading == Busy("reader", "idle") /\ wsOpen

\* The socket breaks, or has been closed.
Lost ==
  /\ wsOpen /\ control = "started" /\ Input
  /\ wsOpen' = FALSE
  /\ UNCHANGED <<control, putStop, doing, putQueue, memory, volume, isActive, ctxVars,
                 commandVars, encoded, fromCloud, newest, sent, notes>>

ReaderEnd ==
  /\ Busy("reader", "idle") /\ ~wsOpen
  /\ Go("reader", "gone")
  /\ UNCHANGED <<control, wsOpen, putStop, putQueue, memory, volume, isActive, ctxVars,
                 commandVars, encoded, fromCloud, newest, sent, notes, inputs>>

Seen(key) == key # None /\ \E i \in 1 .. Len(recentKeys) : recentKeys[i] = key

\* remember_command_key
RememberKey(key) ==
  LET all == Append(recentKeys, key)
  IN IF key = None THEN UNCHANGED <<recentKeys, pushes>>
     ELSE /\ recentKeys' = SubSeq(all, IF Len(all) > Window THEN 2 ELSE 1, Len(all))
          /\ pushes' = pushes + 1

Ordered(r) == r.sender # None /\ r.number # 0

\* Mutant: a number that has been seen passes.
StaleStrictly(r) == Ordered(r) /\ r.number < lastNumber[r.sender]

\* remember_command_message_order refuses.
Stale(r) == Ordered(r) /\ r.number <= lastNumber[r.sender]

ReaderUnchanged == UNCHANGED <<control, wsOpen, putStop, putQueue, encoded, newest, sent>>

\* A command that has been seen is acknowledged and left alone.
Ignore(r) ==
  /\ Reading /\ Input
  /\ \/ Seen(r.key) /\ UNCHANGED <<recentKeys, pushes>>
     \/ ~Seen(r.key) /\ Stale(r) /\ RememberKey(r.key)
  /\ UNCHANGED <<doing, memory, volume, isActive, ctxVars, lastNumber, served, fromCloud, notes>>
  /\ ReaderUnchanged

\* A command that is carried out makes the device active.
Accept(r) ==
  /\ Reading /\ Input /\ ~Seen(r.key) /\ ~Stale(r)
  /\ RememberKey(r.key)
  /\ lastNumber' = IF Ordered(r) THEN [lastNumber EXCEPT ![r.sender] = r.number] ELSE lastNumber
  /\ served' = Append(served, r)
  /\ isActive' = TRUE
  /\ UNCHANGED fromCloud /\ ReaderUnchanged

Stay == UNCHANGED doing

\* Mutant: the new volume is not reported.
SetVolumeSilently(r) ==
  /\ r.kind = "volume" /\ Accept(r)
  /\ IF r.level <= MaxVolume
       THEN volume' = r.level /\ Stay
       ELSE UNCHANGED volume /\ Stay
  /\ UNCHANGED <<memory, ctxVars, notes>>

SetVolume(r) ==
  /\ r.kind = "volume" /\ Accept(r)
  /\ IF r.level <= MaxVolume
       THEN volume' = r.level /\ About("reader", Current)
       ELSE UNCHANGED volume /\ Stay
  /\ UNCHANGED <<memory, ctxVars, notes>>

AddToQueue(r) ==
  /\ r.kind = "add" /\ Accept(r)
  /\ queue' = Added(CollectTracks(r.items))
  /\ IF queue' # queue THEN About("reader", Current) ELSE Stay
  /\ UNCHANGED <<memory, volume, at, options, silent, notes>>

\* replace_explicit_queue_tracks.
Replaced(tracks) == queue' = tracks

SetQueue(r) ==
  /\ r.kind = "set" /\ Accept(r)
  /\ Replaced(CollectSetQueue(r.items))
  /\ About("reader", Current)
  /\ UNCHANGED <<memory, volume, at, options, silent, notes>>

\* Mutant: what is new is compared with itself.
SetOptionsUnnoticed(r) ==
  /\ r.kind = "options" /\ Accept(r)
  /\ options' = r.flag /\ Stay
  /\ UNCHANGED <<memory, volume, at, queue, silent, notes>>

SetOptions(r) ==
  /\ r.kind = "options" /\ Accept(r)
  /\ options' = r.flag
  /\ IF r.flag # options /\ at # 0 THEN About("reader", Current) ELSE Stay
  /\ UNCHANGED <<memory, volume, at, queue, silent, notes>>

\* set_current_track_uri.  Without a position there is no list yet: tracks without a
\* position last only as long as the resolver takes to place one.
Position(track) == {i \in 1 .. Len(List) : at # 0 /\ List[i] = track}
Placed(track) == at' \in IF Position(track) = {} THEN {at} ELSE Position(track)

\* skip_next: the track that was named, or the head of the queue, or the next of the
\* list; it becomes the current one if the list has it.  (on_transfer is external.)
SkipNext(r) ==
  /\ r.kind = "next" /\ Accept(r)
  /\ \/ r.items # <<>> /\ Placed(r.items[1].uri) /\ UNCHANGED queue
     \/ r.items = <<>> /\ queue # <<>> /\ Placed(Head(queue)) /\ queue' = Tail(queue)
     \/ /\ r.items = <<>> /\ queue = <<>> /\ UNCHANGED queue
        /\ at' = IF at # 0 /\ at < Len(List) THEN at + 1 ELSE at
  /\ Stay /\ UNCHANGED <<memory, volume, options, silent, notes>>

SkipPrev(r) ==
  /\ r.kind = "prev" /\ Accept(r)
  /\ at' = IF at > 1 THEN at - 1 ELSE at
  /\ Stay /\ UNCHANGED <<memory, volume, options, queue, silent, notes>>

\* pause, resume and seek_to: the callback tells the cloud, on this thread.
PauseResumeSeek(r) ==
  /\ r.kind = "tell" /\ Accept(r)
  /\ \E track \in NoteTracks : Tell("reader", track)
  /\ UNCHANGED <<volume, ctxVars>>

\* What play, transfer and restore_context make of the context at once: options if they
\* bring any; another context's list is still to come; a track of a context that is
\* there, or a single one, is placed.  None of it is reported: a resolver does, if one
\* is needed, and the player when it gets there.
EnterContext(flag, places) ==
  /\ options' \in {options, flag}
  /\ at' \in {0, at} \cup places
  /\ silent' = (silent \/ options' # options \/ at = 0)
  /\ UNCHANGED queue

\* The places a command may mean: by its URI, or else by uid or index.
Hinted(items) == {i \in 1 .. Len(List) : items # <<>> => List[i] = items[1].uri}

\* play and transfer; play without a track resumes what there is, and that is told.
\* (on_transfer is external.)
PlayTransfer(r) ==
  /\ r.kind = "play" /\ Accept(r)
  /\ EnterContext(r.flag, Hinted(r.items))
  /\ \/ Stay /\ UNCHANGED <<memory, notes>>
     \/ at' # 0 /\ \E track \in NoteTracks : Tell("reader", track)
  /\ UNCHANGED volume

\* An endpoint that is not known, or a command without its data.
Unhandled(r) ==
  /\ r.kind = "other" /\ Accept(r)
  /\ Stay /\ UNCHANGED <<memory, volume, ctxVars, notes>>

HandleRequest ==
  \E r \in Requests :
    \/ Ignore(r) \/ SetVolume(r) \/ AddToQueue(r) \/ SetQueue(r) \/ SetOptions(r)
    \/ SkipNext(r) \/ SkipPrev(r) \/ PauseResumeSeek(r) \/ PlayTransfer(r) \/ Unhandled(r)

\* A volume message counts only while the device is active.
VolumeMessage(v) ==
  /\ Reading /\ Input
  /\ IF isActive THEN volume' = v /\ About("reader", Current) ELSE UNCHANGED volume /\ Stay
  /\ UNCHANGED <<memory, isActive, ctxVars, commandVars, fromCloud, notes>>
  /\ ReaderUnchanged

\* remember_explicit_queue compares under one lock and replaces under another.
ClusterCompare(c) ==
  LET queued == CollectExplicit(c.items)
  IN /\ Reading /\ Input
     /\ IF queued # <<>> /\ queued # queue
          THEN /\ doing' = [doing EXCEPT !["reader"] =
                    [at |-> "echo", r |-> [Blank EXCEPT !.queue = queued, !.track = c.active]]]
               /\ UNCHANGED isActive
          ELSE /\ isActive' = (IF c.active = None THEN isActive ELSE c.active = "us")
               /\ Stay
     /\ UNCHANGED <<memory, volume, ctxVars, commandVars, fromCloud, notes>>
     /\ ReaderUnchanged

TakeOver(tracks) == queue' = tracks /\ fromCloud' = tracks

\* The queue is replaced; if the device is the active one it says so.
ClusterReplace ==
  LET c == doing["reader"].r
  IN /\ Busy("reader", "echo")
     /\ TakeOver(c.queue)
     /\ isActive' = (IF c.track = None THEN isActive ELSE c.track = "us")
     /\ IF c.track = "us" /\ at # 0 THEN About("reader", Current) ELSE Rest("reader")
     /\ UNCHANGED <<memory, volume, at, options, silent, commandVars, notes, inputs>>
     /\ ReaderUnchanged

HandleMessage ==
  \/ \E v \in Volumes : VolumeMessage(v)
  \/ \E c \in Clusters : ClusterCompare(c)
  \/ ClusterReplace

-----------------------------------------------------------------------------
(* Beside the reader: the resolver, the player and the application.        *)

ElseUnchanged ==
  UNCHANGED <<control, wsOpen, putStop, putQueue, memory, volume, isActive, commandVars,
              encoded, fromCloud, newest, sent, notes>>

\* restore_context: a rebuilt device is given the old one's context.
RestoreContext ==
  /\ control = "started" /\ Input
  /\ \E flag \in BOOLEAN : EnterContext(flag, 1 .. Len(List))
  /\ UNCHANGED doing /\ ElseUnchanged

\* A resolver brings its list, places the track and reports.
Resolve ==
  /\ control = "started" /\ Busy("resolver", "idle") /\ Input
  /\ at' \in 1 .. Len(List)
  /\ About("resolver", List[at'])
  /\ UNCHANGED <<options, queue, silent>> /\ ElseUnchanged

\* advance_to_next_track: the head of the queue, or the next of the list.
PlayerAdvance ==
  /\ control = "started" /\ Input
  /\ \/ queue # <<>> /\ queue' = Tail(queue) /\ UNCHANGED at
     \/ queue = <<>> /\ at \in 1 .. Len(List) - 1 /\ at' = at + 1 /\ UNCHANGED queue
  /\ UNCHANGED <<doing, options, silent>> /\ ElseUnchanged

ClearContext ==
  /\ control = "started" /\ Input
  /\ at' = 0 /\ options' = FALSE /\ queue' = <<>>
  /\ UNCHANGED <<doing, silent>> /\ ElseUnchanged

-----------------------------------------------------------------------------

Worker == WorkerTake \/ WorkerEnd \/ Encode("worker") \/ Put("worker")
Reader == ReaderEnd \/ ClusterReplace \/ QueuePut("reader") \/ Encode("reader") \/ Put("reader")
Stop == StopJoin \/ StopClear \/ StopEnd

Next ==
  \/ Connect \/ ConnectFails \/ Started \/ Refused \/ StopClose \/ Stop
  \/ \E h \in Hosts : Notify(h)
  \/ \E t \in Threads : Encode(t) \/ Put(t) \/ QueuePut(t)
  \/ WorkerTake \/ WorkerEnd \/ Lost \/ ReaderEnd
  \/ HandleRequest \/ HandleMessage
  \/ RestoreContext \/ Resolve \/ PlayerAdvance \/ ClearContext

Spec == Init /\ [][Next]_vars

\* Threads run, a PUT comes back, and a call of stop goes on.
FairSpec == Spec /\ WF_vars(Worker) /\ WF_vars(Reader) /\ WF_vars(Stop)

-----------------------------------------------------------------------------
(* Properties.                                                             *)

\* The tracks to come that report r names include those of q.
Advertises(r, q) ==
  r.track \in Members(r.next) \/ Members(q) \ {r.track} \subseteq Members(r.next)

Suffix(s, t) == Len(s) <= Len(t) /\ s = SubSeq(t, Len(t) - Len(s) + 1, Len(t))

\* No command is carried out twice, and the commands of a sender are carried out in
\* the order of their numbers, however the dealer repeats and reorders them; one
\* without a number can come back only after Window other keys.
CommandsOnce ==
  /\ \A i, j \in 1 .. Len(served) :
       i < j /\ Ordered(served[i]) /\ served[j].sender = served[i].sender /\ Ordered(served[j])
         => served[i].number < served[j].number
  /\ \A r \in {served[i] : i \in 1 .. Len(served)} :
       LET times == Cardinality({i \in 1 .. Len(served) : served[i] = r})
       IN r.key # None => (times - 1) * Window <= pushes - times

\* Once no thread is about to report of its own, the newest snapshot has the device's
\* volume and, unless play, transfer or a restored context has changed the context since
\* (they leave the report to others), its options, and all that is left of the queue as
\* tracks to come.  Excepted are a queue that the cloud itself has sent, and a snapshot
\* that names its own track among those to come (QueueAdvertised).  Which of two reports
\* arrives last is another matter: the snapshot is the newest, its PUT may not be.
SettingsReported ==
  (control = "started" /\ ~encoded.first /\ \A t \in Direct : ~Busy(t, "encode"))
    => /\ encoded.volume = Shown(volume)
       /\ at # 0 /\ ~silent =>
            /\ encoded.options = options
            /\ \/ Suffix(queue, fromCloud)
               \/ IsInjectiveSeq(List) => Advertises(encoded, queue)

\* The explicit queue has no track twice.  A report names no track to come twice, and
\* names every other queued track, unless it names its own track too: then the lists
\* were of the same length by chance and not merged, because the player is at a track
\* the context has yet to reach.  (A context that has a track twice has more chances.)
QueueAdvertised ==
  /\ IsInjectiveSeq(queue)
  /\ IsInjectiveSeq(List) =>
       \A t \in Threads :
         LET r == doing[t].r
         IN Busy(t, "put") /\ r.track # None => IsInjectiveSeq(r.next) /\ Advertises(r, r.queue)

\* What was queued last is sent, however many reports the queue drops, unless it is
\* superseded or the device is stopped.
NewestGoesOut ==
  \A n \in 1 .. MaxNotes :
    (newest = n /\ control = "started")
      ~> sent = n \/ newest # n \/ control # "started"

\* stop() returns: both threads end.
StopEnds == (control = "closed") ~> (control = "ended")
=============================================================================
