------------------------------- MODULE Spirc --------------------------------
(***************************************************************************)
(* How the Connect device follows a playback context: the commands play,   *)
(* transfer, skip_next and skip_prev of handle_request, the workers of     *)
(* kick_context_resolver and maybe_kick_autoplay, the host's clear_context *)
(* and the end of a track (src/connect/spirc_device.cpp and .h).           *)
(*                                                                         *)
(* Commands are served by one thread, the reader.  A worker is a detached  *)
(* thread that fetches tracks and brings them in; nothing but atomic flags *)
(* and generation counters keeps the workers and the reader apart.  Each   *)
(* access to a shared flag that can matter to another thread is a step.    *)
(*                                                                         *)
(* Track <<c, n>> is the n-th of context c: 1 .. Size are those the        *)
(* resolver delivers, 0 one it does not know of, Size + 1 the continuation.*)
(* Options, metadata, cloud queues, the explicit queue and PUT state are   *)
(* left out: of ctx_state_ there remain the list and the position in it    *)
(* (module ContextState has the rest).                                     *)
(***************************************************************************)
EXTENDS Integers, Sequences

CONSTANTS
  Contexts,    \* context URIs
  Singles,     \* those that are track URIs
  Station,     \* the station that continues a context, None for most
  None,
  Hints,       \* what a play command names: [by |-> ..., n |-> ...]
  Size,        \* tracks in a context that is not single
  NearEnd,     \* the threshold of tracks_near_end
  Workers,     \* threads that can be detached at a time
  MaxCommands  \* bound on the commands, of the host and of the player too

NoHint == [by |-> "none", n |-> 0]
HintType == [by : {"none", "uri", "uid", "index"}, n : 0 .. Size]

ASSUME SpircAssumption ==
  /\ Singles \subseteq Contexts /\ None \notin Contexts
  /\ Station \in [Contexts -> (Contexts \ Singles) \cup {None}]
  /\ Hints \subseteq HintType
  /\ Size \in Nat \ {0} /\ NearEnd \in Nat /\ MaxCommands \in Nat

VARIABLES
  ctxUri,      \* ctx_uri_, and context_uri_ of ctx_state_
  resolved,    \* resolved_ctx_uri_
  list, at,    \* tracks_; current_index_ + 1, or 0 without has_index_
  generation, resolverGen,  \* context_generation_, resolver_generation_
  inFlight, pending,        \* resolver_in_flight_, pending_skip_dir_
  autoplay,    \* autoplay_in_flight_
  reader,      \* what the reader thread is serving
  clearing,    \* a host thread is inside clear_context
  worker,      \* the detached threads
  starts,      \* ghost: on_transfer calls on behalf of each command
  owed,        \* ghost: deferred skips still to be carried out
  skipOf,      \* ghost: the context in which the last skip was deferred
  commands     \* ghost: commands so far

place == <<list, at>>
flags == <<generation, resolverGen, inFlight, pending, autoplay>>
ghosts == <<owed, skipOf>>
vars == <<ctxUri, resolved, place, flags, reader, clearing, worker, starts, ghosts,
          commands>>

Tracks == Contexts \X (0 .. Size + 1)

Idle ==
  [at |-> "idle", ctx |-> None, hint |-> NoHint, cmd |-> 0, gen |-> 0, late |-> FALSE]
Busy == {"fetch", "check", "install", "place", "put", "test", "lower", "drain",
         "giveUp", "lowerOnly", "more", "join", "append", "done"}

Requests(labels) ==
  [at : labels, ctx : Contexts \cup {None}, hint : HintType,
   cmd : 0 .. MaxCommands, gen : Nat, late : BOOLEAN]

TypeOK ==
  /\ ctxUri \in Contexts \cup {None} /\ resolved \in Contexts \cup {None}
  /\ list \in Seq(Tracks) /\ at \in 0 .. Len(list)
  /\ generation \in Nat /\ resolverGen \in Nat
  /\ inFlight \in BOOLEAN /\ pending \in {-1, 0, 1} /\ autoplay \in BOOLEAN
  /\ reader \in Requests({"idle", "kick", "raise", "publish", "start",
                          "lookNext", "lookPrev", "storeNext", "storePrev"})
  /\ clearing \in BOOLEAN
  /\ worker \in [Workers -> Requests(Busy \cup {"idle"})]
  /\ starts \in [1 .. MaxCommands -> Nat]
  /\ owed \in Int /\ skipOf \in Contexts \cup {None}
  /\ commands \in 0 .. MaxCommands

Init ==
  /\ ctxUri = None /\ resolved = None /\ list = <<>> /\ at = 0
  /\ generation = 0 /\ resolverGen = 0
  /\ inFlight = FALSE /\ pending = 0 /\ autoplay = FALSE
  /\ reader = Idle /\ clearing = FALSE
  /\ worker = [w \in Workers |-> Idle]
  /\ starts = [i \in 1 .. MaxCommands |-> 0]
  /\ owed = 0 /\ skipOf = None /\ commands = 0

-----------------------------------------------------------------------------
(* The list.                                                               *)

Resolved(c) == [n \in 1 .. Size |-> <<c, n>>]

\* The positions at which resolve_skip_to can place hint h of context c.
Placements(c, h) ==
  {i \in 1 .. Len(list) : \/ h.by \in {"uri", "uid"} /\ list[i] = <<c, h.n>>
                          \/ h.by = "index" /\ i = h.n}

\* on_transfer on behalf of a command.
Start(cmd) == starts' = [starts EXCEPT ![cmd] = @ + 1]

Spare == {w \in Workers : worker[w].at = "idle"}

Continuing(c, gen) == [Idle EXCEPT !.at = "more", !.ctx = c, !.gen = gen]

\* maybe_kick_autoplay: near the end of the list a worker is detached, unless one
\* is under way.  The other workers become workers_.
MaybeAutoplay(workers_, position) ==
  IF resolved # None /\ position # 0 /\ Len(list) - position <= NearEnd /\ ~autoplay
    THEN /\ autoplay' = TRUE
         /\ \E w \in Spare :
              worker' = [workers_ EXCEPT ![w] = Continuing(resolved, generation)]
    ELSE autoplay' = autoplay /\ worker' = workers_

\* A new command; the reader serves one at a time.
Command ==
  /\ commands < MaxCommands
  /\ commands' = commands + 1

-----------------------------------------------------------------------------
(* The reader: play and transfer.                                          *)

\* set_context: the list of another context is dropped.
SetContext(c) ==
  /\ ctxUri' = c
  /\ IF c = ctxUri THEN UNCHANGED place ELSE list' = <<>> /\ at' = 0

\* play, up to kick_context_resolver: a track named by its URI starts at once.
Play(c, h) ==
  /\ reader.at = "idle" /\ Command
  /\ SetContext(c)
  /\ reader' = [Idle EXCEPT !.at = "kick", !.hint = h, !.cmd = commands']
  /\ IF h.by = "uri" THEN Start(commands') ELSE UNCHANGED starts
  /\ UNCHANGED <<resolved, flags, clearing, worker, ghosts>>

\* transfer names its track by the URI and starts it last.
Transfer(c, h) ==
  /\ reader.at = "idle" /\ h.by = "uri" /\ Command
  /\ SetContext(c)
  /\ reader' = [Idle EXCEPT !.at = "kick", !.hint = h, !.cmd = commands', !.late = TRUE]
  /\ UNCHANGED <<resolved, flags, clearing, worker, starts, ghosts>>

\* kick_context_resolver is through.
Kicked == reader' = IF reader.late THEN [reader EXCEPT !.at = "start"] ELSE Idle

StartLate ==
  /\ reader.at = "start"
  /\ Start(reader.cmd)
  /\ reader' = Idle
  /\ UNCHANGED <<ctxUri, resolved, place, flags, clearing, worker, ghosts, commands>>

\* Mutant: what was deferred is kept.
SupersedeKeepsSkip ==
  /\ generation' = generation + 1
  /\ UNCHANGED <<pending, owed>>
  /\ resolved' = ctxUri

\* A newer context: what was deferred for the last one is forgotten.
Supersede ==
  /\ generation' = generation + 1
  /\ pending' = 0 /\ owed' = 0
  /\ resolved' = ctxUri

\* kick_context_resolver is given ctx_uri_ itself and not a copy.
Kicking(known) ==
  /\ reader.at = "kick"
  /\ ctxUri # None /\ (ctxUri = resolved <=> known)
  /\ UNCHANGED <<ctxUri, clearing, skipOf, commands>>

\* The context was cleared in the meantime.
KickNothing ==
  /\ reader.at = "kick" /\ ctxUri = None
  /\ Kicked
  /\ UNCHANGED <<ctxUri, resolved, place, flags, clearing, worker, starts, ghosts, commands>>

\* A track is a context of its own.
KickSingle ==
  /\ Kicking(FALSE) /\ ctxUri \in Singles
  /\ Supersede
  /\ list' = << <<ctxUri, 1>> >> /\ at' = 1
  /\ autoplay' = TRUE
  /\ \E w \in Spare : worker' = [worker EXCEPT ![w] = Continuing(ctxUri, generation')]
  /\ Kicked
  /\ UNCHANGED <<resolverGen, inFlight, starts>>

\* Mutant: already_dispatched is not looked at.
KickKnownAgain ==
  /\ Kicking(TRUE)
  /\ \/ /\ reader.hint.by = "none" \/ ctxUri \in Singles
        /\ UNCHANGED <<at, starts>>
     \/ /\ ctxUri \notin Singles
        /\ at' \in Placements(ctxUri, reader.hint)
        /\ Start(reader.cmd)
  /\ Kicked
  /\ UNCHANGED <<resolved, list, flags, worker, owed>>

\* The context has been resolved before, or is being resolved.
KickKnown ==
  /\ Kicking(TRUE)
  /\ \/ /\ reader.hint.by = "none" \/ ctxUri \in Singles
        /\ UNCHANGED <<at, starts>>
     \/ /\ ctxUri \notin Singles
        /\ at' \in Placements(ctxUri, reader.hint)
        /\ IF reader.hint.by = "uri" THEN UNCHANGED starts ELSE Start(reader.cmd)
  /\ Kicked
  /\ UNCHANGED <<resolved, list, flags, worker, owed>>

KickResolver ==
  /\ \/ Kicking(FALSE)
     \/ /\ Kicking(TRUE)
        /\ reader.hint.by # "none" /\ Placements(ctxUri, reader.hint) = {}
  /\ ctxUri \notin Singles
  /\ Supersede
  /\ autoplay' = FALSE
  /\ reader' = [reader EXCEPT !.at = "raise", !.gen = generation']
  /\ UNCHANGED <<place, resolverGen, inFlight, worker, starts>>

Raise ==
  /\ reader.at = "raise"
  /\ inFlight' = TRUE
  /\ reader' = [reader EXCEPT !.at = "publish"]
  /\ UNCHANGED <<ctxUri, resolved, place, generation, resolverGen, pending, autoplay,
                 clearing, worker, starts, ghosts, commands>>

\* The resolver is made known, and detached.
Publish ==
  /\ reader.at = "publish"
  /\ resolverGen' = reader.gen
  /\ \E w \in Spare : 
       worker' = [worker EXCEPT ![w] = [reader EXCEPT !.at = "fetch", !.ctx = ctxUri]]
  /\ Kicked
  /\ UNCHANGED <<ctxUri, resolved, place, generation, inFlight, pending, autoplay,
                 clearing, starts, ghosts, commands>>

-----------------------------------------------------------------------------
(* The reader: skip_next and skip_prev.                                    *)

Skip(step, target, otherwise) ==
  /\ reader.at = "idle" /\ Command
  /\ IF at # 0 /\ target \in 1 .. Len(list)
       THEN /\ at' = target
            /\ Start(commands')
            /\ IF step = 1 THEN MaybeAutoplay(worker, target) ELSE UNCHANGED <<autoplay, worker>>
            /\ UNCHANGED reader
       ELSE /\ reader' = [Idle EXCEPT !.at = otherwise, !.cmd = commands']
            /\ UNCHANGED <<at, autoplay, worker, starts>>
  /\ UNCHANGED <<ctxUri, resolved, list, generation, resolverGen, inFlight, pending,
                 clearing, ghosts>>

SkipNext == Skip(1, at + 1, "lookNext")
SkipPrev == Skip(-1, at - 1, "lookPrev")

\* There is nowhere to go: is that because the tracks are still to come?
LookNext ==
  /\ reader.at = "lookNext"
  /\ IF inFlight
       THEN reader' = [reader EXCEPT !.at = "storeNext", !.ctx = resolved] /\ UNCHANGED ctxUri
       ELSE IF at # 0 /\ ctxUri # None /\ Station[ctxUri] # None
              THEN /\ ctxUri' = Station[ctxUri]
                   /\ reader' = [reader EXCEPT !.at = "kick"]
              ELSE reader' = Idle /\ UNCHANGED ctxUri
  /\ IF ctxUri' = ctxUri THEN UNCHANGED place ELSE list' = <<>> /\ at' = 0
  /\ UNCHANGED <<resolved, flags, clearing, worker, starts, ghosts, commands>>

LookPrev ==
  /\ reader.at = "lookPrev"
  /\ reader' = IF inFlight THEN [reader EXCEPT !.at = "storePrev", !.ctx = resolved] ELSE Idle
  /\ UNCHANGED <<ctxUri, resolved, place, flags, clearing, worker, starts, ghosts,
                 commands>>

Defer ==
  /\ reader.at \in {"storeNext", "storePrev"}
  /\ pending' = IF reader.at = "storeNext" THEN 1 ELSE -1
  /\ owed' = 1 /\ skipOf' = reader.ctx
  /\ reader' = Idle
  /\ UNCHANGED <<ctxUri, resolved, place, generation, resolverGen, inFlight, autoplay,
                 clearing, worker, starts, commands>>

-----------------------------------------------------------------------------
(* The resolver's worker.                                                  *)

Now(w, label) == worker[w].at = label
Then(w, label) == worker' = [worker EXCEPT ![w].at = label]
Gone(w) == worker' = [worker EXCEPT ![w] = Idle]

Beside == UNCHANGED <<ctxUri, resolved, reader, clearing, commands>>

\* resolve_context_tracks succeeds, or the worker leaves.
Fetch(w) ==
  /\ Now(w, "fetch")
  /\ (worker[w].ctx # None /\ Then(w, "check")) \/ Then(w, "giveUp")
  /\ Beside /\ UNCHANGED <<place, flags, starts, ghosts>>

Latest(w) == generation = worker[w].gen /\ resolved = worker[w].ctx

Check(w) ==
  /\ Now(w, "check")
  /\ Then(w, IF Latest(w) THEN "install" ELSE "giveUp")
  /\ Beside /\ UNCHANGED <<place, flags, starts, ghosts>>

\* Mutant: the position outlives the list it belongs to.
InstallKeepsIndex(w) ==
  LET h == worker[w].hint
      c == worker[w].ctx
  IN /\ Now(w, "install")
     /\ list' = (IF h.by = "uri" /\ h.n = 0 THEN << <<c, 0>> >> ELSE <<>>) \o Resolved(c)
     /\ at' = at
     /\ Then(w, "place")
     /\ Beside /\ UNCHANGED <<flags, starts, ghosts>>

\* set_tracks, with the track that was asked for if the fetch lacks it.
Install(w) ==
  LET h == worker[w].hint
      c == worker[w].ctx
  IN /\ Now(w, "install")
     /\ list' = (IF h.by = "uri" /\ h.n = 0 THEN << <<c, 0>> >> ELSE <<>>) \o Resolved(c)
     /\ at' = 0
     /\ Then(w, "place")
     /\ Beside /\ UNCHANGED <<flags, starts, ghosts>>

\* resolve_skip_to, or the head of the list.
PlaceHint(w) ==
  LET h == worker[w].hint
      spots == Placements(worker[w].ctx, h)
  IN /\ Now(w, "place")
     /\ IF spots # {} THEN at' \in spots
        ELSE at' = IF h.by # "uri" /\ list # <<>> THEN 1 ELSE at
     /\ IF h.by = "uri" THEN UNCHANGED starts ELSE Start(worker[w].cmd)
     /\ Then(w, "put")
     /\ Beside /\ UNCHANGED <<list, flags, ghosts>>

\* The state has been put; the context may be short.
Put(w) ==
  /\ Now(w, "put")
  /\ MaybeAutoplay([worker EXCEPT ![w].at = "test"], at)
  /\ Beside
  /\ UNCHANGED <<place, generation, resolverGen, inFlight, pending, starts, ghosts>>

\* Only the worker of the last resolver may lower the flag.
Test(w) ==
  /\ Now(w, "test")
  /\ Then(w, IF resolverGen = worker[w].gen THEN "lower" ELSE "drain")
  /\ Beside /\ UNCHANGED <<place, flags, starts, ghosts>>

Lower(w) ==
  /\ Now(w, "lower")
  /\ inFlight' = FALSE
  /\ Then(w, "drain")
  /\ Beside
  /\ UNCHANGED <<place, generation, resolverGen, pending, autoplay, starts, ghosts>>

\* The deferred skip, if there is one, is carried out where that is possible.
Drain(w) ==
  LET target == at + pending
      moved == pending # 0 /\ at # 0 /\ target \in 1 .. Len(list)
  IN /\ Now(w, "drain")
     /\ pending' = 0
     /\ at' = IF moved THEN target ELSE at
     /\ owed' = IF moved THEN owed - 1 ELSE 0
     /\ Gone(w)
     /\ Beside
     /\ UNCHANGED <<list, generation, resolverGen, inFlight, autoplay, starts, skipOf>>

\* Mutant: a worker that gives up leaves the flag up.
GiveUpSilent(w) ==
  /\ Now(w, "giveUp")
  /\ Gone(w)
  /\ Beside /\ UNCHANGED <<place, flags, starts, ghosts>>

\* The fetch has failed, or its result is stale.
GiveUp(w) ==
  /\ Now(w, "giveUp")
  /\ IF resolverGen = worker[w].gen THEN Then(w, "lowerOnly") ELSE Gone(w)
  /\ Beside /\ UNCHANGED <<place, flags, starts, ghosts>>

LowerOnly(w) ==
  /\ Now(w, "lowerOnly")
  /\ inFlight' = FALSE
  /\ Gone(w)
  /\ Beside
  /\ UNCHANGED <<place, generation, resolverGen, pending, autoplay, starts, ghosts>>

-----------------------------------------------------------------------------
(* The worker of maybe_kick_autoplay.                                      *)

FetchMore(w) ==
  /\ Now(w, "more")
  /\ Then(w, "join") \/ Then(w, "done")
  /\ Beside /\ UNCHANGED <<place, flags, starts, ghosts>>

Join(w) ==
  /\ Now(w, "join")
  /\ Then(w, IF Latest(w) THEN "append" ELSE "done")
  /\ Beside /\ UNCHANGED <<place, flags, starts, ghosts>>

\* append_tracks passes over what the list already holds.
AppendMore(w) ==
  LET more == <<worker[w].ctx, Size + 1>>
  IN /\ Now(w, "append")
     /\ list' = IF \E i \in 1 .. Len(list) : list[i] = more THEN list ELSE Append(list, more)
     /\ Then(w, "done")
     /\ Beside /\ UNCHANGED <<at, flags, starts, ghosts>>

Done(w) ==
  /\ Now(w, "done")
  /\ autoplay' = FALSE
  /\ Gone(w)
  /\ Beside
  /\ UNCHANGED <<place, generation, resolverGen, inFlight, pending, starts, ghosts>>

-----------------------------------------------------------------------------
(* The host and the player.                                                *)

\* clear_context, of play_track: first what outdates the workers ...
ClearContext ==
  /\ ~clearing /\ Command
  /\ generation' = generation + 1 /\ resolverGen' = 0
  /\ clearing' = TRUE
  /\ UNCHANGED <<ctxUri, resolved, place, inFlight, pending, autoplay, reader, worker,
                 starts, ghosts>>

\* ... then what they have left.
ClearRest ==
  /\ clearing
  /\ inFlight' = FALSE /\ pending' = 0 /\ autoplay' = FALSE
  /\ ctxUri' = None /\ resolved' = None
  /\ list' = <<>> /\ at' = 0
  /\ clearing' = FALSE /\ owed' = 0
  /\ UNCHANGED <<generation, resolverGen, reader, worker, starts, skipOf, commands>>

\* advance_to_next_track, at the end of a track.
AdvanceToNextTrack ==
  /\ Command
  /\ at # 0 /\ at < Len(list)
  /\ at' = at + 1
  /\ UNCHANGED <<ctxUri, resolved, list, flags, reader, clearing, worker, starts, ghosts>>

-----------------------------------------------------------------------------

ReaderStep ==
  \/ \E c \in Contexts, h \in Hints : Play(c, h) \/ Transfer(c, h)
  \/ StartLate \/ KickNothing \/ KickSingle \/ KickKnown \/ KickResolver \/ Raise \/ Publish
  \/ SkipNext \/ SkipPrev \/ LookNext \/ LookPrev \/ Defer

WorkerStep(w) ==
  \/ Fetch(w) \/ Check(w) \/ Install(w) \/ PlaceHint(w) \/ Put(w) \/ Test(w)
  \/ Lower(w) \/ Drain(w) \/ GiveUp(w) \/ LowerOnly(w)
  \/ FetchMore(w) \/ Join(w) \/ AppendMore(w) \/ Done(w)

Next ==
  \/ ReaderStep
  \/ \E w \in Workers : WorkerStep(w)
  \/ ClearContext \/ ClearRest \/ AdvanceToNextTrack

Spec == Init /\ [][Next]_vars

-----------------------------------------------------------------------------
(* What the device may rely on.                                            *)

\* The worker of resolver g is still to look at the flag, or about to lower it.
Lowers(w, g) ==
  /\ worker[w].gen = g
  /\ worker[w].at \in {"fetch", "check", "install", "place", "put", "test", "lower",
                       "giveUp", "lowerOnly"}

\* A flag that is up comes down: resolver_in_flight_ and autoplay_in_flight_ stand
\* for somebody who will lower them.  Otherwise skips are deferred for ever, and
\* no continuation is ever fetched again.
FlagsCovered ==
  /\ inFlight => \/ clearing
                 \/ reader.at = "publish"
                 \/ \E w \in Workers : Lowers(w, resolverGen)
  /\ autoplay => \E w \in Workers : worker[w].at \in {"more", "join", "append", "done"}

\* A deferred skip is carried out once, whoever drains it.
SkipOnce == owed >= 0

\* A skip that is still deferred was given for the context that is being resolved
\* now, never for an earlier one.
SkipInContext == pending # 0 => skipOf = resolved \/ resolved = None

\* The handler and its resolver between them start at most one track per command
\* (already_dispatched).
OneStart == \A i \in 1 .. MaxCommands : starts[i] <= 1
=============================================================================
