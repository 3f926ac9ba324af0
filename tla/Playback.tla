------------------------------ MODULE Playback ------------------------------
(***************************************************************************)
(* Who starts and stops playback: the transitions of src/session.cpp       *)
(* between tracks.  Host threads and the dealer's reader thread issue      *)
(* commands, the playback thread reaches the end of its track, and         *)
(* detached helper threads (spawn_advance, on_transfer, on_skip_prev)      *)
(* start the next one; they meet in transitions_m, queue_m and the         *)
(* unsynchronised current_track_uri.                                       *)
(*                                                                         *)
(* op[t] is what thread t is in the middle of.  queue_m is held for single *)
(* steps; transitions_m from "join" to "launch" and in "halt".  Pausing,   *)
(* seeking and the output of audio are left out: a track that plays either *)
(* ends, fails or sees stop_flag.                                          *)
(***************************************************************************)
EXTENDS Integers, Sequences, FiniteSets

CONSTANTS
  Tracks,      \* track URIs
  None,        \* the empty URI
  Hosts,       \* host threads
  Dealer,      \* the reader thread of the Connect dealer
  Helpers,     \* detached threads that may exist at a time (a bound)
  MaxHistory,  \* the cap on history_: 64 in the code
  MaxQueue,    \* bound on the length of the queue
  MaxCommands  \* bound on the number of commands

ASSUME PlaybackAssumption ==
  /\ None \notin Tracks
  /\ Dealer \notin Hosts \cup Helpers
  /\ Hosts \cap Helpers = {}
  /\ IsFiniteSet(Hosts) /\ IsFiniteSet(Helpers)
  /\ MaxHistory \in Nat \ {0}
  /\ MaxQueue \in Nat
  /\ MaxCommands \in Nat

Threads   == Hosts \cup {Dealer} \cup Helpers
Commander == Hosts \cup {Dealer}

VARIABLES
  queue,      \* queue_
  history,    \* history_
  current,    \* current_track_uri
  advancing,  \* advancing
  stop,       \* stop_flag
  player,     \* playback_thread: where it is, its track, the track it popped
  op,         \* what each other thread is doing, with which URI
  wish,       \* ghost: the thread of the last command; when that has ended,
              \* what it asked for
  commands    \* ghost: commands issued, for MaxCommands

vars == <<queue, history, current, advancing, stop, player, op, wish, commands>>

Labels == {"idle", "transfer", "start", "join", "push", "launch", "finish",
           "halt", "stop", "ask", "back"}
Holding == {"join", "push", "launch", "halt"}

Kinds == {"play", "host", "advance", "transfer"}   \* what a start serves

\* push: start_playback will push the current track onto history_.
OpType == [at : Labels, uri : Tracks \cup {None}, push : BOOLEAN, kind : Kinds]
Idle   == [at |-> "idle", uri |-> None, push |-> FALSE, kind |-> "host"]
Start(kind, uri, push) ==
  [at |-> "start", uri |-> uri, push |-> push, kind |-> kind]

\* Every variable keeps its kind of value, within the bounds.
TypeOK ==
  /\ queue \in Seq(Tracks) /\ history \in Seq(Tracks)
  /\ Len(history) <= MaxHistory
  /\ current \in Tracks \cup {None}
  /\ advancing \in BOOLEAN /\ stop \in BOOLEAN
  /\ player \in [at : {"none", "run", "pop", "ask", "advance", "returned"},
                 uri : Tracks \cup {None}, next : Tracks \cup {None}]
  /\ op \in [Threads -> OpType]
  /\ wish \in {"any", "silence", None} \cup Tracks \cup Commander
  /\ commands \in Nat

Init ==
  /\ queue = <<>> /\ history = <<>> /\ current = None
  /\ advancing = FALSE /\ stop = FALSE
  /\ player = [at |-> "none", uri |-> None, next |-> None]
  /\ op = [t \in Threads |-> Idle]
  /\ wish = "any" /\ commands = 0

-----------------------------------------------------------------------------

Free == \A t \in Threads : op[t].at \notin Holding   \* transitions_m
Joinable == player.at # "none"
Playing == player.at \in {"run", "pop", "ask", "advance"}

\* A detached thread is left for one more.  (Their bound must never be what
\* makes the playback thread or the dealer wait.)
SpareHelper ==
  Cardinality({h \in Helpers : op[h].at = "idle"})
    > (IF player.at \in {"pop", "ask", "advance"} THEN 1 ELSE 0)
      + (IF op[Dealer].at = "back" THEN 1 ELSE 0)

Become(t, state) == op' = [op EXCEPT ![t] = state]
Goto(t, label) == op' = [op EXCEPT ![t].at = label]

\* A command begins: it supersedes the earlier ones.
Begin(t) ==
  /\ t \in Commander
  /\ op[t].at = "idle"
  /\ commands < MaxCommands
  /\ commands' = commands + 1
  /\ wish' = t

\* A command ends; unless another has begun since, what it asked for is to last.
Wished(t, what) == wish' = IF wish = t THEN what ELSE wish

PushFront(uri) == IF uri = None THEN queue ELSE <<uri>> \o queue

\* Mutant: the cap of history_ is off by one.
CappedLate(h) == IF Len(h) > MaxHistory + 1 THEN Tail(h) ELSE h

Capped(h) == IF Len(h) > MaxHistory THEN Tail(h) ELSE h

-----------------------------------------------------------------------------
(* Commands of the host.                                                   *)

PlayTrack(t, uri) ==
  /\ t \in Hosts
  /\ Begin(t)
  /\ queue' = <<>>
  /\ Become(t, Start("play", uri, TRUE))
  /\ UNCHANGED <<history, current, advancing, stop, player>>

\* enqueue and enqueue_next (front), with the test for "nothing is playing".
Enqueue(t, uri, front) ==
  /\ t \in Hosts
  /\ Begin(t)
  /\ Len(queue) < MaxQueue
  /\ IF ~(Joinable /\ ~stop) /\ ~advancing /\ current = None
       THEN Become(t, Start("host", uri, TRUE)) /\ UNCHANGED queue
       ELSE /\ queue' = IF front THEN <<uri>> \o queue ELSE Append(queue, uri)
            /\ UNCHANGED op
  /\ UNCHANGED <<history, current, advancing, stop, player>>

ClearQueue(t) ==
  /\ t \in Hosts
  /\ Begin(t)
  /\ queue' = <<>>
  /\ UNCHANGED <<history, current, advancing, stop, player, op>>

\* next(): the queue first, else the Connect context.
NextTrack(t) ==
  /\ t \in Hosts
  /\ Begin(t)
  /\ IF queue # <<>>
       THEN Become(t, Start("host", Head(queue), TRUE)) /\ queue' = Tail(queue)
       ELSE Goto(t, "ask") /\ UNCHANGED queue
  /\ UNCHANGED <<history, current, advancing, stop, player>>

\* spirc->advance_to_next_track: any track, or none.
AskContext(t) ==
  /\ op[t].at = "ask"
  /\ \/ Become(t, Idle)
     \/ \E uri \in Tracks : Become(t, Start("host", uri, TRUE))
  /\ UNCHANGED <<queue, history, current, advancing, stop, player, wish, commands>>

\* previous() and on_skip_prev: take the track to go back to ...
Previous(t) ==
  /\ Begin(t)
  /\ history # <<>>
  /\ t = Dealer => SpareHelper
  /\ Become(t, [Start(IF t = Dealer THEN "advance" ELSE "host",
                      history[Len(history)], FALSE) EXCEPT !.at = "back"])
  /\ history' = SubSeq(history, 1, Len(history) - 1)
  /\ UNCHANGED <<queue, current, advancing, stop, player>>

\* ... and make the current one the next.  The host starts the track itself,
\* the dealer leaves that to a helper.
Back(t) ==
  /\ op[t].at = "back"
  /\ queue' = PushFront(current)
  /\ IF t = Dealer
       THEN \E h \in Helpers :
              /\ op[h].at = "idle"
              /\ op' = [op EXCEPT ![t] = Idle, ![h] = Start("advance", op[t].uri, FALSE)]
              /\ advancing' = TRUE
       ELSE Goto(t, "start") /\ UNCHANGED advancing
  /\ UNCHANGED <<history, current, stop, player, wish, commands>>

\* stop_track() and on_became_inactive.
StopTrack(t) ==
  /\ Begin(t)
  /\ Goto(t, "stop")
  /\ UNCHANGED <<queue, history, current, advancing, stop, player>>

-----------------------------------------------------------------------------
(* Commands of the cloud, on the dealer's reader thread.                   *)

OnTransfer(uri) ==
  /\ Begin(Dealer)
  /\ SpareHelper
  /\ \E h \in Helpers :
       /\ op[h].at = "idle"
       /\ Become(h, [Start("transfer", uri, TRUE) EXCEPT !.at = "transfer"])
  /\ UNCHANGED <<queue, history, current, advancing, stop, player>>

\* A transfer of the track that plays is coalesced with it.
Transfer(t) ==
  /\ op[t].at = "transfer"
  /\ IF op[t].uri = current /\ Joinable /\ ~stop
       THEN Become(t, Idle) ELSE Goto(t, "start")
  /\ UNCHANGED <<queue, history, current, advancing, stop, player, wish, commands>>

OnSkipNext ==
  /\ Begin(Dealer)
  /\ queue # <<>>
  /\ SpareHelper
  /\ queue' = Tail(queue)
  /\ \E h \in Helpers :
       op[h].at = "idle" /\ Become(h, Start("advance", Head(queue), TRUE))
  /\ advancing' = TRUE
  /\ UNCHANGED <<history, current, stop, player>>

-----------------------------------------------------------------------------
(* start_playback and stop_playback, under transitions_m.                  *)

Lock(t) ==
  /\ op[t].at \in {"start", "stop"}
  /\ Free
  /\ Goto(t, IF op[t].at = "start" THEN "join" ELSE "halt")
  /\ stop' = TRUE
  /\ UNCHANGED <<queue, history, current, advancing, player, wish, commands>>

\* Mutant: the playback thread is not joined.
JoinNot(t) ==
  /\ op[t].at = "join"
  /\ stop' = FALSE
  /\ Goto(t, "push")
  /\ UNCHANGED <<queue, history, current, advancing, player, wish, commands>>

\* join() returns once playback_run has; stop_flag is cleared.
Join(t) ==
  /\ op[t].at = "join"
  /\ player.at \in {"none", "returned"}
  /\ player' = [at |-> "none", uri |-> None, next |-> None]
  /\ stop' = FALSE
  /\ Goto(t, "push")
  /\ UNCHANGED <<queue, history, current, advancing, wish, commands>>

Push(t) ==
  /\ op[t].at = "push"
  /\ history' = IF op[t].push /\ current \notin {None, op[t].uri}
                  THEN Capped(Append(history, current)) ELSE history
  /\ Goto(t, "launch")
  /\ UNCHANGED <<queue, current, advancing, stop, player, wish, commands>>

Launch(t) ==
  /\ op[t].at = "launch"
  /\ current' = op[t].uri
  /\ player' = [at |-> "run", uri |-> op[t].uri, next |-> None]
  /\ IF t \in Helpers THEN Goto(t, "finish") ELSE Become(t, Idle)
  /\ IF op[t].kind = "play" THEN Wished(t, op[t].uri) ELSE UNCHANGED wish
  /\ UNCHANGED <<queue, history, advancing, stop, commands>>

\* Mutant: stop_playback does not wait for the thread.
HaltNoJoin(t) ==
  /\ op[t].at = "halt"
  /\ Become(t, Idle)
  /\ Wished(t, "silence")
  /\ UNCHANGED <<queue, history, current, advancing, stop, player, commands>>

Halt(t) ==
  /\ op[t].at = "halt"
  /\ player.at \in {"none", "returned"}
  /\ player' = [at |-> "none", uri |-> None, next |-> None]
  /\ stop' = FALSE
  /\ Become(t, Idle)
  /\ Wished(t, "silence")
  /\ UNCHANGED <<queue, history, current, advancing, commands>>

\* The helper of spawn_advance and on_skip_prev clears advancing when it is done.
Finish(h) ==
  /\ op[h].at = "finish"
  /\ Become(h, Idle)
  /\ advancing' = (advancing /\ op[h].kind = "transfer")
  /\ UNCHANGED <<queue, history, current, stop, player, wish, commands>>

-----------------------------------------------------------------------------
(* The playback thread.                                                    *)

Move(label) == player' = [player EXCEPT !.at = label]

\* It sees stop_flag, or fails with a TrackError.
Quit ==
  /\ player.at = "run"
  /\ Move("returned")
  /\ UNCHANGED <<queue, history, current, advancing, stop, op, wish, commands>>

\* The track ends (stop_flag has just been seen clear), or turns out to be
\* unplayable (stop_flag is not looked at).
EndOfTrack(unplayable) ==
  /\ player.at = "run"
  /\ stop => unplayable
  /\ SpareHelper
  /\ Move("pop")
  /\ wish' = IF wish \in Commander THEN wish ELSE "any"
  /\ UNCHANGED <<queue, history, current, advancing, stop, op, commands>>

\* Mutant: the head of the queue is played but not removed.
PopQueuePeeks ==
  /\ player.at = "pop"
  /\ player' = IF queue # <<>> THEN [player EXCEPT !.at = "advance", !.next = Head(queue)]
                               ELSE [player EXCEPT !.at = "ask"]
  /\ UNCHANGED <<queue, history, current, advancing, stop, op, wish, commands>>

PopQueue ==
  /\ player.at = "pop"
  /\ IF queue # <<>>
       THEN /\ player' = [player EXCEPT !.at = "advance", !.next = Head(queue)]
            /\ queue' = Tail(queue)
       ELSE Move("ask") /\ UNCHANGED queue
  /\ UNCHANGED <<history, current, advancing, stop, op, wish, commands>>

\* The context has a next track, or TrackEnded (TrackError) goes to the host.
AdvanceContext ==
  /\ player.at = "ask"
  /\ \/ Move("returned")
     \/ \E uri \in Tracks : player' = [player EXCEPT !.at = "advance", !.next = uri]
  /\ UNCHANGED <<queue, history, current, advancing, stop, op, wish, commands>>

\* Mutant: no second advance while one is under way.
SpawnAdvanceOnce ==
  /\ player.at = "advance"
  /\ IF advancing THEN UNCHANGED op
                  ELSE \E h \in Helpers :
       op[h].at = "idle" /\ Become(h, Start("advance", player.next, TRUE))
  /\ advancing' = TRUE
  /\ player' = [player EXCEPT !.at = "returned", !.next = None]
  /\ UNCHANGED <<queue, history, current, stop, wish, commands>>

\* spawn_advance: a helper starts the next track, this thread returns.
SpawnAdvance ==
  /\ player.at = "advance"
  /\ \E h \in Helpers : op[h].at = "idle" /\ Become(h, Start("advance", player.next, TRUE))
  /\ advancing' = TRUE
  /\ player' = [player EXCEPT !.at = "returned", !.next = None]
  /\ UNCHANGED <<queue, history, current, stop, wish, commands>>

-----------------------------------------------------------------------------

Command(t) ==
  \/ \E uri \in Tracks : PlayTrack(t, uri)
  \/ \E uri \in Tracks, front \in BOOLEAN : Enqueue(t, uri, front)
  \/ ClearQueue(t) \/ NextTrack(t) \/ Previous(t) \/ StopTrack(t)

CloudCommand == OnSkipNext \/ \E uri \in Tracks : OnTransfer(uri)

Advance(t) ==
  \/ AskContext(t) \/ Back(t) \/ Transfer(t)
  \/ Join(t) \/ Push(t) \/ Launch(t) \/ Halt(t) \/ Finish(t)

PlayerStep ==
  \/ Quit
  \/ \E unplayable \in BOOLEAN : EndOfTrack(unplayable)
  \/ PopQueue \/ AdvanceContext \/ SpawnAdvance

Next ==
  \/ \E t \in Commander : Command(t)
  \/ CloudCommand
  \/ \E t \in Threads : Lock(t) \/ Advance(t)
  \/ PlayerStep

Spec == Init /\ [][Next]_vars

\* Every thread that can move does.  transitions_m may starve a thread, but it
\* does not stay free with threads waiting.  A track need not end, but it does
\* see stop_flag.
FairSpec ==
  /\ Spec
  /\ \A t \in Threads : WF_vars(Lock(t)) /\ WF_vars(Advance(t))
  /\ WF_vars(stop /\ Quit)
  /\ WF_vars(PopQueue \/ AdvanceContext \/ SpawnAdvance)

-----------------------------------------------------------------------------
(* What a host may rely on.                                                *)

\* start_playback assigns playback_thread only when there is no thread in it (the
\* assignment to a joinable std::thread ends the program), and alone.
LaunchSafe ==
  \A t \in Threads : op[t].at \in {"push", "launch"} =>
    /\ ~Joinable
    /\ \A s \in Threads \ {t} : op[s].at \notin Holding

\* stop_flag is up exactly while a transition waits for the playback thread:
\* no stop is lost before the join, none is left over for the next track.
StopFlag == stop <=> \E t \in Threads : op[t].at \in {"join", "halt"}

\* How often a track is due: queued, or taken off and on its way to being started.
Due(uri) ==
  Cardinality({i \in DOMAIN queue : queue[i] = uri})
  + Cardinality({t \in Threads : /\ op[t].uri = uri
                                 /\ op[t].at \in {"transfer", "start", "join", "push",
                                                  "launch", "back"}})
  + (IF player.at = "advance" /\ player.next = uri THEN 1 ELSE 0)

\* Between the queue, the threads and the player no track is dropped or doubled:
\* one that is due stays so until it is started, until a command clears the queue,
\* or until its transfer finds it playing; another becomes due by a command only,
\* or from the context, or by going back.
QueueKept ==
  [][\A uri \in Tracks :
       /\ Due(uri)' < Due(uri) =>
            \/ current' = uri /\ player'.at = "run" /\ ~Joinable
            \/ queue' = <<>> /\ commands' > commands
            \/ current = uri /\ \E t \in Threads : op[t].at = "transfer"
       /\ Due(uri)' > Due(uri) =>
            \/ commands' > commands
            \/ player.at = "ask"
            \/ \E t \in Threads : op[t].at \in {"ask", "back"}]_vars

\* A track that ends with another to follow is followed by one, unless a stop
\* comes in between.
GoesOn == player.at = "advance" ~> (player.at = "run" \/ wish = "silence")

\* librespotc.h:151, of BecameInactive: "Library has stopped playback."
StaysStopped == wish = "silence" => ~Playing

=============================================================================
