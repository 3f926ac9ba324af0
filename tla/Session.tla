------------------------------ MODULE Session -------------------------------
(***************************************************************************)
(* Connecting, reconnecting and disconnecting (src/session.cpp).           *)
(*                                                                         *)
(* The playback thread and the prefetch helper fetch what a track needs    *)
(* from the access point; each calls ensure_connected first, which may     *)
(* tear down and rebuild the access point's connection, the Connect device *)
(* or both, and each resets the access point between its two attempts.     *)
(* The application connects, plays, stops and disconnects, from any thread *)
(* and whatever else is under way: connect neither looks for a session     *)
(* that is there nor takes a mutex.  The reader thread of the Connect      *)
(* device stops playback when another device becomes active.  They meet in *)
(* reconnect_m, ap_io_m, transitions_m, and in each other's ends, which    *)
(* they wait for.                                                          *)
(*                                                                         *)
(* Where the code uses an object that another thread has destroyed or      *)
(* replaced, the process may die (crashed) or the call come to nothing.    *)
(***************************************************************************)
EXTENDS Integers

CONSTANTS
  Hosts,        \* threads of the application
  Player,       \* the playback thread
  Helper,       \* the prefetch helper
  Devices,      \* Connect devices that exist at one time; each is its reader thread, too
  None,         \* nobody
  MaxCommands,  \* bound on the application's commands
  MaxFaults,    \* bound on lost connections
  MaxMessages   \* bound on the dealer's messages

Fetchers == {Player, Helper}
Closers == Hosts \cup Fetchers     \* those who make and destroy devices
Threads == Closers \cup Devices

ASSUME SessionAssumption ==
  /\ Player # Helper /\ Hosts \cap Fetchers = {} /\ Devices \cap Closers = {}
  /\ None \notin Threads
  /\ MaxCommands \in Nat /\ MaxFaults \in Nat /\ MaxMessages \in Nat

VARIABLES
  doing,        \* per thread: where it is and what for
  ap,           \* disp; and who logs in over sock and its codec
  device,       \* what spirc points to
  wsOpen,       \* its dealer's socket
  context,      \* the device has a playback context
  blob,         \* there is last_login_blob, or the cache has credentials
  reconnect,    \* the holder of reconnect_m
  io,           \* the holder of ap_io_m while it waits for the access point
  transitions,  \* the holder of transitions_m
  stop,         \* stop_flag
  cancel,       \* connect_cancel_requested
  crashed,      \* the process has died
  promised,     \* ghost: a reconnect owes the device its context
  met,          \* ghost: connect has logged in or made a device since the reconnect began
  commands, faults, messages   \* ghosts: counters for the bounds

locks == <<reconnect, io, transitions>>
deviceVars == <<device, wsOpen>>
ghosts == <<promised, met>>
counters == <<commands, faults, messages>>
vars == <<doing, ap, deviceVars, context, blob, locks, stop, cancel, crashed, ghosts, counters>>

Places ==
  {"none", "idle", "ensure", "test", "open", "login", "init", "start", "replace", "launch",
   "failed", "close", "join", "reset", "restore", "use", "using", "run", "returned", "halt",
   "await", "wait", "new", "loop", "ended"}
Whys ==   \* what a login, a reset or a halt is for
  {"none", "cached", "oauth", "zeroconf", "connect", "relogin", "rebuild", "full", "dealer", "retry",
   "play", "stop", "disconnect", "inactive"}
Task == [at : Places, why : Whys, fetch : {"none", "metadata", "source"}, tries : 0 .. 2,
         seed : BOOLEAN, dev : Devices \cup {None}]
Idle == [at |-> "idle", why |-> "none", fetch |-> "none", tries |-> 0, seed |-> FALSE,
         dev |-> None]
Gone == [Idle EXCEPT !.at = "none"]
Fetch(kind) == [Idle EXCEPT !.at = "ensure", !.fetch = kind, !.tries = 1]

\* t is destroying a device that is no longer spirc's.
Destroys(t, d) ==
  doing[t].dev = d /\ (doing[t].at = "replace" \/ (doing[t].at = "join" /\ doing[t].why = "dealer"))

\* No device is lost: it is spirc's, or somebody is destroying it.
DevicesHeld ==
  \A d \in Devices : doing[d].at # "none" => d = device \/ \E t \in Closers : Destroys(t, d)

TypeOK ==
  /\ doing \in [Threads -> Task]
  /\ ap \in [disp : {"none", "live", "dead"}, by : Closers \cup {None}]
  /\ device \in Devices \cup {None} /\ wsOpen \in BOOLEAN /\ context \in BOOLEAN
  /\ DevicesHeld
  /\ reconnect \in Fetchers \cup {None} /\ io \in Fetchers \cup {None}
  /\ transitions \in Hosts \cup Devices \cup {None}
  /\ blob \in BOOLEAN /\ stop \in BOOLEAN /\ cancel \in BOOLEAN /\ crashed \in BOOLEAN
  /\ promised \in BOOLEAN /\ met \in BOOLEAN
  /\ commands \in 0 .. MaxCommands /\ faults \in 0 .. MaxFaults /\ messages \in 0 .. MaxMessages

NoAp == [disp |-> "none", by |-> None]

Init ==
  /\ doing = [t \in Threads |-> IF t \in {Player} \cup Devices THEN Gone ELSE Idle]
  /\ ap = NoAp
  /\ device = None /\ wsOpen = FALSE /\ context = FALSE
  /\ blob \in BOOLEAN /\ reconnect = None /\ io = None /\ transitions = None
  /\ stop = FALSE /\ cancel = FALSE /\ crashed = FALSE /\ promised = FALSE /\ met = FALSE
  /\ commands = 0 /\ faults = 0 /\ messages = 0

At(t, place) == ~crashed /\ doing[t].at = place
Go(t, place) == doing' = [doing EXCEPT ![t].at = place]
GoFor(t, place, why) == doing' = [doing EXCEPT ![t].at = place, ![t].why = why]

-----------------------------------------------------------------------------
(* Logging in.                                                             *)

Connecting(t) == doing[t].why \in {"cached", "oauth", "zeroconf", "connect"}

\* ensure_connected returns: reconnect_m is released, the request can be sent.
Resume(t) ==
  /\ doing' = [doing EXCEPT ![t].at = "use", ![t].why = "none", ![t].seed = FALSE]
  /\ reconnect' = None

\* The socket a thread works with has been destroyed, or replaced, under it.
Torn(t) == ap.by # t

InUse == \E t \in Fetchers : doing[t].at = "using"

\* open_ap: the old socket goes, though a dispatcher may still read from it;
\* the new one is there while the handshake runs.  No access point may be
\* known, or answer.
OpenAp(t) ==
  /\ At(t, "open")
  /\ \/ /\ \/ ap' = ap /\ Go(t, "failed")
           \/ \E by \in {t, None} :
                /\ ap' = [disp |-> IF ap.disp = "none" THEN "none" ELSE "dead", by |-> by]
                /\ Go(t, IF by = t THEN "login" ELSE "failed")
        /\ UNCHANGED crashed
     \/ /\ ap.disp = "live" \/ (ap.disp = "dead" /\ InUse)
        /\ crashed' = TRUE /\ UNCHANGED <<ap, doing>>
  /\ UNCHANGED <<deviceVars, context, blob, locks, stop, cancel, ghosts, counters>>

\* AP_WELCOME: a new dispatcher takes the place of the one there may be.
Welcome(t) ==
  /\ ap' = [disp |-> "live", by |-> None]
  /\ blob' = TRUE
  /\ met' = (met \/ (t \in Hosts /\ reconnect # None))

\* login_with_credentials goes on; in which way connect did it matters no more.
LoggedIn(t) == IF Connecting(t) THEN GoFor(t, "init", "connect") ELSE Go(t, "init")

\* Mutant: the login that keeps the device replaces the providers it refers to.
LoginRenews(t) ==
  /\ At(t, "login")
  /\ ap.by # None
  /\ \/ Welcome(t) /\ LoggedIn(t) /\ UNCHANGED reconnect
     \/ Go(t, "failed") /\ UNCHANGED <<ap, blob, reconnect, met>>
  /\ UNCHANGED <<deviceVars, context, io, transitions, stop, cancel, crashed, promised, counters>>

\* The handshake and send_login_and_wait; a refused login leaves the socket.
\* The codec may be that of another thread, which has connected meanwhile.
Login(t) ==
  /\ At(t, "login")
  /\ ap.by # None
  /\ \/ /\ IF doing[t].why = "relogin"
             THEN Resume(t)
             ELSE LoggedIn(t) /\ UNCHANGED reconnect
        /\ Welcome(t)
     \/ Go(t, "failed") /\ UNCHANGED <<ap, blob, reconnect, met>>
  /\ UNCHANGED <<deviceVars, context, io, transitions, stop, cancel, crashed, promised, counters>>

\* It works with what another thread has destroyed, or destroys the dispatcher
\* another thread waits in.
LoginTorn(t) ==
  /\ At(t, "login")
  /\ \/ Torn(t) /\ Go(t, "failed") /\ UNCHANGED crashed
     \/ (Torn(t) \/ InUse) /\ crashed' = TRUE /\ UNCHANGED doing
  /\ UNCHANGED <<ap, deviceVars, context, blob, locks, stop, cancel, ghosts, counters>>

\* init_login5_provider: the token providers are destroyed and made anew.  A
\* device refers to the old ones.
InitProviders(t) ==
  /\ At(t, "init")
  /\ \/ Go(t, "start") /\ UNCHANGED crashed
     \/ device # None /\ crashed' = TRUE /\ UNCHANGED doing
  /\ UNCHANGED <<ap, deviceVars, context, blob, locks, stop, cancel, ghosts, counters>>

\* connect_via_zeroconf takes back a cancellation; its service may not start.
TryZeroconf(t) ==
  /\ cancel' = FALSE
  /\ GoFor(t, "wait", "zeroconf") \/ doing' = [doing EXCEPT ![t] = Idle]

\* start_spirc makes a device, spirc points to it at once, and the one spirc
\* pointed to is destroyed: its socket closed, its reader waited for.
MakeDevice(t) ==
  /\ At(t, "start")
  /\ \E d \in Devices :
       /\ doing[d].at = "none"
       /\ d = CHOOSE e \in Devices : doing[e].at = "none"
       /\ device' = d
       /\ doing' = [doing EXCEPT
            ![t].at = IF device = None THEN "launch" ELSE "replace",
            ![t].dev = IF device = None THEN d ELSE device,
            ![d].at = "new"]
  /\ wsOpen' = FALSE /\ context' = FALSE
  /\ promised' = (promised /\ t \notin Hosts)
  /\ met' = (met \/ (t \in Hosts /\ reconnect # None))
  /\ UNCHANGED <<ap, blob, locks, stop, cancel, crashed, counters>>

\* A device whose reader has ended, or was never started, can be destroyed.
Joinable(d) == doing[d].at \in {"new", "ended"}

\* The old device is gone; spirc->start() is called on what spirc points to.
Replace(t) ==
  /\ At(t, "replace")
  /\ Joinable(doing[t].dev)
  /\ doing' = [doing EXCEPT ![t].at = "launch", ![t].dev = device, ![doing[t].dev] = Gone]
  /\ UNCHANGED <<ap, deviceVars, context, blob, locks, stop, cancel, crashed, ghosts, counters>>

\* What becomes of a thread whose device is made; a full rebuild has no seed.
Complete(t) ==
  IF Connecting(t) THEN Idle ELSE [doing[t] EXCEPT !.at = "restore", !.dev = None]

\* start() of the device t has made, and nobody has touched since.
Whole(d) == d # None /\ device = d /\ doing[d].at = "new"

\* start(): the device is registered and its reader runs; or it is dropped,
\* and nobody is told.
StartSpirc(t) ==
  /\ At(t, "launch")
  /\ Whole(doing[t].dev)
  /\ \/ /\ wsOpen' = TRUE
        /\ doing' = [doing EXCEPT ![t] = Complete(t), ![device].at = "loop"]
        /\ UNCHANGED <<device, promised>>
     \/ /\ device' = None /\ promised' = FALSE
        /\ doing' = [doing EXCEPT ![t] = Complete(t), ![device] = Gone]
        /\ UNCHANGED wsOpen
  /\ UNCHANGED <<ap, context, blob, locks, stop, cancel, crashed, met, counters>>

\* Another thread has destroyed, replaced or started the device meanwhile.
StartTorn(t) ==
  /\ At(t, "launch")
  /\ ~Whole(doing[t].dev)
  /\ \/ /\ doing[t].dev # None
        /\ doing' = [doing EXCEPT ![t] = Complete(t)]
        /\ promised' = FALSE
        /\ UNCHANGED crashed
     \/ crashed' = TRUE /\ UNCHANGED <<doing, promised>>
  /\ UNCHANGED <<ap, deviceVars, context, blob, locks, stop, cancel, met, counters>>

\* Mutant: the fallback forgets the context it has saved.
RestoreNothing(t) ==
  /\ At(t, "restore")
  /\ Resume(t)
  /\ UNCHANGED <<ap, deviceVars, context, blob, io, transitions, stop, cancel, crashed, ghosts, counters>>

\* spirc->restore_context(seed).
Restore(t) ==
  /\ At(t, "restore")
  /\ context' = (device # None /\ (context \/ doing[t].seed))
  /\ Resume(t)
  /\ UNCHANGED <<ap, deviceVars, blob, io, transitions, stop, cancel, crashed, ghosts, counters>>

-----------------------------------------------------------------------------
(* ensure_connected.                                                       *)

ApDead == ap.disp # "live"

\* is_running(): between start() and the end of the reader's loop.
Running(d) == d # None /\ doing[d].at \in {"loop", "halt", "await"}
DealerDead == ~Running(device)

EnsureConnected(t) ==
  /\ At(t, "ensure")
  /\ reconnect = None
  /\ reconnect' = t /\ met' = FALSE
  /\ Go(t, "test")
  /\ UNCHANGED <<ap, deviceVars, context, blob, io, transitions, stop, cancel, crashed, promised, counters>>

\* Metadata, then the audio source; then the player plays.
Fetched(t) ==
  doing' = [doing EXCEPT ![t] =
    IF doing[t].fetch = "metadata" THEN Fetch("source")
    ELSE IF t = Player THEN [Idle EXCEPT !.at = "run"] ELSE Idle]

GiveUp(t) ==
  doing' = [doing EXCEPT ![t] = IF t = Player THEN [Idle EXCEPT !.at = "returned"] ELSE Idle]

\* A request has failed.  The extended metadata may do instead; otherwise the
\* first attempt resets the access point.
FailFetch(t) ==
  \/ doing[t].fetch = "metadata" /\ Fetched(t)
  \/ doing[t].tries = 1 /\ GoFor(t, "reset", "retry")
  \/ doing[t].tries = 2 /\ GiveUp(t)

\* ensure_connected returns false: only the metadata is tried again.
FailEnsure(t) ==
  /\ reconnect' = None
  /\ IF doing[t].fetch = "metadata" THEN FailFetch(t) ELSE GiveUp(t)

Alive(t) ==
  /\ ~ApDead /\ ~DealerDead
  /\ Resume(t)
  /\ UNCHANGED promised

NoCredentials(t) ==
  /\ ApDead /\ ~blob
  /\ FailEnsure(t)
  /\ UNCHANGED promised

\* Only the access point is dead: the device and its context are kept.
OnlyAp(t) ==
  /\ ApDead /\ ~DealerDead /\ blob
  /\ GoFor(t, "reset", "relogin")
  /\ promised' = context
  /\ UNCHANGED reconnect

\* What the seed says of the device, or that there is none.
HasContext == device # None /\ context

\* Both are dead: everything is rebuilt, and the context is lost.
Both(t) ==
  /\ ApDead /\ DealerDead /\ blob
  /\ GoFor(t, "close", "full")
  /\ promised' = FALSE
  /\ UNCHANGED reconnect

\* Only the dealer is dead: the device is replaced.
OnlyDealer(t) ==
  /\ ~ApDead /\ DealerDead
  /\ doing' = [doing EXCEPT ![t].at = "close", ![t].why = "dealer", ![t].seed = HasContext]
  /\ promised' = HasContext
  /\ UNCHANGED reconnect

Examine(t) ==
  /\ At(t, "test")
  /\ io = None
  /\ Alive(t) \/ NoCredentials(t) \/ OnlyAp(t) \/ Both(t) \/ OnlyDealer(t)
  /\ UNCHANGED <<ap, deviceVars, context, blob, io, transitions, stop, cancel, crashed, met, counters>>

\* open_ap or the login has failed.  The preserving one falls back to a full
\* rebuild; connect tries the next way.
Failed(t) ==
  /\ At(t, "failed")
  /\ CASE doing[t].why = "relogin" ->
            /\ doing' = [doing EXCEPT ![t].at = "close", ![t].why = "rebuild",
                                      ![t].seed = HasContext]
            /\ UNCHANGED <<reconnect, cancel, promised>>
       [] doing[t].why \in {"rebuild", "full"} ->
            FailEnsure(t) /\ promised' = FALSE /\ UNCHANGED cancel
       [] doing[t].why = "cached" ->
            Go(t, "close") /\ UNCHANGED <<reconnect, cancel, promised>>
       [] doing[t].why = "oauth" ->
            TryZeroconf(t) /\ UNCHANGED <<reconnect, promised>>
       [] OTHER -> doing' = [doing EXCEPT ![t] = Idle] /\ UNCHANGED <<reconnect, cancel, promised>>
  /\ UNCHANGED <<ap, deviceVars, context, blob, io, transitions, stop, crashed, met, counters>>

-----------------------------------------------------------------------------
(* Tearing down.                                                           *)

\* What follows the destruction of a device.
Closed(t) == IF doing[t].why = "dealer" THEN "start" ELSE "reset"

\* close_ap: spirc->stop() closes the dealer's socket and waits for the
\* reader; then spirc.reset().  The dealer's restart calls spirc.reset() alone,
\* which takes the device out of spirc first.
CloseAp(t) ==
  /\ At(t, "close")
  /\ IF device = None THEN Go(t, Closed(t)) /\ UNCHANGED <<deviceVars, context>>
     ELSE /\ wsOpen' = FALSE
          /\ doing' = [doing EXCEPT ![t].at = "join", ![t].dev = device]
          /\ IF doing[t].why = "dealer" THEN device' = None /\ context' = FALSE
                                        ELSE UNCHANGED <<device, context>>
  /\ UNCHANGED <<ap, blob, locks, stop, cancel, crashed, ghosts, counters>>

\* Mutant: the device is destroyed while its reader still runs.
JoinNobody(t) ==
  /\ At(t, "join")
  /\ Destroys(t, doing[t].dev) \/ device = doing[t].dev
  /\ doing' = [doing EXCEPT ![t].at = Closed(t), ![t].dev = None]
  /\ device' = None /\ context' = FALSE
  /\ promised' = (promised /\ t \notin Hosts)
  /\ UNCHANGED <<ap, wsOpen, blob, locks, stop, cancel, crashed, met, counters>>

\* The reader has ended; the device is destroyed.
JoinReader(t) ==
  /\ At(t, "join")
  /\ Destroys(t, doing[t].dev) \/ device = doing[t].dev
  /\ Joinable(doing[t].dev)
  /\ doing' = [doing EXCEPT ![t].at = Closed(t), ![t].dev = None, ![doing[t].dev] = Gone]
  /\ IF device = doing[t].dev THEN device' = None /\ context' = FALSE
                              ELSE UNCHANGED <<device, context>>
  /\ promised' = (promised /\ t \notin Hosts)
  /\ UNCHANGED <<ap, wsOpen, blob, locks, stop, cancel, crashed, met, counters>>

\* Another thread has destroyed the device meanwhile, or does so: spirc.reset()
\* finds none, or a new one.
JoinTorn(t) ==
  /\ At(t, "join")
  /\ ~Destroys(t, doing[t].dev) /\ device # doing[t].dev
  /\ \/ doing' = [doing EXCEPT ![t].at = "close", ![t].dev = None] /\ UNCHANGED crashed
     \/ crashed' = TRUE /\ UNCHANGED doing
  /\ UNCHANGED <<ap, deviceVars, context, blob, locks, stop, cancel, ghosts, counters>>

\* What follows a reset.
AfterReset(t) ==
  CASE doing[t].why \in {"relogin", "rebuild", "full"} -> Go(t, "open") /\ UNCHANGED cancel
    [] doing[t].why = "retry" ->
         doing' = [doing EXCEPT ![t].at = "ensure", ![t].why = "none", ![t].tries = 2]
         /\ UNCHANGED cancel
    [] doing[t].why = "cached" ->
         \/ GoFor(t, "open", "oauth") /\ UNCHANGED cancel
         \/ TryZeroconf(t)
    [] OTHER -> doing' = [doing EXCEPT ![t] = Idle] /\ UNCHANGED cancel

\* Mutant: the reset does not wait for those who use the dispatcher.
ResetApUnguarded(t) ==
  /\ At(t, "reset")
  /\ ap' = NoAp
  /\ AfterReset(t)
  /\ UNCHANGED <<deviceVars, context, blob, locks, stop, crashed, ghosts, counters>>

\* reset_ap_only: under ap_io_m alone.
ResetAp(t) ==
  /\ At(t, "reset")
  /\ io = None
  /\ ap' = NoAp
  /\ AfterReset(t)
  /\ UNCHANGED <<deviceVars, context, blob, locks, stop, crashed, ghosts, counters>>

-----------------------------------------------------------------------------
(* Fetching what a track needs.                                            *)

\* With ap_io_m held: is the dispatcher there and alive?
UseDispatcher(t) ==
  /\ At(t, "use")
  /\ io = None
  /\ IF ApDead THEN FailFetch(t) /\ UNCHANGED io
               ELSE Go(t, "using") /\ io' = t
  /\ UNCHANGED <<ap, deviceVars, context, blob, reconnect, transitions, stop, cancel, crashed, ghosts, counters>>

\* The answer, or none in eight seconds; a dead connection gives none.
Answered(t) ==
  /\ At(t, "using")
  /\ io' = None
  /\ (~ApDead /\ Fetched(t)) \/ FailFetch(t)
  /\ UNCHANGED <<ap, deviceVars, context, blob, reconnect, transitions, stop, cancel, crashed, ghosts, counters>>

\* maybe_kick_prefetch, while the player plays.
Prefetch ==
  /\ At(Player, "run") /\ ~stop /\ device # None
  /\ At(Helper, "idle")
  /\ messages < MaxMessages /\ messages' = messages + 1
  /\ doing' = [doing EXCEPT ![Helper] = Fetch("metadata")]
  /\ UNCHANGED <<ap, deviceVars, context, blob, locks, stop, cancel, crashed, ghosts, commands, faults>>

\* The player sees stop_flag ...
PlayerStops ==
  /\ At(Player, "run") /\ stop
  /\ doing' = [doing EXCEPT ![Player] = [Idle EXCEPT !.at = "returned"]]
  /\ UNCHANGED <<ap, deviceVars, context, blob, locks, stop, cancel, crashed, ghosts, counters>>

\* ... or the track ends, or fails.
TrackEnds ==
  /\ At(Player, "run") /\ ~stop
  /\ doing' = [doing EXCEPT ![Player] = [Idle EXCEPT !.at = "returned"]]
  /\ UNCHANGED <<ap, deviceVars, context, blob, locks, stop, cancel, crashed, ghosts, counters>>

-----------------------------------------------------------------------------
(* The application.                                                        *)

Command(h) ==
  /\ At(h, "idle") /\ commands < MaxCommands
  /\ commands' = commands + 1
  /\ UNCHANGED <<ap, deviceVars, blob, locks, stop, crashed, met, faults, messages>>

\* connect(): with cached credentials, a token, or by zeroconf.
Connect(h) ==
  /\ Command(h)
  /\ \/ \E way \in {"cached", "oauth"} :
          (way = "cached" => blob) /\ GoFor(h, "open", way) /\ cancel' = FALSE
     \/ TryZeroconf(h)
  /\ UNCHANGED <<context, promised>>

\* connect_via_zeroconf(0): until somebody hands over credentials or cancels.
Wait(h) ==
  /\ At(h, "wait")
  /\ \/ cancel /\ doing' = [doing EXCEPT ![h] = Idle]
     \/ Go(h, "open")
  /\ UNCHANGED <<ap, deviceVars, context, blob, locks, stop, cancel, crashed, ghosts, counters>>

\* play_track clears the device's context first.
PlayTrack(h) ==
  /\ Command(h)
  /\ context' = FALSE /\ promised' = FALSE
  /\ GoFor(h, "halt", "play")
  /\ UNCHANGED cancel

StopTrack(h) ==
  /\ Command(h)
  /\ GoFor(h, "halt", "stop")
  /\ UNCHANGED <<context, cancel, promised>>

Disconnect(h) ==
  /\ Command(h)
  /\ cancel' = TRUE
  /\ GoFor(h, "halt", "disconnect")
  /\ UNCHANGED <<context, promised>>

\* Mutant: the playback thread is joined without being told to stop.
HaltSilently(t) ==
  /\ At(t, "halt")
  /\ transitions = None
  /\ transitions' = t
  /\ Go(t, "await")
  /\ UNCHANGED <<ap, deviceVars, context, blob, reconnect, io, stop, cancel, crashed, ghosts, counters>>

\* stop_playback and start_playback: the flag is raised under transitions_m ...
Halt(t) ==
  /\ At(t, "halt")
  /\ transitions = None
  /\ transitions' = t /\ stop' = TRUE
  /\ Go(t, "await")
  /\ UNCHANGED <<ap, deviceVars, context, blob, reconnect, io, cancel, crashed, ghosts, counters>>

\* ... and the playback thread joined.
Halted(t) ==
  /\ At(t, "await")
  /\ doing[Player].at \in {"none", "returned"}
  /\ transitions' = None /\ stop' = FALSE
  /\ doing' = [doing EXCEPT
       ![t] = CASE doing[t].why = "disconnect" -> [Idle EXCEPT !.at = "close", !.why = "disconnect"]
                [] doing[t].why = "inactive" -> [Idle EXCEPT !.at = "loop"]
                [] OTHER -> Idle,
       ![Player] = IF doing[t].why = "play" THEN Fetch("metadata") ELSE Gone]
  /\ UNCHANGED <<ap, deviceVars, context, blob, reconnect, io, cancel, crashed, ghosts, counters>>

-----------------------------------------------------------------------------
(* The device's reader, and faults.                                        *)

Message(d) ==
  /\ At(d, "loop") /\ device = d /\ wsOpen
  /\ messages < MaxMessages /\ messages' = messages + 1
  /\ UNCHANGED <<ap, deviceVars, blob, locks, stop, cancel, crashed, ghosts, commands, faults>>

\* A play command brings a context.
TakeContext(d) == Message(d) /\ context' = TRUE /\ UNCHANGED doing

\* Another device has become active: on_became_inactive stops the playback.
BecomeInactive(d) == Message(d) /\ GoFor(d, "halt", "inactive") /\ UNCHANGED context

ReaderEnds(d) ==
  /\ At(d, "loop") /\ ~(device = d /\ wsOpen)
  /\ Go(d, "ended")
  /\ UNCHANGED <<ap, deviceVars, context, blob, locks, stop, cancel, crashed, ghosts, counters>>

Fault == ~crashed /\ faults < MaxFaults /\ faults' = faults + 1

LoseAp ==
  /\ Fault
  /\ ap.disp = "live" /\ ap' = [ap EXCEPT !.disp = "dead"]
  /\ UNCHANGED <<doing, deviceVars, context, blob, locks, stop, cancel, crashed, ghosts, commands, messages>>

LoseDealer ==
  /\ Fault
  /\ wsOpen /\ wsOpen' = FALSE
  /\ UNCHANGED <<doing, ap, device, context, blob, locks, stop, cancel, crashed, ghosts, commands, messages>>

-----------------------------------------------------------------------------

LogIn(t) ==
  \/ OpenAp(t) \/ Login(t) \/ LoginTorn(t) \/ InitProviders(t) \/ Failed(t)
  \/ MakeDevice(t) \/ Replace(t) \/ StartSpirc(t) \/ StartTorn(t)
TearDown(t) == CloseAp(t) \/ JoinReader(t) \/ JoinTorn(t) \/ ResetAp(t)
FetchStep(t) == EnsureConnected(t) \/ Examine(t) \/ Restore(t) \/ UseDispatcher(t) \/ Answered(t)
HaltStep(t) == Halt(t) \/ Halted(t)

HostStep(h) == LogIn(h) \/ TearDown(h) \/ HaltStep(h)
FetcherStep(t) == LogIn(t) \/ TearDown(t) \/ FetchStep(t)
HostCommand(h) == Connect(h) \/ PlayTrack(h) \/ StopTrack(h) \/ Disconnect(h)
ReaderStep(d) == HaltStep(d) \/ TakeContext(d) \/ BecomeInactive(d) \/ ReaderEnds(d)

Next ==
  \/ \E h \in Hosts : HostStep(h) \/ Wait(h) \/ HostCommand(h)
  \/ \E t \in Fetchers : FetcherStep(t)
  \/ \E d \in Devices : ReaderStep(d)
  \/ Prefetch \/ PlayerStops \/ TrackEnds
  \/ LoseAp \/ LoseDealer

Spec == Init /\ [][Next]_vars

\* Every thread runs; the network answers or fails in bounded time.  Nobody
\* owes connect its credentials.
Fairness ==
  /\ \A h \in Hosts : WF_vars(HostStep(h))
  /\ WF_vars(FetcherStep(Player) \/ PlayerStops) /\ WF_vars(FetcherStep(Helper))
  /\ \A d \in Devices : WF_vars(HaltStep(d) \/ ReaderEnds(d))

FairSpec == Spec /\ Fairness

-----------------------------------------------------------------------------
(* Properties.                                                             *)

\* While a thread waits for the answer to a request, the dispatcher it waits in
\* is not destroyed: no reset, no disconnect and no reconnect takes it away,
\* unless connect, which takes no mutex, has come between (ap_io_m,
\* session.cpp 270-272).
DispatcherInUse ==
  [][\A t \in Fetchers : doing[t].at = "using" /\ doing'[t].at = "using" =>
       /\ ap'.disp # "none"
       /\ \A u \in Fetchers :
            doing[u].at = "login" /\ doing'[u].at \in {"init", "use"} => met]_vars

\* A reconnect replaces the token providers, or makes a device, only when no
\* device refers to the old ones, but for one that connect has made since the
\* reconnect began (session.cpp 405-412).
ProvidersOutliveDevice ==
  \A t \in Fetchers : doing[t].at \in {"init", "start"} => device = None \/ met

\* A reconnect that finds the dealer alive, or whose seed holds a context,
\* leaves a registered device with the context (session.cpp 757-765), unless
\* connect makes another device.
ContextKept == promised /\ reconnect = None /\ device # None /\ ~crashed => context

\* A rebuild is not disturbed: while one of those who fetch logs in, no other of
\* them tears the connection down or opens one (session.cpp 267-269).
OneRebuild ==
  [][\A t \in Fetchers : \A u \in Fetchers \ {t} :
       doing[t].at = "login" /\ doing'[u] # doing[u] => UNCHANGED ap]_vars

\* t cannot go on before u has.
WaitsFor(t, u) ==
  \/ doing[t].at \in {"join", "replace"} /\ u = doing[t].dev /\ Running(u)
  \/ doing[t].at = "await" /\ u = Player
  \/ doing[t].at = "halt" /\ u = transitions
  \/ doing[t].at = "ensure" /\ u = reconnect
  \/ doing[t].at \in {"test", "reset", "use"} /\ u = io

\* No threads wait for each other in a circle (session.cpp 729-732).
Waiting == {t \in Threads : \E u \in Threads : WaitsFor(t, u)}
NoCycle == ~ \E S \in SUBSET Waiting \ {{}} : \A t \in S : \E u \in S : WaitsFor(t, u)

\* stop() has closed the socket before start() opened it, and waits for a
\* reader that start() has launched since and nobody tells to end.
Overtaken == \E t \in Closers : doing[t].at = "join" /\ device = doing[t].dev /\ wsOpen

\* stop_track, play_track, disconnect and the dealer's stop come to an end,
\* but for a circle, a stop that start() overtakes or the end of the process:
\* again and again all have.
Halting(t) ==
  /\ doing[t].why \in {"play", "stop", "disconnect", "inactive"}
  /\ doing[t].at \in {"halt", "await", "close", "join", "reset"}
HaltsEnd ==
  []<>((\A t \in Hosts \cup Devices : ~Halting(t)) \/ crashed \/ Overtaken \/ ~NoCycle)
=============================================================================
