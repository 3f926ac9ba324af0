# librespotc: a verification project

TLA+ models of librespotc, a C++ library that receives Spotify Connect audio,
with TLC runs on small instances and TLAPS proofs for instances of any size.
The models are translated from `src/src/` and `src/include/`; every module names
the functions it stands for, and `PROJECT.json` maps each definition to its
lines.

The library is multithreaded and lives on callbacks. Nothing in it is hard to
compute; what is hard is that eight or more threads meet in a handful of mutexes
and a larger handful of atomic flags. That is what the models keep: every test,
every assignment and every acquisition that another thread can come between.
Audio samples, bytes and log lines are abstracted away.

## 1. The system

### 1.1 Threads

| thread | started by | what it does |
|---|---|---|
| host threads | the application | call the methods of `Session` |
| AP reader | `Dispatcher::start` | takes packets off the access-point connection, wakes callers |
| dealer reader | `SpircDevice::start` | takes commands and cluster messages off the dealer's WebSocket and serves them |
| PUT worker | `SpircDevice::start` | sends queued reports of the device's state |
| playback thread | `start_playback` | loads, decodes and puts out one track, then returns |
| advance/transfer helpers | `spawn_advance`, `on_transfer`, `on_skip_prev` | detached; call `start_playback` on behalf of a thread that must not join the playback thread |
| resolver and continuation workers | `kick_context_resolver`, `maybe_kick_autoplay` | detached; fetch tracks and bring them into the context |
| prefetch, artwork workers | `maybe_kick_prefetch`, `kick_artwork_fetch` | detached; fetch the next track, an image |
| zeroconf server | `ZeroconfService::start` | accepts clients, each served by a detached thread |

### 1.2 Components

For each: its state, its operations, whom it meets, what is hard, and what makes
it correct. The right column names the module, or says that there is none.

| component | state | operations | hard behaviour | correct when | module |
|---|---|---|---|---|---|
| Dispatcher (`dispatcher.cpp`) | `mercury_`, `akey_` (tables of pending requests), two counters, `alive_`, `running_` | `mercury_get`, `audio_key_request_ex`, reader loop, failure sweep, `stop` | a timeout against a late answer, the sweep against both, mutexes taken in two orders | an answer goes to its own call, no entry outlives its call, calls and `stop` return | `Dispatcher`, `Exchange` |
| Mercury assembly (same file) | `parts`, `partial` | frames of one answer | split parts, an end in between | the parts are the answer's, in order | not modelled |
| Playback context (`context_state.cpp`) | list, position, options, shuffle order | set, append, skip, shuffle, place a hint, apply the cloud's order | calls that take the mutex several times, wrap-around, permutations under appends | position inside the list, order a permutation, what is shown is what is played | `ContextState` |
| Playback transitions (`session.cpp`) | queue, history, current track, `advancing`, `stop_flag`, `playback_thread` | host and cloud commands, `start_playback`, `stop_playback`, end of a track | detached helpers start playback whenever they get to it | one playback thread, stops not lost, queue kept, transitions end | `Playback` |
| Output loop (`playback_run`, `emit_frame`) | flags for pause, boundary, seek and stop; URL, chunk, decoder position | chunks, decoding, seeks, waits, refusals, next URL | flags change between any two steps, notifications without the mutex | frames in order, pauses hold, a stop ends the thread | `Output` |
| Connect device, contexts and skips (`spirc_device.cpp`) | context URI, generations, in-flight flags, deferred skip | `play`, `transfer`, `skip_next`, `skip_prev`, resolver and continuation workers, `clear_context` | a worker's test against the reader's store, stale results | flags come down, skips carried out once, one start per command | `Spirc` |
| Connect device, commands and reports | seen command keys, last message per sender, PUT queue, cluster state | the other endpoints, deduplication, PUT state | reports overtake each other, commands come twice | commands carried out once, settings and the newest telling reach the cloud | `Report` |
| Explicit and cloud queue | `explicit_queue_tracks_`, cloud order | add, set, prune | changed by the reader and read by workers | no queued track lost or doubled | `Report` (the cloud's order of the list: `ContextState`) |
| Access-point session (`session.cpp`) | `sock`, `codec`, `disp`, `spirc`, providers | login, `ensure_connected`, `reset_ap_only`, `close_ap`, `disconnect` | who joins whom while reconnecting; pointers reset under readers | every join returns, nothing is used after its reset, the context survives | `Session` |
| Prefetch of the next track | slot, flag | kick, take, publish | a slot filled for a track that no longer follows | what plays is what was asked for | `Loading` |
| Track artwork | generation | kick, publish | stale results | a stale image never reaches the host | not modelled |
| Metadata, alternatives, source | none of its own | two services, alternatives, key, URLs, retries | partial failure, a connection reset by the other loader | key and URLs belong to the track; one fault is survived | `Loading` |
| Context resolver (`context_resolver.cpp`) | visited pages | page chains | cycles, the cap of 100 | ends, keeps the order | not modelled |
| Token providers (`auth/`) | token, expiry | token, access token, invalidate, challenges | two loaders renew and drop the same token | a retry carries no token that was refused | `Loading` |
| Credential cache (`auth/blob.cpp`) | file | save, load | crash during a save | loads what was saved, or nothing | not modelled |
| Zeroconf (`zeroconf/`) | socket, `running_`, credentials | start, run, stop, wait | `stop` against `run`, detached clients | stop returns, credentials are waited for | not modelled |
| OGG demuxer, Vorbis tap | buffer, current packet, pending packet | push, emit | refusal in a page, a new URL with an old demuxer | packets once and in order | not modelled |
| Protocol encoders and decoders, handshake, ciphers, decoder and filters, sockets, mDNS, vendored code | none that is shared | pure functions, input and output | arithmetic, not interleaving | - | not modelled |

### 1.3 How they interact

```
 host ──────────► Session ──────────────► playback thread ──► on_audio (host)
   ▲  events        │  ▲                     │        │
   └────────────────┘  │ callbacks           │ asks   │ requests
                       │ (on_transfer, ...)  ▼        ▼
 dealer ◄──────► SpircDevice ──────► ContextState   Dispatcher ◄────► access point
                       │    ▲
                       ▼    │ tracks
              resolver and continuation workers
```

* `Dispatcher` is called by the playback and prefetch threads and blocks them;
  the AP reader wakes them. `Session` stops it by closing the socket first.
* `SpircDevice` runs its callbacks on the dealer reader. A callback that starts
  a track leaves that to a helper; one that stops playback joins the playback
  thread right there.
* The playback thread asks `SpircDevice` for the next track of the context
  (`advance_to_next_track`) when the local queue is empty.
* `ContextState` is under its own mutex; `SpircDevice` calls it from the reader,
  from the workers and, through `Session`, from host and playback threads.
* The playback thread and the prefetch helper each call `ensure_connected`
  before they fetch; whoever finds the connection dead rebuilds it, and with it,
  if need be, the Connect device whose reader may be waiting for the playback
  thread at that moment.
* Both fetch with the same two tokens, which their providers keep and renew.

## 2. Plan

Ordered by importance; steps 1 to 8 are done, and 9 as far as it says.

1. `Dispatcher` over `Exchange`: the protocol everything else waits for.
2. `ContextState`: what is played, and in which order.
3. `Playback`: who starts and stops playback.
4. `Output`: how one track is put out.
5. `Spirc`: commands against workers.
6. `Report`: command deduplication, cluster messages, the explicit queue and the
   queue of reports.
7. `Session`: connecting, reconnecting and disconnecting. Composes the joins of
   `Playback` with those of the dealer and the dispatcher.
8. `Loading`: metadata, alternatives, keys, URLs, tokens and the prefetch slot.
9. Proofs. Done: every safety property that a run checks, of all eight modules
   (section 5). Left: an abstract specification for a second component, with its
   refinement proved, and what can be said of the circle in `Session` and of two
   logins at a time without the steps that lead there.
10. Left to model, all of it with little or no interleaving: the OGG demuxer with
    the Vorbis tap, the assembly of Mercury parts, the resolver's pages, the
    artwork's generation, the zeroconf server's stop.

Abstract specifications: `Exchange` is what a caller of the dispatcher is
promised, and the dispatcher is shown to implement it. `Spirc` and `Report` keep
only list and position of `ContextState`, and `Session` only whether there is a
context: that is all their properties tell apart. Where one module takes as a
single step what another takes apart, section 3 says so.

The modules are written to be proved about: parameters are CONSTANTS with a
named assumption, every handler step is an action, and no module declares a
RECURSIVE operator.

## 3. The modules

The `*_proofs` modules hold theorems; the `MC*` modules give TLC its instances.
A definition whose comment begins with "Mutant:" is a variant of the definition
below it with a plausible bug; it is used to see that the properties notice.

### 3.1 Dispatcher and Exchange

A request is a pair of kind (Mercury or audio key) and sequence number. `table`
are the keys of `mercury_` and `akey_`; `pen` are the pending objects, which
outlive their entries because callers and reader hold `shared_ptr`s. `pc` and
`rpc` say where callers and reader are; a mutex held across another acquisition
is a predicate on them (`PenHeld`, `TableHeld`, `SendHeld`).

| action | code |
|---|---|
| `Call`, `Register`, `SendOk`, `SendFail`, `Unsend` | `mercury_get`, `audio_key_request_ex` up to the wait |
| `Block`, `Collect`, `Timeout`, `Expire` | `cv.wait_for` and what follows it; `Expire` takes the table mutex with `pen->m` held |
| `ReaderLoop`, `IgnoreFrame`, `AnswerPing`, `MercuryFinal`, `AudioKeyFrame`, `Signal`, `Erase` | `run_loop` and its handlers |
| `RecvFail`, `SweepTable`, `SweepOne`, `SweepEnd` | the failure sweep |
| `LinkDrops`, `Stop` | the connection; `reset_ap_only` with `Dispatcher::stop` |

An answer split over several frames is taken as one frame, and its content is
"usable" or not. `Exchange` forgets all of it: a caller asks, the answer
arrives, the call ends; it ends with a reply only if its own answer arrived.
The refinement mapping is the INSTANCE at the end of `Dispatcher`.

### 3.2 ContextState

Each method of the class is an action, as each runs under the class's mutex.
Two calls are not atomic and are split: `resolve_skip_to` (`SkipTo`,
`SkipMatch`, `SkipMiss`, `SkipRead`), and the resolver's read of the options
before `apply_playback_order` (`SeeShuffle`, `ApplyPlaybackOrder`). A shuffle is
any permutation that the code's Fisher-Yates can produce, with the current track
first. Indices count from 1; `hasIndex` is kept apart from `index` as in the
code. The context's URL and play origin are carried data and left out, and the
windows of `snapshot` are longer than the lists modelled.

### 3.3 Playback

`op[t]` is what a host, dealer or helper thread is in the middle of; `player` is
the playback thread. `start_playback` is `Lock`, `Join`, `Push`, `Launch` (and
`Finish` for a helper), `stop_playback` is `Lock`, `Halt`; `transitions_m` is
held from `join` to `launch` and in `halt`. The queue is under `queue_m` for
single steps only; `current` is read without any mutex, as in the code
(`Enqueue`, `Back`, `Transfer`). The end of a track is `EndOfTrack`, `PopQueue`,
`AdvanceContext`, `SpawnAdvance`; `EndOfTrack(TRUE)` is the unplayable track,
for which the code does not look at `stop_flag`. The context answers with any
track, or with none.

`wish` is a ghost: whose command was last and, once it has ended, whether it
asked for silence or for a track.

### 3.4 Output

One track in PCM mode. The network delivers chunks (`ReceiveChunk`), breaks off
(`StreamBreaks`, then the next URL) or ends. `Decode` is the decoder's sink,
`Served` the seek at the end of a chunk, which decodes all of `file_buf` again.
`Pace` to `Retry` are `emit_frame`. A wait on `cv` is three steps, because the
code's notifiers change their flag without holding `cv_m`: the predicate is
false (`Doze`), the thread blocks (`FallAsleep`), a notification makes it look
again (`Notify`, `GoOn`). A notification between the first two is lost (`pc =
"lost"`). Sample data, gain, the Spotify header and the wall clock are left out:
`sleep_until` and the retry delay are just steps.

What has been decoded is counted in frames, positions and seeks in ticks, the
code's milliseconds; `ToTicks` and `ToFrames` are the two conversions
(`session.cpp:1037`, `:1803-1809`), and both truncate. `ResumeRate` is the 44100
that the code writes where it resumes, whatever the stream's rate is;
`OutputAssumption` takes the two to be equal. `retry` is
`retry_from_last_position`.

Ghosts: `told` (the frames up to what `position` stands for), `expected` (the set
of frames the host may be given next), `late` (frames accepted since the pause)
and `byHost` (whether a host thread paused).

### 3.5 Spirc

The reader serves one command at a time; what it does after the command's first
step is `reader.at`. Kicking a context is `KickSingle`, `KickKnown` or
`KickResolver`, then `Raise` (`resolver_in_flight_`) and `Publish`
(`resolver_generation_`, detach). A worker goes through fetch, check, install,
place, put, test, lower and drain, each a step, since the reader, the host and
the other workers share nothing with it but atomics. Whatever the resolver
delivers is numbered 1 to `Size`; 0 is a track it does not know of and `Size + 1`
the continuation. `clear_context` has two steps, because the reader can come
between the generation and the flags.

Ghosts: `starts` (tracks started on behalf of each command), `owed` and `skipOf`
(deferred skips and the context they were meant for).

Left out here: shuffle and the cloud's order (in `ContextState`), the options,
also as `play` and `transfer` set them (in `ContextState` and `Report`), the
explicit queue, PUT state and the other endpoints (in `Report`).

### 3.6 Report

A report is a record of what the device tells the cloud: which telling of the
player it repeats (`n`; 0 stands for the values used when the track is not the
one last told about), its track, volume and options, `put_state`'s copy of the
explicit queue (`queue`) and the `next_tracks` made of it and of the context, which
are what is sent (`next`). `doing[t]` is where a thread is with the report in its
hands.

| action | code |
|---|---|
| `Connect`, `ConnectFails`, `Started`, `Refused` | `SpircDevice::start` up to its first report and its outcome |
| `Notify` (`Tell`) | `notify_playback_*`: the player's state is stored, |
| `QueuePut` | and `queue_put_state` leaves the report, dropping the oldest |
| `Encode`, `Put` | `put_state`: the snapshot is taken, and sent |
| `WorkerTake`, `WorkerEnd` | `put_worker_loop` |
| `Lost`, `ReaderEnd` | the dealer's connection, the reader's loop |
| `HandleRequest` | `handle_request`: deduplication, then one action per endpoint |
| `PlayTransfer`, `RestoreContext` (`EnterContext`) | what `play`, `transfer` and `restore_context` make of the context at once |
| `VolumeMessage`, `ClusterCompare`, `ClusterReplace` | `handle_message`; `remember_explicit_queue` compares and replaces under two locks |
| `Resolve`, `PlayerAdvance`, `ClearContext` | a resolver's end, `advance_to_next_track`, `clear_context` |
| `StopClose`, `StopJoin`, `StopClear`, `StopEnd` | `SpircDevice::stop` |

The loops that collect tracks one by one, leaving out what is there already, are one
recursive function (`Picked`): the elements at those places where something new comes.

`EnterContext` sets options, if the command brings any, and the position; whether
a resolver follows is open, since a context that is there already is reused and
its paths return without a report (`spirc_device.cpp:1548-1553`, `:1574-1612`).
What starts the playback, `on_transfer`, is in `Spirc` and `Playback`. The seed
itself (`context_seed`) and the cloud's order hint are left out.

Ghosts: `served` and `pushes` (what was carried out, how many keys were
remembered), `encoded` (the newest snapshot), `silent` (play, transfer or a restored
context has changed the context since, with no report of its own to follow),
`fromCloud` (the last queue taken
over from the cluster), `newest` and `sent` (the player's telling queued last,
and sent last).

### 3.7 Session

`doing[t]` is where a thread is (`at`), what for (`why`), and which device it has
in hand (`dev`); the three mutexes that are held across a wait are variables with
their holder, the shorter ones are single steps. `ap` stands for `sock`, `codec`
and `disp`: `ap.disp` says whether there is a dispatcher and whether its connection
lives, `ap.by` who is logging in over the socket, so that a login can find that the
socket is another thread's by now (`Torn`). `Devices` are the Connect devices that
exist at one time, each of them also its reader thread; `device` is what `spirc`
points to, which is not always the one a thread is just starting or destroying.
`blob` says whether there are credentials to log in with.

| action | code |
|---|---|
| `Connect`, `Wait`, `Failed` | `connect` with its three ways, `connect_via_zeroconf`; what follows a login that failed |
| `OpenAp` | `open_ap`: the old socket and codec go, the new ones come |
| `Login`, `LoginTorn` | `send_login_and_wait` and the new dispatcher |
| `InitProviders` | `init_login5_provider` in `login_with_credentials` |
| `MakeDevice`, `Replace`, `StartSpirc`, `StartTorn` | `start_spirc`: the new device takes the place of the old one, which is destroyed; then `SpircDevice::start` |
| `EnsureConnected`, `Examine` (`Alive`, `NoCredentials`, `OnlyAp`, `Both`, `OnlyDealer`), `Restore` | `ensure_connected` |
| `CloseAp`, `JoinReader`, `JoinTorn`, `ResetAp` | `close_ap`, `reset_ap_only`, `SpircDevice::stop` |
| `UseDispatcher`, `Answered` | a request to the access point and the reset between two attempts |
| `PlayTrack`, `StopTrack`, `Disconnect`, `Halt`, `Halted` | the host's calls and `stop_playback` |
| `TakeContext`, `BecomeInactive`, `ReaderEnds` | a device's reader |
| `PlayerStops`, `TrackEnds`, `Prefetch` | the threads that fetch |
| `LoseAp`, `LoseDealer` | the network |

The application calls any method from any of its threads at any time, `connect`
included: the code does not ask whether there is a session, `connect` takes no
mutex, and `librespotc.h` says nothing about when it may be called. So `connect`
meets a second `connect`, a disconnect, a track that is being fetched, and the
reconnect of a prefetch, for which `disconnect` does not wait. Where the code then
uses what another thread has destroyed or replaced (`...Torn`, and the second
disjuncts of `OpenAp` and `InitProviders`), the outcome is the death of the process
(`crashed`) or a failed call.

Ghosts: `promised` (a reconnect that found a device with a context owes the next
one that context), `met` (a `connect` has logged in or made a device since the
reconnect that is under way began).

### 3.8 Loading

`load[l]` is what the playback thread or the prefetch helper has so far: the URI
and identifier, which attempt and which stage it is in, the tokens it took, the
track, key and URLs. The catalogue says of every track, for each of the two
services, which formats, alternatives and identifier of its own it has.

| action | code |
|---|---|
| `Play`, `SkipUnplayable`, `EndTrack` | `playback_run` taking a track, with the prefetched bundle if it is the same URI |
| `DropClient`, `DropBearer`, `GetClient`, `AskClient`, `GetBearer`, `LoginChallenged`, `Login` | `invalidate`, `token`, `access_token` of the two providers; `fetch_locked` |
| `PostAnswered`, `PostRefused`, `PostFails` | the extended-metadata request, `storage_resolve` |
| `Ensure`, `AskLegacy` | `ensure_connected`, metadata over Mercury |
| `TakeIo`, `AskKey`, `AskFallback` | `resolve_audio_source` under `ap_io_m`; the key under the other identifier |
| `Reset` | the reset between two attempts |
| `Kick`, `Publish`, `Bail` | `maybe_kick_prefetch` |
| `LoseAp`, `Revoke`, `Lapse` | the network, a token refused before its time, a token whose time is over |

A reconnect is one step that succeeds or fails; `Session` takes it apart.
Ghosts: `hits` (how many faults a load has met, 2 for two or more), `renewed`
(nothing was revoked since the load dropped its tokens).

## 4. What is checked

All runs are exhaustive for their bounds. CHECK_DEADLOCK is off where a model
stops because a command bound is used up, or because the program is done.

| run | instance | properties |
|---|---|---|
| `dispatcher` | 2 callers, 3 requests, one connection loss, one stop | `TypeOK`, `NoLeak`, `ImplementsExchange`; live: `CallsReturnOrCycle`, `StopEnds` |
| `context` | lists of 1 and 3 (a URI twice), continuations of 1 and 2, at most 4 tracks, all shuffles | `TypeOK`, `IndexInRange`, `OrderComplete`, `RoundTrip`, `AppendKeepsPlace`, `ToggleKeepsTrack` |
| `playback` | 2 tracks, 1 host, dealer, 2 helpers, queue of 2, history of 1, 3 commands | `TypeOK`, `LaunchSafe`, `StopFlag`, `QueueKept`; live: `GoesOn` |
| `output` | 2 hosts, 2 chunks of 2 frames, 3 frames to 2 ticks, 2 URLs, 3 commands | `TypeOK`, `PauseHolds`, `InOrder`; live: `StopEndsOrLost` |
| `spirc` | 2 lists, a single track with a station, 2 tracks each, 2 workers, 3 commands | `TypeOK`, `FlagsCovered`, `OneStart`, `SkipInContext` |
| `report` | 1 player thread, a list of 2, 11 commands, 3 cluster messages, queue of 1 report, window of 1 key, 2 tellings, 3 events | `TypeOK`, `CommandsOnce`, `SettingsReported`, `QueueAdvertised`; live: `NewestGoesOut`, `StopEnds` |
| `session` | 2 hosts with 2 commands, player, prefetch, 3 devices with their readers, 1 lost connection, 1 message | `TypeOK`, `DispatcherInUse`, `ProvidersOutliveDevice`, `ContextKept`; live: `HaltsEnd` |
| `loading` | 2 tracks and an episode asked for, 4 identifiers, 2 loads, 1 prefetch, 1 fault, 1 token turned | `TypeOK`, `SourceMatches`, `RetryRenews`, `SurvivesOneFault`; live: `LoadsEnd` |

What they show, and why the bounds suffice for the cases that matter:

* **dispatcher.** No interleaving of timeouts, answers, failure sweep and stop
  loses, leaks or misdelivers an answer. Two callers are needed for one to meet
  the other's sequence number; the third request lets a caller ask again while
  an answer to its earlier call is on its way. Under fairness each call returns
  unless `LockCycle` closed, so that cycle is the only way to hang.
* **context.** Four tracks are enough for a list with a head, an end, a track
  before and one after the current one, and an append to a shuffled list; a URI
  that occurs twice separates URIs from positions. `RoundTrip` walks the whole
  order from every reachable state, and back.
* **playback.** Two helpers let one start a track while another is still on its
  way; the history of one wraps at once; three commands let a start, a stop and
  a second start meet. Helpers never run out by the bound: `SpareHelper` keeps
  one for each thread that is already committed to detaching one, and commands
  that would need one more are not issued.
* **output.** A first and a last chunk, a frame in the middle of a chunk, a
  second URL to resume on, and enough commands for a seek during the service of
  a seek, or pause, seek and stop at the same frame. Three frames to two ticks let
  a position lose a part of a frame, so that a second URL repeats one: `InOrder`
  allows just that, and a repetition nowhere else. (The code has 44.1 samples
  to a millisecond; a repetition of several frames is in the theorem.)
* **spirc.** Two workers let a stale resolver meet a live one; the third command
  comes in between. A single track with a station covers the continuation.
  A worker is detached only while one is idle, so three workers at a time are
  not covered. The two workers are symmetric.

* **report.** A queue of one report drops at the second, a window of one key
  forgets at the second: the code's 8 and 64 would only make the same steps
  longer. Commands come in any order and again and again; they contain pairs with the same
  number, a track queued twice, one without a key and one of each endpoint; three events
  let a report be overtaken by a second and the cluster's echo meet a change made
  meanwhile. `SettingsReported` is about the newest snapshot taken: that reports
  overtake each other on the network is a fact of the code, and so is that the options
  of a play, a transfer or a restored context wait for somebody else's report; both
  are excepted and noted in 4.2. `QueueAdvertised` is about every report
  that is being sent, on whichever track.
* **session.** Two hosts let a connect or a disconnect meet a play or a stop; the
  playback thread and the prefetch reconnect side by side, and a connect may come
  between at any step; one fault is enough to make either begin, and every login
  may fail, which brings on the other strategies. Three devices do not run out:
  there is one in `spirc` and one in the hands of at most two threads that destroy
  theirs. The run goes on past circles of threads (`NoCycle`), a stop that `start`
  overtakes (`Overtaken`) and the death of the process: `HaltsEnd` excuses them, and
  they have runs or notes of their own. `DispatcherInUse` and
  `ProvidersOutliveDevice` except a reconnect that a `connect` has met, and nothing
  else.
* **loading.** The catalogue has a track of which one service knows a file and the
  other does not, one that plays only through its second alternative, whose key is
  asked for under another identifier, and an episode. The first lies outside
  `Agreed`: the services' disagreement can end a load (4.2).
  A second load can meet the bundle that was prefetched for it, or for another.
  One fault and one turned token are the scope of `SurvivesOneFault`; two faults
  may fail a load, and the code does not promise otherwise.

Four runs look for a behaviour that a comment of the code excludes and that the
model has; TLC's traces are short and were followed in the source.

| run | what the code says | what the model shows |
|---|---|---|
| `dispatcher_cycle` | `dispatcher.h:51`: a call "Blocks up to timeout_ms" | a caller that times out holds `pen->m` and waits for `mercury_m_`; the failure sweep holds `mercury_m_` and waits for `pen->m`. One caller suffices. |
| `playback_inactive` | `librespotc.h:151`: "Library has stopped playback." | a transfer whose helper has not run yet starts after the device became inactive and playback was stopped |
| `session_join` | `session.cpp:730-732`: `spirc->stop()` from the playback thread "would deadlock", so it is not called there | `ensure_connected` calls `close_ap` on the playback thread and waits for the dealer's reader, which, told that another device is active, waits for the playback thread |
| `session_login` | `session.cpp:268`: "only one of them may relogin at a time" | the reset between two attempts of a fetch does not take `reconnect_m`: it destroys socket and codec under a login |

### 4.1 Fairness

Liveness is checked only under what the platform's scheduler gives.

* `Dispatcher!FairSpec`: strong fairness for each caller's steps (a mutex that
  is free again and again is obtained) and for the failure of `recv` on a broken
  socket; weak fairness for the reader's bookkeeping. The access point is never
  obliged to answer, nor a caller to call.
* `Playback!FairSpec`: weak fairness for each thread's steps, for the end of a
  track that has seen `stop_flag`, and for the playback thread between tracks. A
  track need not end. `transitions_m` is not fair to one particular thread.
* `Output!FairSpec`: the playback thread runs; the host carries a seek through.
  It is not assumed that a host accepts a frame, resumes or stops.
* `Report!FairSpec`: the PUT worker and the reader run, a PUT comes back (its
  timeouts see to that), a call of `stop` goes on. Nobody owes a message.
* `Session!FairSpec`: weak fairness for each thread's steps, for a track that sees
  `stop_flag`, and for a device's reader whose socket is closed. The network answers or
  fails in bounded time. Nobody owes `connect` its credentials.
* `Loading!FairSpec`: weak fairness for each loader's steps, because every HTTP
  and Mercury request has a timeout, and for the ends of a load. A track need not
  end.

`Playback` assumes that a playing track sees `stop_flag`. `Output` is the
detailed model of that step and shows the exception: the lost wake-up
(`StopEndsOrLost`). `Session` is the detailed model of the loading at the start of
a track and shows another: the circle of `session_join`. Read together:
transitions end unless a stop hits one of the two.

### 4.2 Further observations

Found while modelling, plain from the code, and without a run of their own.

Dispatcher, context, playback, output:

* `dispatcher.h:51` says "0 = forever"; both calls pass the timeout to
  `wait_for`, so 0 ends at once.
* `apply_playback_order` fills `shuffle_order_` even if shuffle was switched off
  after its caller had read the options; `context_state.h:121` says "Empty when
  shuffle off". No reader of the order looks at it without the option.
* `resolve_skip_to` reads `tracks_[current_index_]` under a second acquisition
  (`context_state.cpp:116`); if the list shrank in between, that is outside the
  vector (`SkipAnswer`).
* `enqueue` looks at four variables without `transitions_m`; a track queued just
  after the last one ended stays in the queue and nothing plays it.
* A helper left from an earlier track can start its track after a later
  `play_track` and replace the one that was asked for.
* A resume between the predicate and the block of `cv.wait` (`session.cpp:983`)
  is lost: the playback thread sleeps on, and a stop then waits in its join.
* A second seek while the first is being served in the last chunk drops the rest
  of the track and ends it as if played to the end (`librespotc.h:134`). `InOrder`
  excepts just this: a track that ends with a seek pending.
* A frame the host refused is given up when a seek comes in, and with it the rest
  of its chunk, although `librespotc.h:63-65` says it is offered until accepted or
  the track stopped.
* After a transfer that broke, the samples of up to the last millisecond come twice:
  the position is truncated to milliseconds and back (`session.cpp:1037`,
  `:1803-1809`).
* A seek writes the position after its request, not at once (`:2185-2199`). If it was
  served in between and frames were accepted, a URL that is opened next goes
  back to the target.
* Where a further URL goes on is computed with 44100 (`:1803-1809`); a stream of
  another rate would go on at the wrong place. `OutputAssumption` excludes it.
* `librespotc.h:66` says "~500 ms lead"; `session.cpp:83` paces 4 s ahead.
* In the Vorbis tap a seek is never consumed (`session.cpp:914`), and a second
  URL starts from the first byte with the demuxer of the first (`:1666`).

Connect device:

* A skip deferred for a resolver whose fetch fails, or that ends between test and
  store, is never carried out, although `spirc_device.cpp:1992` says "the resolver
  completion handler will pop it".
* A worker past its test installs its tracks after the context was replaced or
  cleared (`spirc_device.cpp:1636`: "stale result ignored").
* A context whose fetch failed counts as resolved (`spirc_device.h:292`); playing
  it again does nothing.
* A stale continuation worker lowers `autoplay_in_flight_`
  (`spirc_device.cpp:1510`), so that two workers of one generation can run.
* `start` stores the configured volume (`spirc_device.cpp:110`) only after its
  first report (`:105`), which so announces the default; a volume of 0 is
  encoded as the initial one (`put_state.cpp:61`).
* A report sent directly by the reader or a worker speaks of the context's
  current track: while a track of the explicit queue plays, it names another one,
  playing from position 0. The resolver's (`:1753`) says playing even if paused.
* Direct and queued reports overtake each other, and `put_state` draws its message
  number before it takes the snapshot, so the cloud cannot put them in order.
* Queue and context list are merged in a report only if that changes the length of
  what is advertised (`:165`). A context that has a track twice loses the repetition
  in the merge, so the lengths can agree and a queued track is not advertised:
  `QueueAdvertised` is about contexts without repetitions. The same happens by
  chance in a report on a track that the context has yet to reach: the merge loses
  that track and gains a queued one.
* `play` and `transfer` set options (`:1830`, `:1896`), and so does
  `restore_context`. If the context is reused (`:1548-1553`, `:1574-1612`) or
  is a single track, nothing reports them until something else does. A `set_options`
  with the same values that comes later counts as no change and is not reported
  either. `SettingsReported` excepts them (`silent`).
* A cluster message that echoes an older queue brings a track back that was popped.
* Tellings of two player threads (pause and resume) may be queued in the opposite
  order. `last_sender_id_` and `ctx_uri_` are plain strings on several threads.
* The numbers of commands seen are forgotten when the device is rebuilt; a sender
  that begins to count anew is acknowledged and ignored. `add_to_queue` and
  `set_options` without data are acknowledged and not reported.
  `add_explicit_queue_context_async` is never called.

Session:

* A reconnect loses the context when both connections are dead (no seed is taken
  before `close_ap` at `session.cpp:805`), and when `start_spirc` fails once (the
  next reconnect has no device to take a seed from). A `clear_context` of
  `play_track` is undone by a rebuild that had saved its seed.
* `connect_via_zeroconf` lowers `connect_cancel_requested` (`session.cpp:2033`):
  a `disconnect` during the login with cached credentials or a token is
  forgotten, and `connect` waits on.
* `connect` and `disconnect` do not take `reconnect_m`, and `disconnect` does not
  wait for the prefetch (`session.cpp:2207-2211`): one still on its way connects
  again. A `connect` that meets it destroys socket, codec and dispatcher (`:298-308`,
  `:360`) or the providers (`:388`) while they are in use, although `:270-272` and
  `:405-412` exclude both for a reconnect; in the model the process may then
  die (`OpenAp`, `LoginTorn`, `InitProviders`). A `connect` while a device lives
  replaces the providers it refers to in the same way.
* Two threads in `close_ap` stop and reset one device twice (`JoinTorn`); a
  `disconnect` during another thread's `start_spirc` destroys the device that is being
  started (`StartTorn`).
* `stop` may come before `start` of the same device has opened the socket: there is
  nothing to close yet, and the join then waits for the reader that `start` has
  launched since and that nobody tells to end (`Overtaken`).
* Resolver and continuation workers are detached with `this`
  (`spirc_device.cpp:1075`, `:1494`, `:1624`), and `stop` (`:2290`) waits for none.
  `spirc` itself is a `unique_ptr` read without a mutex, and the headers for the
  resolver use the token providers while a login may be replacing them.

Loading:

* A track counts as unplayable, and is skipped without a second attempt, when the
  extended request fails once and the legacy metadata has no file that can be
  decoded (`session.cpp:1160`), or the other way round.
* `storage_resolve` does not renew a client token that login5 refuses when the
  bearer has lapsed: it returns (`storage_resolve.cpp:80`) before its refresh. The forced refresh of the metadata is not
  reached as long as the legacy service answers.
* A token granted for 1 to 60 s is kept for 3000 s, and one whose `refresh_after`
  is not positive for 7200 s; `login5.h:17` says it "refreshes if missing/expired".
* A reconnect that fails in `resolve_audio_source` is not tried again (`:1198`).
* Each loader's reset tears down the other's request and spends its attempt.
* A prefetch that failed is kicked again at every frame of the last 3 s (`:1043`).
* Loading does not look at `stop_flag`: a stop waits until all attempts are over.
* A prefetched bundle keeps its URLs for as long as the slot is full, and there is
  no fresh load if they have lapsed.
* A repeating context of which no track is playable is skipped through for ever.
* `storage_resolve.h` speaks of a Mercury endpoint; the code asks over HTTPS and
  ignores the dispatcher it is given.

## 5. What is proved

For all values of the constants, under the named assumption of each module, which
TLC also evaluates on every run. The assumptions say what the code can take for
granted and no more:

* that the names of threads, tracks and nothing (`None`) are different, that bounds
  and limits are numbers, and lists sequences of tracks (all modules);
* `PlaybackAssumption`: that there are finitely many threads, in order that those
  with a track in hand can be counted;
* `LoadingAssumption`: that what a service lists has the types of a catalogue;
* `OutputAssumption`: that the stream has the rate the code takes for granted where
  it resumes (`ResumeRate = Rate`);
* `ReportAssumption`: that volumes lie in the device's range, and that requests and
  cluster messages have the types of theirs.

The bounds of the runs are parameters of the theorems: the number of chunks, of
threads, of faults, the cap of `history_`, the 8 reports and the 64 keys.

| theorem | says |
|---|---|
| `DispatcherSafe` | `Spec => [](TypeOK /\ PrivateRequests /\ Reachable /\ NoLeak)` |
| `DispatcherTypes` | `Spec => []TypeOK` |
| `DispatcherRefinesExchange` | `Spec => ImplementsExchange` |
| `ContextSafe` | `Spec => [](TypeOK /\ IndexInRange /\ OrderComplete)` |
| `ContextToggle` | `Spec => ToggleKeepsTrack` |
| `ContextPosition`, `ContextTypes` | `Spec => []IndexInRange`, `Spec => []TypeOK` |
| `ContextRoundTrip` | `Spec => []RoundTrip` |
| `ContextAppend` | `Spec => AppendKeepsPlace` |
| `PlaybackSafe` | `Spec => [](TypeOK /\ LaunchSafe /\ StopFlag)` |
| `PlaybackStops`, `PlaybackTypes` | `Spec => []StopFlag`, `Spec => []TypeOK` |
| `PlaybackKeepsQueue` | `Spec => QueueKept` |
| `OutputInductive` | `Spec => []IInv` |
| `OutputPauses`, `OutputTypes` | `Spec => []PauseHolds`, `Spec => []TypeOK` |
| `OutputInOrder` | `Spec => InOrder` |
| `SpircSafe` | `Spec => [](TypeOK /\ FlagsCovered /\ SkipOnce /\ OneStart /\ SkipInContext)` |
| `SpircStartsOnce`, `SpircSkips`, `SpircTypes` | `Spec => []OneStart`, `Spec => []SkipInContext`, `Spec => []TypeOK` |
| `ReportInductive` | `Spec => []IInv` |
| `ReportCommandsOnce`, `ReportSettings`, `ReportQueue`, `ReportTypes` | `Spec => []CommandsOnce`, `[]SettingsReported`, `[]QueueAdvertised`, `[]TypeOK` |
| `SessionInductive` | `Spec => []IInv` |
| `DispatcherNotDestroyedInUse`, `ProvidersNotDestroyedInUse`, `ReconnectKeepsContext`, `SessionTypeCorrect` | `Spec => DispatcherInUse`, `[]ProvidersOutliveDevice`, `[]ContextKept`, `[]TypeOK` |
| `LoadingInductive` | `Spec => []IInv` |
| `LoadingPlaysItsSource`, `LoadingRetryRenews`, `LoadingSurvives`, `LoadingTypes` | `Spec => []SourceMatches`, `[]RetryRenews`, `[]SurvivesOneFault`, `[]TypeOK` |

**Dispatcher.** The three safety invariants are not inductive together: nothing
in them says that a sequence number about to be drawn is not in use. `Drawn`
adds that every number in a table, a pending object or a call lies below its
counter, and `Told` what the reader's position implies: an entry whose waiter
has been told is the one the reader is about to erase. `IInv` is their
conjunction with the invariants. Each action has a lemma, grouped by what it
touches (`MoveOn` for steps of a caller that change its place only). The
refinement maps every step of the invariant's states to a step of `Exchange` or
to a stutter; the interesting cases are `Collect`, where `Told` gives that a
usable pending object has been heard, and the sweep, which marks pending
objects done but not usable.

**ContextState.** `IInv` is inductive as it stands once one knows what the
operations on orders return. The lemmas about permutations carry the weight:
exchanging two entries of an order, extending it by a permutation of the new
indices, reading the successor or predecessor in it. `ContextToggle` follows
from `IInv`: only `SetOptions` changes the option, and a rebuilt order begins
with the current track. `ContextRoundTrip` and `ContextAppend` add that every track
of the list has exactly one place in the walk (`OrderIsOnto`, a pigeonhole
argument). As many skips as it takes lead along the walk to its end, and as many
back to where it began; that is an induction over the number of skips. The library's
induction theorems take a predicate as parameter and cannot be used, so it is done by
the least counterexample (`LeastNumber`, from the well-founded subsets of a finite
set).

**Playback.** `LaunchSafe` needs that one thread at most holds `transitions_m`
(`OneHolds`; the mutex is a guard, so this is a property of the labels) and that
there is no playback thread past the join (`Joined`). Most actions are
`Outside`: they neither take nor give back the mutex and leave `stop_flag` alone.
`PlaybackKeepsQueue` counts: `Due` is the sum of what the queue, the threads and the
player hold of a track (`DueIs`), and an action moves one track at most from one of
them to another (`HandedOver`, `BearerChanges`, `PopQueueKept`), or is one of those
that may take one up or give it up. The invariant is needed for `Launch`, which
takes the track from its thread: no playback thread is there to be overwritten.

**Output.** `PauseHolds` and `InOrder` both depend on what another thread did while
the playback thread was between two steps. `Held` says which frames may still be on
offer once `paused` is up and that none has been taken since, `Decoded` how far the
decoder is within what has arrived, and `Expected` that the frame which comes next is
among those allowed, in every situation the variables behind it (`skip`, `decoded`,
`position`, the pending seek) can be in, for a further URL too. For that it also says
that `position` lags less than a tick behind the frames it stands for, which is what
the lemmas about truncating division are for (`Truncates`, `RoundTrip`). One lemma per
action, for files of any length and any ratio of frames to ticks.

**Spirc.** `FlagsCovered` is inductive as it stands, given that a worker
overwritten by a new one was idle. `SkipOnce` and `SkipInContext` are not:
`Deferred` adds that a pending skip is owed exactly once, and that a reader
about to store a skip holds the context in which it looked, or that context was
cleared since. `OneStart` needs `Once`: for each command the reader or one
worker at most may still start a track (`ReaderOwes`, `WorkerOwes`), and only
while none was started; the right to start passes from the reader to the worker
in `Publish` and is used up by whoever starts. `Typed` adds to the types that a
worker past its fetch has a context. Each part has a lemma for the reader, one
for the workers and one for the host, with a step per action.

**Report.** `IInv` is in two parts that do not meet. `Commands` is about
deduplication and holds by counting: a key that was carried out n times has had n
windows of other keys after it (`Spaced`), so that as long as it is remembered it
is not carried out again, and a sender's numbers rise. `Settled` is about telling
the cloud: a volume, an option or a queue that differs from the last snapshot leaves
a thread that is about to take another one (`VolumeTold`, `ContextTold`, the latter
but for what `silent` excepts), `Merged` sets what a snapshot names as yet to come
against the queue it was made of, and `Stations` says where each thread can be for
each phase of `start` and `stop`. `QueueAdvertised` also needs that the queue held
ready by a cluster message has no track twice (`QueueOnce`). What the folds of the model return (`Picked`, the
code's `append_unique` and the loops that collect a queue) is again proved by the
least counterexample.

**Session.** The properties need to know what each thread may be in the middle of
(`Tasks`), who holds `reconnect_m` and `ap_io_m` there (`MutexHeld`), and that no
device is lost (`DevicesHeld`, a part of `TypeOK`). `ApKept` says that there is a
dispatcher while somebody waits for an answer, and none from a rebuild's reset to its
login; `NoDevice` that a rebuild has no device between the teardown and its new one.
Both hold but for a `connect` that came between, which is the hypothesis `met`, raised
where a host logs in or makes a device while `reconnect_m` is held. So the theorems
are about any meeting of threads, and say for those with `connect` only what the code
can keep. `ContextSafe` follows a promised context from the old device through the
seed to the new one.

**Loading.** `SourceMatches` is inductive once every place of the cascade is given what it
has in hand (`Fits`: the candidate, its track, its file, the key of that file).
`RetryRenews` needs `Renews`: since a load dropped its tokens, unless one was
revoked, neither its hand nor the two providers hold a refused one, and another
loader cannot bring one back. `SurvivesOneFault` needs `Spends`: a load that is at a
certain place has met at least the number of faults that leads there, one more if
its access point is gone, and one that has met fewer than two has turned down
every candidate before the one it is at (`TurnedDown`, for tracks in `Agreed`). `IoHeld`
says that whoever is between the key and the end of `storage_resolve` holds `ap_io_m`.

`PrivateRequests`, `Reachable` and `SkipOnce` are proved and not run: the theorem
covers the instances TLC could reach.

**Model-checked only.** Liveness: `CallsReturnOrCycle` and `StopEnds` of
`Dispatcher`, `GoesOn`, `StopEndsOrLost`, `NewestGoesOut` and `StopEnds` of `Report`,
`HaltsEnd`, `LoadsEnd`. They rest on fairness and ENABLED, which TLAPS does not
reason about here. Every safety property that a passing run checks is a theorem.
The four runs that find a violation have none.

The inductive invariants were checked by TLC on the instances of section 4 before
they were proved; the runs reach 539 447 distinct states of `Output`, 485 788 of
`Session` and 279 919 of `Report`.

## 6. What is not modelled, and why

* Small sequential parts left for later (section 2, step 10): the assembly of
  Mercury parts, the resolver's pages, the artwork, the zeroconf server, the
  credential cache, the OGG demuxer and the Vorbis tap, which is the second mode
  of `playback_run`. Each belongs to one thread or to one mutex.
* The composition of pausing (`Output`) with starting (`Playback`): a transfer that
  is to stay paused sets `paused` after it has started.
* Byte-level work (protobuf, JSON, base-64, handshake, ciphers, OGG and Vorbis
  decoding, filters): sequential functions. The models take what they return,
  including their failures, as a choice.
* Sockets, HTTP, WebSocket, mDNS: thin layers over the operating system, modelled
  by the outcomes their callers see.
* Weak memory: the flags are `std::atomic`, accessed mostly with sequential
  consistency and in places with acquire and release or relaxed order; steps are
  interleaved, which is what sequential consistency allows. Unsynchronised plain
  data (`current_track_uri`, `ctx_uri_`, the pointer `spirc`) is read and written
  whole; that a torn read is undefined is listed as a hazard and not modelled.
* Time: a timeout or a delay may end at any moment after it began.
