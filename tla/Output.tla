------------------------------- MODULE Output -------------------------------
(***************************************************************************)
(* How one track is put out: the PCM mode of playback_run (src/session.cpp)*)
(* with emit_frame, against the flags that pause, resume, seek, the pause  *)
(* at a boundary and stop set from other threads.                          *)
(*                                                                         *)
(* The track arrives from a CDN URL in chunks of ChunkSize frames; a chunk *)
(* is decoded and put out frame by frame in the receive callback, at whose *)
(* end a seek is served by decoding again all that has arrived.  What has  *)
(* been decoded is counted in frames, positions and seeks in ticks, and    *)
(* both conversions truncate.  Decryption, headers, gain and the wall-clock*)
(* pacing are left out, as is the Vorbis tap.                              *)
(*                                                                         *)
(* A wait on cv has three steps: the predicate is false ("doze"), the      *)
(* thread blocks ("asleep"), a notify has it look again ("check").  The    *)
(* notifiers do not hold cv_m: one may come before the second ("lost").    *)
(***************************************************************************)
EXTENDS Integers

CONSTANTS
  Hosts,       \* threads that call the Session, or serve the cloud
  Chunks,      \* chunks of the file
  ChunkSize,   \* frames in a chunk
  Urls,        \* CDN URLs of the file
  Rate,        \* frames of the stream in a second
  ResumeRate,  \* and what the code takes for it where it resumes, 44100
  Ticks,       \* units of a position in a second, 1000
  MaxCommands  \* bound on the number of commands

\* The streams of the service are at 44100; at another rate a further URL would go
\* on at the wrong place.
ASSUME OutputAssumption ==
  /\ Chunks \in Nat \ {0} /\ ChunkSize \in Nat \ {0}
  /\ Urls \in Nat \ {0} /\ MaxCommands \in Nat
  /\ Rate \in Nat \ {0} /\ Ticks \in Nat \ {0} /\ ResumeRate = Rate

VARIABLES
  paused, boundary, seekPending, seekTarget, stop,  \* the flags
  position,   \* current_position_ms, in ticks
  host,       \* what a host thread is in the middle of: the target of a seek, or -1
  pc, phase,  \* the playback thread; in a wait, which of the four
  url, chunk, \* the URL in use, the chunks it has delivered
  decoded,    \* samples_decoded
  avail,      \* frames that can be decoded from the data pushed so far
  skip,       \* target_skip_samples
  again,      \* the seek of this chunk has been served
  retry,      \* retry_from_last_position
  told,       \* ghost: the frames up to what position stands for
  expected,   \* ghost: the frames the host may be given next
  late,       \* ghost: frames accepted since paused was set
  byHost,     \* ghost: it was set by a host thread
  commands    \* ghost: commands so far

flags == <<paused, boundary, seekPending, seekTarget, stop>>
stream == <<url, chunk, decoded, avail, skip, again, retry>>
ghosts == <<told, expected, late, byHost>>
vars == <<flags, position, host, pc, phase, stream, ghosts, commands>>

Frames == Chunks * ChunkSize

\* Frames up to a position, and the position after so many frames.
ToFrames(ticks) == (ticks * Rate) \div Ticks
ToTicks(frames) == (frames * Ticks) \div Rate

Counts == 0 .. Frames
Times  == 0 .. ToTicks(Frames)
Waits  == {"pre", "main", "post", "retry"}

TypeOK ==
  /\ paused \in BOOLEAN /\ boundary \in BOOLEAN /\ seekPending \in BOOLEAN
  /\ stop \in BOOLEAN /\ again \in BOOLEAN /\ retry \in BOOLEAN /\ byHost \in BOOLEAN
  /\ seekTarget \in Times /\ position \in Times
  /\ host \in [Hosts -> Times \cup {-1}]
  /\ pc \in {"open", "receive", "decode", "pace", "check", "doze", "asleep",
             "lost", "offer", "refused", "served", "ended", "stopped", "failed"}
  /\ phase \in Waits
  /\ url \in 1 .. Urls /\ chunk \in 0 .. Chunks
  /\ decoded \in Counts /\ avail \in Counts /\ skip \in Counts
  /\ told \in Counts /\ expected \in SUBSET (1 .. Frames + 1)
  /\ late \in Nat /\ commands \in 0 .. MaxCommands

Init ==
  /\ paused = FALSE /\ boundary = FALSE /\ seekPending = FALSE /\ seekTarget = 0
  /\ stop = FALSE /\ position = 0
  /\ host = [h \in Hosts |-> -1]
  /\ pc = "open" /\ phase = "main"
  /\ url = 1 /\ chunk = 0 /\ decoded = 0 /\ avail = 0 /\ skip = 0 /\ again = FALSE
  /\ retry = FALSE /\ told = 0 /\ expected = {1} /\ late = 0 /\ byHost = FALSE /\ commands = 0

Over == pc \in {"ended", "stopped", "failed"}

-----------------------------------------------------------------------------
(* The other threads.                                                      *)

\* cv.notify_all: the playback thread looks at its predicate again.
Notify == pc' = IF pc \in {"asleep", "lost"} THEN "check" ELSE pc

Command(h) ==
  /\ host[h] = -1
  /\ ~Over /\ ~stop
  /\ commands < MaxCommands
  /\ commands' = commands + 1

\* What the ghosts make of paused being set.
PausedBy(host_) ==
  /\ late' = IF paused THEN late ELSE 0
  /\ byHost' = IF paused THEN byHost ELSE host_

Pause(h) ==
  /\ Command(h)
  /\ paused' = TRUE
  /\ PausedBy(TRUE)
  /\ Notify
  /\ UNCHANGED <<boundary, seekPending, seekTarget, stop, position, host, phase,
                 stream, told, expected>>

Resume(h) ==
  /\ Command(h)
  /\ paused' = FALSE /\ boundary' = FALSE
  /\ Notify
  /\ UNCHANGED <<seekPending, seekTarget, stop, position, host, phase, stream, ghosts>>

PauseAtAudioBoundary(h) ==
  /\ Command(h)
  /\ boundary' = TRUE
  /\ Notify
  /\ UNCHANGED <<paused, seekPending, seekTarget, stop, position, host, phase,
                 stream, ghosts>>

\* seek and on_seek: the request ...
Seek(h, time) ==
  /\ Command(h)
  /\ seekTarget' = time /\ seekPending' = TRUE
  /\ host' = [host EXCEPT ![h] = time]
  /\ UNCHANGED <<paused, boundary, stop, position, pc, phase, stream, ghosts>>

\* ... and, not in the same breath, the position it will lead to.
SeekPosition(h) ==
  /\ host[h] # -1
  /\ position' = host[h] /\ told' = ToFrames(host[h])
  /\ host' = [host EXCEPT ![h] = -1]
  /\ Notify
  /\ UNCHANGED <<flags, phase, stream, expected, late, byHost, commands>>

\* Mutant: nobody is notified of the stop.
StopSilent(h) ==
  /\ Command(h)
  /\ stop' = TRUE
  /\ paused' = FALSE /\ boundary' = FALSE /\ seekPending' = FALSE
  /\ UNCHANGED <<seekTarget, position, host, pc, phase, stream, ghosts>>

\* stop_playback_locked; the caller then joins the playback thread.
Stop(h) ==
  /\ Command(h)
  /\ stop' = TRUE
  /\ paused' = FALSE /\ boundary' = FALSE /\ seekPending' = FALSE
  /\ Notify
  /\ UNCHANGED <<seekTarget, position, host, phase, stream, ghosts>>

-----------------------------------------------------------------------------
(* The playback thread: the stream.                                        *)

Others == UNCHANGED <<host, commands>>
Quiet  == Others /\ UNCHANGED <<flags, position>>

\* Mutant: a further URL starts from the beginning.
ResumeAtStart == IF seekPending THEN seekTarget ELSE 0

\* Where a URL starts, in ticks.
ResumeAt == IF seekPending THEN seekTarget ELSE IF retry THEN position ELSE 0

\* The frame after the first n, or one that lies less than a tick before it.
Near(n) == {f \in 1 .. n + 1 : (n + 1 - f) * Ticks < Rate + Ticks - 1}

\* Mutant: file_buf is not cleared for the next URL.
OpenUrlKeepBuffer ==
  /\ pc = "open"
  /\ chunk' = 0
  /\ skip' = (ResumeAt * ResumeRate) \div Ticks /\ decoded' = 0
  /\ pc' = "receive"
  /\ Quiet /\ UNCHANGED <<phase, url, avail, again, retry, ghosts>>

OpenUrl ==
  /\ pc = "open"
  /\ chunk' = 0 /\ avail' = 0
  /\ skip' = (ResumeAt * ResumeRate) \div Ticks /\ decoded' = 0
  /\ pc' = "receive"
  /\ expected' = IF seekPending THEN {ToFrames(seekTarget) + 1} ELSE expected \cup Near(told)
  /\ Quiet /\ UNCHANGED <<phase, url, again, retry, told, late, byHost>>

\* A chunk is received, decrypted and pushed into the decoder.
ReceiveChunk ==
  /\ pc = "receive"
  /\ chunk < Chunks
  /\ IF stop THEN pc' = "stopped" /\ UNCHANGED <<chunk, avail, again>>
     ELSE /\ chunk' = chunk + 1
          /\ avail' = avail + ChunkSize
          /\ again' = FALSE
          /\ pc' = "decode"
  /\ Quiet /\ UNCHANGED <<phase, url, decoded, skip, retry, ghosts>>

\* The transfer is complete ...
StreamEnds ==
  /\ pc = "receive"
  /\ chunk = Chunks
  /\ pc' = IF stop THEN "stopped" ELSE "ended"
  /\ Quiet /\ UNCHANGED <<phase, stream, ghosts>>

\* ... or it breaks off, and the next URL is tried.
StreamBreaks ==
  /\ pc = "receive"
  /\ retry' = (~stop /\ position > 0) /\ expected' = Near(told)
  /\ IF url < Urls
       THEN pc' = "open" /\ url' = url + 1
       ELSE pc' = (IF stop THEN "stopped" ELSE "failed") /\ UNCHANGED url
  /\ Quiet /\ UNCHANGED <<phase, chunk, decoded, avail, skip, again, told, late, byHost>>

\* The decoder's sink: frames before the target are dropped, the others put out.
Decode ==
  /\ pc = "decode"
  /\ decoded < avail
  /\ IF stop THEN pc' = "stopped" /\ UNCHANGED decoded
     ELSE IF decoded < skip THEN decoded' = decoded + 1 /\ UNCHANGED pc
     ELSE pc' = "pace" /\ UNCHANGED decoded
  /\ Quiet /\ UNCHANGED <<phase, url, chunk, avail, skip, again, retry, ghosts>>

\* The push is done.  A seek is served once for a chunk, from file_buf.
Served ==
  /\ pc = "decode"
  /\ decoded = avail
  /\ IF seekPending /\ ~again
       THEN /\ seekPending' = FALSE
            /\ skip' = ToFrames(seekTarget) /\ decoded' = 0 /\ again' = TRUE
            /\ expected' = {ToFrames(seekTarget) + 1}
            /\ UNCHANGED pc
       ELSE /\ pc' = IF stop THEN "stopped" ELSE "receive"
            /\ UNCHANGED <<seekPending, skip, decoded, again, expected>>
  /\ Others
  /\ UNCHANGED <<paused, boundary, seekTarget, stop, position, phase, url, chunk,
                 avail, retry, told, late, byHost>>

-----------------------------------------------------------------------------
(* The playback thread: emit_frame.                                        *)

\* consume_pause_boundary_request, with its do_pause.
Consume ==
  /\ boundary' = FALSE
  /\ IF boundary THEN paused' = TRUE /\ PausedBy(FALSE)
                 ELSE UNCHANGED <<paused, late, byHost>>

Wait(which) == pc' = "check" /\ phase' = which

\* emit_frame begins: it is time for the frame, a boundary is reached.
Pace ==
  /\ pc = "pace"
  /\ IF stop THEN pc' = "stopped" /\ UNCHANGED <<paused, boundary, late, byHost, phase>>
             ELSE Consume /\ Wait(IF boundary THEN "pre" ELSE "main")
  /\ Others
  /\ UNCHANGED <<seekPending, seekTarget, stop, position, stream, told, expected>>

\* The predicate of the wait.
Ready == ~paused \/ stop \/ seekPending \/ (phase = "main" /\ boundary)

\* cv.wait looks, cannot go on ...
Doze ==
  /\ pc = "check" /\ ~Ready
  /\ pc' = "doze"
  /\ Quiet /\ UNCHANGED <<phase, stream, ghosts>>

\* ... and blocks, whatever has happened since: if that was what it waits for, the
\* notification is lost.
FallAsleep ==
  /\ pc = "doze"
  /\ pc' = IF Ready THEN "lost" ELSE "asleep"
  /\ Quiet /\ UNCHANGED <<phase, stream, ghosts>>

\* The frame is given up for a seek, and decoding goes on.
Drop == pc' = "decode" /\ decoded' = decoded + 1

\* Mutant: the seek is not looked at after the wait.
ProceedNoSeek == pc' = "offer" /\ UNCHANGED decoded

\* Past the waits: the frame is offered, unless a seek is pending.
Proceed == IF seekPending THEN Drop ELSE pc' = "offer" /\ UNCHANGED decoded

\* cv.wait returns.
GoOn ==
  /\ pc = "check" /\ Ready
  /\ IF stop
       THEN pc' = "stopped" /\ UNCHANGED <<paused, boundary, late, byHost, phase, decoded>>
       ELSE \/ /\ phase = "pre" /\ Wait("main")
               /\ UNCHANGED <<paused, boundary, late, byHost, decoded>>
            \/ /\ phase = "main" /\ Consume
               /\ IF boundary THEN Wait("post") /\ UNCHANGED decoded
                              ELSE Proceed /\ UNCHANGED phase
            \/ /\ phase \in {"post", "retry"} /\ Proceed
               /\ UNCHANGED <<paused, boundary, late, byHost, phase>>
  /\ Others
  /\ UNCHANGED <<seekPending, seekTarget, stop, position, url, chunk, avail, skip,
                 again, retry, told, expected>>

\* on_audio takes the frame.
Accept ==
  /\ pc = "offer" /\ ~stop
  /\ position' = ToTicks(decoded + 1) /\ told' = decoded + 1
  /\ decoded' = decoded + 1
  /\ expected' = {decoded + 2}
  /\ late' = IF paused THEN late + 1 ELSE late
  /\ pc' = "decode"
  /\ Others
  /\ UNCHANGED <<flags, phase, url, chunk, avail, skip, again, retry, byHost>>

\* on_audio refuses it; the same frame is offered again after a moment.
Refuse ==
  /\ pc = "offer" /\ ~stop
  /\ pc' = "refused"
  /\ Quiet /\ UNCHANGED <<phase, stream, ghosts>>

OfferStopped ==
  /\ pc = "offer" /\ stop
  /\ pc' = "stopped"
  /\ Quiet /\ UNCHANGED <<phase, stream, ghosts>>

Retry ==
  /\ pc = "refused"
  /\ Consume
  /\ IF boundary THEN Wait("retry") /\ UNCHANGED decoded
     ELSE IF stop THEN pc' = "stopped" /\ UNCHANGED <<phase, decoded>>
     ELSE Proceed /\ UNCHANGED phase
  /\ Others
  /\ UNCHANGED <<seekPending, seekTarget, stop, position, url, chunk, avail, skip,
                 again, retry, told, expected>>

-----------------------------------------------------------------------------

PlayerStep ==
  \/ OpenUrl \/ ReceiveChunk \/ StreamEnds \/ StreamBreaks \/ Decode \/ Served
  \/ Pace \/ Doze \/ FallAsleep \/ GoOn \/ Accept \/ Refuse \/ OfferStopped \/ Retry

HostStep(h) ==
  \/ Pause(h) \/ Resume(h) \/ PauseAtAudioBoundary(h) \/ Stop(h)
  \/ \E time \in Times : Seek(h, time)
  \/ SeekPosition(h)

Next == PlayerStep \/ \E h \in Hosts : HostStep(h)

Spec == Init /\ [][Next]_vars

\* The playback thread runs, and a seek that has begun is carried through.
FairSpec ==
  /\ Spec
  /\ WF_vars(PlayerStep)
  /\ \A h \in Hosts : WF_vars(SeekPosition(h))

-----------------------------------------------------------------------------
(* What a host may rely on.                                                *)

\* Once paused is set at most the frame already on offer gets through, and none
\* when the playback thread has paused at the boundary itself
\* (librespotc.h:251: "at the last accepted audio frame").
PauseHolds == paused => late <= (IF byHost THEN 1 ELSE 0)

\* The host is given every frame once and in order, across refusals and waits, and
\* the track does not end before the last one unless a seek is pending then.  A seek
\* has it go on at the target; a further URL, where the position stood when the
\* last one broke or this one was opened, so that what belongs to the last tick may
\* come twice.  (librespotc.h:63-65 has a refused frame retried until it is accepted
\* or the track is stopped; a seek gives it up, and with it what is left of the chunk.)
InOrder ==
  [][/\ pc = "offer" /\ pc' = "decode" => decoded + 1 \in expected
     /\ pc = "receive" /\ pc' = "ended" => seekPending \/ Frames + 1 \in expected]_vars

\* A stop reaches the playback thread, whose caller waits in join, in every case
\* but that of the lost notification.
StopEndsOrLost == stop ~> (Over \/ pc = "lost")
=============================================================================
