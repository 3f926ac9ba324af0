---------------------------- MODULE Output_proofs -----------------------------
(***************************************************************************)
(* Proofs about Output for a file of any length, any URLs and any hosts.   *)
(* The inductive invariant says how far the decoder has come, that a frame *)
(* on offer while paused was so before, and which frame the host is to be  *)
(* offered next: what the code knows only through skip, decoded, position  *)
(* and the pending seek, each of which another thread may change.          *)
(***************************************************************************)
EXTENDS Output, TLAPS

\* A frame has left the decoder and is on its way to the host.
InHand == pc \in {"pace", "check", "doze", "asleep", "lost", "offer", "refused"}

\* What has been decoded of what has arrived.
Decoded ==
  /\ avail = chunk * ChunkSize
  /\ decoded <= avail \/ pc = "open"
  /\ pc = "receive" => decoded = avail
  /\ InHand => skip <= decoded /\ decoded < avail

\* A frame can be offered while paused only if it already was, and none has been
\* taken since.
Held ==
  paused => /\ late <= 1
            /\ byHost \/ late = 0
            /\ pc \in {"offer", "refused"} => byHost /\ late = 0

\* The frame that will be offered next, unless a seek or a stop comes first.
Upcoming == IF decoded < skip THEN skip ELSE decoded

\* It is the one the host expects; and what has been told of the position lies less
\* than a tick behind the frames it stands for, so that a further URL goes on there.
Expected ==
  /\ ToFrames(position) + 1 \in Near(told)
  /\ pc = "open" /\ ~retry /\ ~stop => 1 \in expected
  /\ pc = "offer" => decoded + 1 \in expected
  /\ pc # "open" /\ ~Over /\ ~seekPending /\ ~stop => Upcoming + 1 \in expected

IInv == TypeOK /\ Decoded /\ Held /\ Expected


-----------------------------------------------------------------------------
(* The chunks of the file.                                                 *)

\* The end of a chunk is a time of the file.
LEMMA ChunkFits ==
  ASSUME NEW c \in 0 .. Chunks
  PROVE  c * ChunkSize \in Counts
<1>1. c \in Nat /\ Chunks \in Nat /\ ChunkSize \in Nat /\ c <= Chunks
  BY OutputAssumption
<1>2. c * ChunkSize \in Nat /\ Chunks * ChunkSize \in Nat /\ c * ChunkSize <= Chunks * ChunkSize
  BY <1>1
<1> QED
  BY <1>2 DEF Counts, Frames

\* One more chunk, as many more frames.
LEMMA NextChunk ==
  ASSUME NEW c \in 0 .. Chunks
  PROVE  (c + 1) * ChunkSize = c * ChunkSize + ChunkSize
BY OutputAssumption

\* Counts of frames are natural numbers.
LEMMA CountsAreNumbers == Frames \in Nat /\ Counts = 0 .. Frames
<1>1. Chunks * ChunkSize \in Nat
  BY OutputAssumption
<1> QED
  BY <1>1 DEF Counts, Frames

-----------------------------------------------------------------------------
(* Frames and ticks.                                                       *)

\* What truncating division does.
LEMMA Truncates ==
  ASSUME NEW a \in Nat, NEW b \in Nat \ {0}
  PROVE  /\ a \div b \in Nat
         /\ (a \div b) * b <= a /\ a < (a \div b) * b + b
  OBVIOUS

\* Products keep their order, and so do their factors.
LEMMA ProductOrder ==
  ASSUME NEW a \in Nat, NEW b \in Nat, NEW c \in Nat \ {0}
  PROVE  /\ a * c \in Nat /\ (a <= b => a * c <= b * c)
         /\ (a * c <= b * c => a <= b) /\ (a * c < b * c + c => a <= b)
  OBVIOUS

\* A count of frames, told in ticks and taken for frames again, has lost less than a
\* tick, and has not grown.
LEMMA RoundTrip ==
  ASSUME NEW n \in Nat
  PROVE  /\ ToTicks(n) \in Nat /\ ToFrames(ToTicks(n)) \in Nat
         /\ ToFrames(ToTicks(n)) <= n
         /\ (n - ToFrames(ToTicks(n))) * Ticks < Rate + Ticks - 1
<1>1. /\ Ticks \in Nat \ {0} /\ Rate \in Nat \ {0}
  BY OutputAssumption
<1>2. n * Ticks \in Nat
  BY <1>1
<1>3. PICK m \in Nat : m = ToTicks(n) /\ m * Rate <= n * Ticks /\ n * Ticks < m * Rate + Rate
  BY <1>1, <1>2, Truncates DEF ToTicks
<1>4. m * Rate \in Nat
  BY <1>1, <1>3
<1>5. PICK g \in Nat : g = ToFrames(m) /\ g * Ticks <= m * Rate /\ m * Rate < g * Ticks + Ticks
  BY <1>1, <1>4, Truncates DEF ToFrames
<1>6. g * Ticks \in Nat /\ g * Ticks <= n * Ticks
  <2>1. g * Ticks \in Nat
    BY <1>1, <1>5, ProductOrder
  <2> QED
    BY <1>2, <1>3, <1>4, <1>5, <2>1
<1>7. g <= n
  BY <1>1, <1>6, ProductOrder
<1>8. (n - g) * Ticks = n * Ticks - g * Ticks
  BY <1>1, <1>5
<1>9. n * Ticks - g * Ticks < Rate + Ticks - 1
  BY <1>1, <1>2, <1>3, <1>4, <1>5, <1>6
<1> QED
  BY <1>3, <1>5, <1>7, <1>8, <1>9

\* Within the file both conversions stay within the file.
LEMMA WithinFile ==
  /\ 0 \in Times /\ ToFrames(0) = 0 /\ 0 \in Counts
  /\ \A t \in Times : t \in Nat /\ ToFrames(t) \in Counts
  /\ \A n \in Counts : ToTicks(n) \in Times
<1>1. Ticks \in Nat \ {0} /\ Rate \in Nat \ {0} /\ Frames \in Nat /\ Counts = 0 .. Frames
  BY OutputAssumption, CountsAreNumbers
<1>2. Frames * Ticks \in Nat
  BY <1>1
<1>3. PICK d \in Nat : /\ d = ToTicks(Frames) /\ d * Rate <= Frames * Ticks
                       /\ Frames * Ticks < d * Rate + Rate
  BY <1>1, <1>2, Truncates DEF ToTicks
<1>4. 0 \in Times /\ Times = 0 .. d /\ 0 \in Counts
  BY <1>1, <1>3 DEF Times
<1>5. ToFrames(0) = 0
  <2>1. 0 * Rate = 0 /\ 0 \div Ticks = 0
    BY <1>1
  <2> QED
    BY <2>1 DEF ToFrames
<1>6. ASSUME NEW t \in Times
      PROVE  t \in Nat /\ ToFrames(t) \in Counts
  <2>1. t \in Nat /\ t <= d
    BY <1>4
  <2>2. t * Rate \in Nat /\ t * Rate <= d * Rate /\ d * Rate \in Nat
    BY <1>1, <1>3, <2>1, ProductOrder
  <2>3. PICK g \in Nat : g = ToFrames(t) /\ g * Ticks <= t * Rate
    BY <1>1, <2>2, Truncates DEF ToFrames
  <2>4. g * Ticks \in Nat /\ g * Ticks <= Frames * Ticks
    <3>1. g * Ticks \in Nat
      BY <1>1, <2>3, ProductOrder
    <3> QED
      BY <1>2, <1>3, <2>2, <2>3, <3>1
  <2>5. g <= Frames
    BY <1>1, <2>3, <2>4, ProductOrder
  <2> QED
    BY <1>1, <2>1, <2>3, <2>5
<1>7. ASSUME NEW n \in Counts
      PROVE  ToTicks(n) \in Times
  <2>1. n \in Nat /\ n <= Frames
    BY <1>1
  <2>2. n * Ticks \in Nat /\ n * Ticks <= Frames * Ticks
    BY <1>1, <2>1, ProductOrder
  <2>3. PICK m \in Nat : m = ToTicks(n) /\ m * Rate <= n * Ticks
    BY <1>1, <2>2, Truncates DEF ToTicks
  <2>4. m * Rate \in Nat /\ d * Rate \in Nat
    BY <1>1, <1>3, <2>3, ProductOrder
  <2>5. m * Rate <= Frames * Ticks
    BY <1>2, <2>2, <2>3, <2>4
  <2>6. m * Rate < d * Rate + Rate
    BY <1>1, <1>2, <1>3, <2>4, <2>5
  <2>7. m <= d
    BY <1>1, <1>3, <2>3, <2>6, ProductOrder
  <2> QED
    BY <1>4, <2>3, <2>7
<1> QED
  BY <1>4, <1>5, <1>6, <1>7

\* The frames near a count belong to the file; one is the frame after it, one is
\* where a URL goes on that resumes at its ticks.
LEMMA NearCount ==
  ASSUME NEW n \in Counts
  PROVE  /\ Near(n) \subseteq 1 .. Frames + 1
         /\ n + 1 \in Near(n)
         /\ ToFrames(ToTicks(n)) + 1 \in Near(n)
<1>1. /\ Ticks \in Nat \ {0} /\ Rate \in Nat \ {0} /\ Frames \in Nat
      /\ n \in Nat /\ n <= Frames
  BY OutputAssumption, CountsAreNumbers
<1>2. Near(n) \subseteq 1 .. Frames + 1
  BY <1>1 DEF Near
<1>3. n + 1 \in Near(n)
  <2>1. (n + 1 - (n + 1)) * Ticks = 0
    BY <1>1
  <2> QED
    BY <1>1, <2>1 DEF Near
<1>4. ToFrames(ToTicks(n)) + 1 \in Near(n)
  <2>1. PICK g \in Nat : /\ g = ToFrames(ToTicks(n)) /\ g <= n
                         /\ (n - g) * Ticks < Rate + Ticks - 1
    BY <1>1, RoundTrip
  <2>2. n + 1 - (g + 1) = n - g /\ g + 1 \in 1 .. n + 1
    BY <1>1, <2>1
  <2> QED
    BY <2>1, <2>2 DEF Near
<1> QED
  BY <1>2, <1>3, <1>4

\* A pause at the boundary has taken no frame since; any other leaves things as
\* they are.
LEMMA ConsumeHolds ==
  ASSUME IInv, Consume
  PROVE  /\ late' \in Nat
         /\ paused' => late' <= 1 /\ (byHost' \/ late' = 0)
         /\ paused' \in BOOLEAN /\ byHost' \in BOOLEAN /\ ~boundary' /\ boundary' \in BOOLEAN
         /\ ~boundary => paused' = paused /\ late' = late /\ byHost' = byHost
<1>1. late' \in {late, 0} /\ late' \in Nat
  <2>1. late \in Nat /\ 0 \in Nat
    BY DEF IInv, TypeOK
  <2>2. late' = late \/ late' = 0
    BY DEF Consume, PausedBy
  <2> QED
    BY <2>1, <2>2
<1>2. /\ paused' \in BOOLEAN /\ byHost' \in BOOLEAN /\ ~boundary' /\ boundary' \in BOOLEAN
      /\ ~boundary => paused' = paused /\ late' = late /\ byHost' = byHost
  BY DEF IInv, TypeOK, Consume, PausedBy
<1>3. CASE boundary /\ ~paused
  BY <1>1, <1>2, <1>3 DEF Consume, PausedBy
<1>4. CASE boundary /\ paused
  BY <1>1, <1>2, <1>4 DEF Consume, PausedBy, IInv, Held
<1>5. CASE ~boundary
  BY <1>1, <1>2, <1>5 DEF IInv, Held
<1> QED
  BY <1>1, <1>2, <1>3, <1>4, <1>5

-----------------------------------------------------------------------------
(* Every action keeps the invariant.                                       *)

\* A host pauses.
LEMMA PauseKeeps ==
  ASSUME IInv, NEW h \in Hosts, Pause(h)
  PROVE  IInv'
<1>1. /\ paused' \in BOOLEAN /\ boundary' \in BOOLEAN /\ seekPending' \in BOOLEAN
      /\ stop' \in BOOLEAN /\ again' \in BOOLEAN /\ byHost' \in BOOLEAN
  BY DEF IInv, TypeOK, Pause, Command, PausedBy, Notify, flags, stream, ghosts, Quiet, Others
<1>2. late' = late \/ late' = 0
  BY DEF Pause, PausedBy
<1>3. late' \in Nat /\ (late' = late \/ late' = 0)
  BY <1>2 DEF IInv, TypeOK
<1>4. pc' \in {pc, "check"}
  BY DEF Notify, Pause
<1>5. /\ paused' = TRUE /\ commands' \in 0 .. MaxCommands
      /\ UNCHANGED <<boundary, seekPending, seekTarget, stop, position, host, phase,
                     stream, told, expected>>
  BY OutputAssumption DEF IInv, TypeOK, Pause, Command
<1>6. TypeOK'
  BY <1>1, <1>2, <1>3, <1>4, <1>5, CountsAreNumbers, OutputAssumption
  DEF IInv, TypeOK, Decoded, InHand, Pause, Command, PausedBy, Notify, flags, stream, ghosts,
     Quiet, Others
<1>7. Decoded'
  BY <1>1, <1>2, <1>3, <1>4, <1>5, CountsAreNumbers, OutputAssumption
  DEF IInv, TypeOK, Decoded, InHand, Pause, Command, PausedBy, Notify, flags, stream, ghosts,
     Quiet, Others
<1>8. Held'
  BY <1>1, <1>2, <1>3, <1>4, <1>5, CountsAreNumbers, OutputAssumption
  DEF IInv, TypeOK, Held, Pause, Command, PausedBy, Notify, flags, stream, ghosts, Quiet, Others
<1>9. Expected'
  BY <1>1, <1>2, <1>3, <1>4, <1>5, CountsAreNumbers, OutputAssumption
  DEF IInv, TypeOK, Decoded, InHand, Expected, Upcoming, Over, Pause, Command, PausedBy, Notify,
     flags, stream, ghosts, Quiet, Others
<1> QED
  BY <1>6, <1>7, <1>8, <1>9 DEF IInv

\* A host resumes.
LEMMA ResumeKeeps ==
  ASSUME IInv, NEW h \in Hosts, Resume(h)
  PROVE  IInv'
<1>1. /\ paused' \in BOOLEAN /\ boundary' \in BOOLEAN /\ seekPending' \in BOOLEAN
      /\ stop' \in BOOLEAN /\ again' \in BOOLEAN /\ byHost' \in BOOLEAN
  BY DEF IInv, TypeOK, Resume, Command, Notify, flags, stream, ghosts, Quiet, Others
<1>2. TypeOK'
  BY <1>1, CountsAreNumbers, OutputAssumption
  DEF IInv, TypeOK, Decoded, InHand, Resume, Command, Notify, flags, stream, ghosts, Quiet,
     Others
<1>3. Decoded'
  BY <1>1, CountsAreNumbers, OutputAssumption
  DEF IInv, TypeOK, Decoded, InHand, Resume, Command, Notify, flags, stream, ghosts, Quiet,
     Others
<1>4. Held'
  BY <1>1, CountsAreNumbers, OutputAssumption
  DEF IInv, TypeOK, Held, Resume, Command, Notify, flags, stream, ghosts, Quiet, Others
<1>5. Expected'
  BY <1>1, CountsAreNumbers, OutputAssumption
  DEF IInv, TypeOK, Decoded, InHand, Expected, Upcoming, Over, Resume, Command, Notify, flags,
     stream, ghosts, Quiet, Others
<1> QED
  BY <1>2, <1>3, <1>4, <1>5 DEF IInv

\* A host asks for a pause at the boundary.
LEMMA PauseAtAudioBoundaryKeeps ==
  ASSUME IInv, NEW h \in Hosts, PauseAtAudioBoundary(h)
  PROVE  IInv'
<1>1. /\ paused' \in BOOLEAN /\ boundary' \in BOOLEAN /\ seekPending' \in BOOLEAN
      /\ stop' \in BOOLEAN /\ again' \in BOOLEAN /\ byHost' \in BOOLEAN
  BY DEF IInv, TypeOK, PauseAtAudioBoundary, Command, Notify, flags, stream, ghosts, Quiet,
     Others
<1>2. TypeOK'
  BY <1>1, CountsAreNumbers, OutputAssumption
  DEF IInv, TypeOK, Decoded, InHand, PauseAtAudioBoundary, Command, Notify, flags, stream,
     ghosts, Quiet, Others
<1>3. Decoded'
  BY <1>1, CountsAreNumbers, OutputAssumption
  DEF IInv, TypeOK, Decoded, InHand, PauseAtAudioBoundary, Command, Notify, flags, stream,
     ghosts, Quiet, Others
<1>4. Held'
  BY <1>1, CountsAreNumbers, OutputAssumption
  DEF IInv, TypeOK, Held, PauseAtAudioBoundary, Command, Notify, flags, stream, ghosts, Quiet,
     Others
<1>5. Expected'
  BY <1>1, CountsAreNumbers, OutputAssumption
  DEF IInv, TypeOK, Decoded, InHand, Expected, Upcoming, Over, PauseAtAudioBoundary, Command,
     Notify, flags, stream, ghosts, Quiet, Others
<1> QED
  BY <1>2, <1>3, <1>4, <1>5 DEF IInv

\* A host asks for another position ...
LEMMA SeekKeeps ==
  ASSUME IInv, NEW h \in Hosts, NEW time \in Times, Seek(h, time)
  PROVE  IInv'
<1>1. /\ paused' \in BOOLEAN /\ boundary' \in BOOLEAN /\ seekPending' \in BOOLEAN
      /\ stop' \in BOOLEAN /\ again' \in BOOLEAN /\ byHost' \in BOOLEAN
  BY DEF IInv, TypeOK, Seek, Command, flags, stream, ghosts, Quiet, Others
<1>2. TypeOK'
  BY <1>1, CountsAreNumbers, OutputAssumption
  DEF IInv, TypeOK, Decoded, InHand, Seek, Command, flags, stream, ghosts, Quiet, Others
<1>3. Decoded'
  BY <1>1, CountsAreNumbers, OutputAssumption
  DEF IInv, TypeOK, Decoded, InHand, Seek, Command, flags, stream, ghosts, Quiet, Others
<1>4. Held'
  BY <1>1, CountsAreNumbers, OutputAssumption
  DEF IInv, TypeOK, Held, Seek, Command, flags, stream, ghosts, Quiet, Others
<1>5. Expected'
  BY <1>1, CountsAreNumbers, OutputAssumption
  DEF IInv, TypeOK, Decoded, InHand, Expected, Upcoming, Over, Seek, Command, flags, stream,
     ghosts, Quiet, Others
<1> QED
  BY <1>2, <1>3, <1>4, <1>5 DEF IInv

\* ... and sets it.
LEMMA SeekPositionKeeps ==
  ASSUME IInv, NEW h \in Hosts, SeekPosition(h)
  PROVE  IInv'
<1>1. /\ host[h] \in Times /\ position' = host[h] /\ told' = ToFrames(host[h])
      /\ host' = [host EXCEPT ![h] = -1] /\ pc' \in {pc, "check"}
      /\ pc' = "check" => pc \in {"asleep", "lost", "check"}
      /\ UNCHANGED <<flags, phase, stream, expected, late, byHost, commands>>
  BY DEF IInv, TypeOK, SeekPosition, Notify
<1>2. host' \in [Hosts -> Times \cup {-1}]
  BY <1>1 DEF IInv, TypeOK
<1>3. told' \in Counts
  BY <1>1, WithinFile
<1>4. TypeOK'
  BY <1>1, <1>2, <1>3 DEF IInv, TypeOK, flags, stream
<1>5. Decoded'
  BY <1>1 DEF IInv, Decoded, InHand, flags, stream
<1>6. Held'
  BY <1>1 DEF IInv, Held, flags, stream
<1>7. ToFrames(position') + 1 \in Near(told')
  BY <1>1, <1>3, NearCount
<1>8. Expected'
  BY <1>1, <1>7 DEF IInv, Expected, Upcoming, Over, flags, stream
<1> QED
  BY <1>4, <1>5, <1>6, <1>8 DEF IInv

\* A host stops the track.
LEMMA StopKeeps ==
  ASSUME IInv, NEW h \in Hosts, Stop(h)
  PROVE  IInv'
<1>1. /\ paused' \in BOOLEAN /\ boundary' \in BOOLEAN /\ seekPending' \in BOOLEAN
      /\ stop' \in BOOLEAN /\ again' \in BOOLEAN /\ byHost' \in BOOLEAN
  BY DEF IInv, TypeOK, Stop, Command, Notify, flags, stream, ghosts, Quiet, Others
<1>2. TypeOK'
  BY <1>1, CountsAreNumbers, OutputAssumption
  DEF IInv, TypeOK, Decoded, InHand, Stop, Command, Notify, flags, stream, ghosts, Quiet, Others
<1>3. Decoded'
  BY <1>1, CountsAreNumbers, OutputAssumption
  DEF IInv, TypeOK, Decoded, InHand, Stop, Command, Notify, flags, stream, ghosts, Quiet, Others
<1>4. Held'
  BY <1>1, CountsAreNumbers, OutputAssumption
  DEF IInv, TypeOK, Held, Stop, Command, Notify, flags, stream, ghosts, Quiet, Others
<1>5. Expected'
  BY <1>1, CountsAreNumbers, OutputAssumption
  DEF IInv, TypeOK, Decoded, InHand, Expected, Upcoming, Over, Stop, Command, Notify, flags,
     stream, ghosts, Quiet, Others
<1> QED
  BY <1>2, <1>3, <1>4, <1>5 DEF IInv

\* A URL is opened.
LEMMA OpenUrlKeeps ==
  ASSUME IInv, OpenUrl
  PROVE  IInv'
<1>1. /\ pc = "open" /\ pc' = "receive" /\ chunk' = 0 /\ avail' = 0 /\ decoded' = 0
      /\ UNCHANGED <<flags, position, host, commands, phase, url, again, retry, told, late,
                     byHost>>
  BY DEF OpenUrl, Quiet, Others
<1>2. ResumeAt \in Times /\ skip' = ToFrames(ResumeAt) /\ skip' \in Counts
  <2>1. ResumeAt \in Times
    BY WithinFile DEF ResumeAt, IInv, TypeOK
  <2>2. skip' = ToFrames(ResumeAt)
    BY OutputAssumption DEF OpenUrl, ToFrames
  <2> QED
    BY <2>1, <2>2, WithinFile
<1>3. expected' \subseteq 1 .. Frames + 1 /\ (~stop => skip' + 1 \in expected')
  <2>1. CASE seekPending
    <3>1. seekTarget \in Times /\ ResumeAt = seekTarget /\ expected' = {ToFrames(seekTarget) + 1}
      BY <2>1 DEF OpenUrl, ResumeAt, IInv, TypeOK
    <3> QED
      BY <1>2, <3>1, CountsAreNumbers
  <2>2. CASE ~seekPending
    <3>1. told \in Counts /\ expected' = expected \cup Near(told)
      BY <2>2 DEF OpenUrl, IInv, TypeOK
    <3>2. expected' \subseteq 1 .. Frames + 1
      BY <3>1, NearCount DEF IInv, TypeOK
    <3>3. CASE retry
      BY <1>2, <2>2, <3>1, <3>2, <3>3 DEF ResumeAt, IInv, Expected
    <3>4. CASE ~retry
      <4>1. skip' = 0 /\ (~stop => 1 \in expected)
        BY <1>1, <1>2, <2>2, <3>4, WithinFile DEF ResumeAt, IInv, Expected, Over
      <4> QED
        BY <3>1, <3>2, <4>1
    <3> QED
      BY <3>2, <3>3, <3>4
  <2> QED
    BY <2>1, <2>2
<1>4. 0 \in Counts /\ 0 \in 0 .. Chunks /\ 0 * ChunkSize = 0
  BY WithinFile, OutputAssumption
<1>5. TypeOK'
  BY <1>1, <1>2, <1>3, <1>4 DEF IInv, TypeOK, flags
<1>6. Decoded'
  BY <1>1, <1>4 DEF Decoded, InHand
<1>7. Held'
  BY <1>1 DEF IInv, Held, flags
<1>8. Upcoming' = skip'
  BY <1>1, <1>2, CountsAreNumbers DEF Upcoming
<1>9. Expected'
  BY <1>1, <1>3, <1>8 DEF IInv, Expected, flags
<1> QED
  BY <1>5, <1>6, <1>7, <1>9 DEF IInv

\* A chunk arrives.
LEMMA ReceiveChunkKeeps ==
  ASSUME IInv, ReceiveChunk
  PROVE  IInv'
<1>1. /\ pc = "receive" /\ chunk < Chunks
      /\ UNCHANGED <<flags, position, host, commands, phase, url, decoded, skip, retry, told,
                     expected, late, byHost>>
  BY DEF ReceiveChunk, Quiet, Others, ghosts
<1>2. CASE stop
  <2>1. pc' = "stopped" /\ UNCHANGED <<chunk, avail, again>>
    BY <1>2 DEF ReceiveChunk
  <2>2. TypeOK'
    BY <1>1, <2>1 DEF IInv, TypeOK, flags
  <2>3. Decoded' /\ Held' /\ Expected'
    BY <1>1, <2>1 DEF IInv, Decoded, InHand, Held, Expected, Over, flags
  <2> QED
    BY <2>2, <2>3 DEF IInv
<1>3. CASE ~stop
  <2>1. /\ chunk' = chunk + 1 /\ avail' = avail + ChunkSize /\ again' = FALSE
        /\ pc' = "decode"
    BY <1>3 DEF ReceiveChunk
  <2>2. /\ chunk \in 0 .. Chunks /\ chunk' \in 0 .. Chunks
        /\ avail' = chunk' * ChunkSize /\ avail' \in Counts /\ avail <= avail'
    <3>1. chunk \in 0 .. Chunks /\ chunk' \in 0 .. Chunks
      BY <1>1, <2>1, OutputAssumption DEF IInv, TypeOK
    <3>2. avail' = chunk' * ChunkSize
      BY <2>1, <3>1, NextChunk DEF IInv, Decoded
    <3>3. avail' \in Counts /\ avail \in Counts
      BY <3>1, <3>2, ChunkFits DEF IInv, TypeOK
    <3> QED
      BY <2>1, <3>1, <3>2, <3>3, OutputAssumption, CountsAreNumbers
  <2>3. TypeOK'
    BY <1>1, <2>1, <2>2 DEF IInv, TypeOK, flags
  <2>4. Decoded'
    BY <1>1, <2>1, <2>2, CountsAreNumbers DEF IInv, TypeOK, Decoded, InHand
  <2>5. Held'
    BY <1>1, <2>1 DEF IInv, Held, flags
  <2>6. Expected'
    BY <1>1, <2>1 DEF IInv, Expected, Upcoming, Over, flags
  <2> QED
    BY <2>3, <2>4, <2>5, <2>6 DEF IInv
<1> QED
  BY <1>2, <1>3

\* The transfer is complete ...
LEMMA StreamEndsKeeps ==
  ASSUME IInv, StreamEnds
  PROVE  IInv'
<1>1. /\ paused' \in BOOLEAN /\ boundary' \in BOOLEAN /\ seekPending' \in BOOLEAN
      /\ stop' \in BOOLEAN /\ again' \in BOOLEAN /\ byHost' \in BOOLEAN
  BY DEF IInv, TypeOK, StreamEnds, flags, stream, ghosts, Quiet, Others
<1>2. TypeOK'
  BY <1>1, CountsAreNumbers, OutputAssumption
  DEF IInv, TypeOK, Decoded, InHand, StreamEnds, flags, stream, ghosts, Quiet, Others
<1>3. Decoded'
  BY <1>1, CountsAreNumbers, OutputAssumption
  DEF IInv, TypeOK, Decoded, InHand, StreamEnds, flags, stream, ghosts, Quiet, Others
<1>4. Held'
  BY <1>1, CountsAreNumbers, OutputAssumption
  DEF IInv, TypeOK, Held, StreamEnds, flags, stream, ghosts, Quiet, Others
<1>5. Expected'
  BY <1>1, CountsAreNumbers, OutputAssumption
  DEF IInv, TypeOK, Decoded, InHand, Expected, Upcoming, Over, StreamEnds, flags, stream, ghosts,
     Quiet, Others
<1> QED
  BY <1>2, <1>3, <1>4, <1>5 DEF IInv

\* ... or breaks off.
LEMMA StreamBreaksKeeps ==
  ASSUME IInv, StreamBreaks
  PROVE  IInv'
<1>0. retry' = (~stop /\ position > 0)
  BY Zenon DEF StreamBreaks
<1>1. /\ pc = "receive" /\ pc' \in {"open", "stopped", "failed"}
      /\ expected' = Near(told)
      /\ url' = url \/ (url < Urls /\ url' = url + 1)
      /\ UNCHANGED <<flags, position, host, commands, phase, chunk, decoded, avail, skip, again,
                     told, late, byHost>>
  BY DEF StreamBreaks, Quiet, Others
<1>2. expected' \in SUBSET (1 .. Frames + 1) /\ retry' \in BOOLEAN /\ url' \in 1 .. Urls
  <2>1. told \in Counts /\ url \in 1 .. Urls
    BY DEF IInv, TypeOK
  <2>2. url' \in 1 .. Urls
    BY <1>1, <2>1, OutputAssumption
  <2>3. retry' \in BOOLEAN
    BY <1>0, Zenon
  <2> QED
    BY <1>1, <2>1, <2>2, <2>3, NearCount
<1>3. TypeOK'
  BY <1>1, <1>2 DEF IInv, TypeOK, flags
<1>4. Decoded'
  BY <1>1 DEF IInv, Decoded, InHand
<1>5. Held'
  BY <1>1 DEF IInv, Held, flags
<1>6. ~retry' /\ ~stop => 1 \in expected'
  <2>1. SUFFICES ASSUME ~(position > 0)
                 PROVE  1 \in expected'
    BY <1>0
  <2>2. position \in Nat
    BY WithinFile DEF IInv, TypeOK
  <2>3. position = 0
    BY <2>1, <2>2
  <2>4. ToFrames(position) + 1 = 1
    BY <2>3, WithinFile
  <2> QED
    BY <1>1, <2>4 DEF IInv, Expected
<1>7. Expected'
  BY <1>1, <1>6 DEF IInv, Expected, Over, flags
<1> QED
  BY <1>3, <1>4, <1>5, <1>7 DEF IInv

\* A frame is decoded.
LEMMA DecodeKeeps ==
  ASSUME IInv, Decode
  PROVE  IInv'
<1>1. /\ paused' \in BOOLEAN /\ boundary' \in BOOLEAN /\ seekPending' \in BOOLEAN
      /\ stop' \in BOOLEAN /\ again' \in BOOLEAN /\ byHost' \in BOOLEAN
  BY DEF IInv, TypeOK, Decode, flags, stream, ghosts, Quiet, Others
<1>2. TypeOK'
  BY <1>1, CountsAreNumbers, OutputAssumption
  DEF IInv, TypeOK, Decoded, InHand, Decode, flags, stream, ghosts, Quiet, Others
<1>3. Decoded'
  BY <1>1, CountsAreNumbers, OutputAssumption
  DEF IInv, TypeOK, Decoded, InHand, Decode, flags, stream, ghosts, Quiet, Others
<1>4. Held'
  BY <1>1, CountsAreNumbers, OutputAssumption
  DEF IInv, TypeOK, Held, Decode, flags, stream, ghosts, Quiet, Others
<1>5. Expected'
  BY <1>1, CountsAreNumbers, OutputAssumption
  DEF IInv, TypeOK, Decoded, InHand, Expected, Upcoming, Over, Decode, flags, stream,
     ghosts, Quiet, Others
<1> QED
  BY <1>2, <1>3, <1>4, <1>5 DEF IInv

\* The chunk has been decoded; a seek is served.
LEMMA ServedKeeps ==
  ASSUME IInv, Served
  PROVE  IInv'
<1>1. /\ pc = "decode" /\ decoded = avail
      /\ UNCHANGED <<host, commands, paused, boundary, seekTarget, stop, position, phase, url,
                     chunk, avail, retry, told, late, byHost>>
  BY DEF Served, Others
<1>2. CASE seekPending /\ ~again
  <2>1. /\ seekPending' = FALSE /\ skip' = ToFrames(seekTarget) /\ decoded' = 0
        /\ again' = TRUE /\ expected' = {ToFrames(seekTarget) + 1} /\ pc' = pc
    BY <1>2 DEF Served
  <2>2. skip' \in Counts /\ expected' \in SUBSET (1 .. Frames + 1) /\ decoded' \in Counts
    <3>1. ToFrames(seekTarget) \in Counts /\ 0 \in Counts
      BY WithinFile DEF IInv, TypeOK
    <3>2. ToFrames(seekTarget) + 1 \in 1 .. Frames + 1
      BY <3>1, CountsAreNumbers
    <3> QED
      BY <2>1, <3>1, <3>2
  <2>3. TypeOK'
    BY <1>1, <2>1, <2>2 DEF IInv, TypeOK
  <2>4. Decoded'
    BY <1>1, <2>1, CountsAreNumbers DEF IInv, TypeOK, Decoded, InHand
  <2>5. Held'
    BY <1>1, <2>1 DEF IInv, Held
  <2>6. Upcoming' = skip'
    BY <2>1, <2>2, CountsAreNumbers DEF Upcoming
  <2>7. Expected'
    BY <1>1, <2>1, <2>6 DEF IInv, Expected
  <2> QED
    BY <2>3, <2>4, <2>5, <2>7 DEF IInv
<1>3. CASE ~(seekPending /\ ~again)
  <2>1. /\ pc' \in {"stopped", "receive"}
        /\ UNCHANGED <<seekPending, skip, decoded, again, expected>>
    BY <1>3 DEF Served
  <2>2. TypeOK'
    BY <1>1, <2>1 DEF IInv, TypeOK
  <2>3. Decoded'
    BY <1>1, <2>1 DEF IInv, Decoded, InHand
  <2>4. Held'
    BY <1>1, <2>1 DEF IInv, Held
  <2>5. Expected'
    BY <1>1, <2>1 DEF IInv, Expected, Upcoming, Over
  <2> QED
    BY <2>2, <2>3, <2>4, <2>5 DEF IInv
<1> QED
  BY <1>2, <1>3

\* The playback thread must wait ...
LEMMA DozeKeeps ==
  ASSUME IInv, Doze
  PROVE  IInv'
<1>1. /\ paused' \in BOOLEAN /\ boundary' \in BOOLEAN /\ seekPending' \in BOOLEAN
      /\ stop' \in BOOLEAN /\ again' \in BOOLEAN /\ byHost' \in BOOLEAN
  BY DEF IInv, TypeOK, Doze, Ready, flags, stream, ghosts, Quiet, Others
<1>2. TypeOK'
  BY <1>1, CountsAreNumbers, OutputAssumption
  DEF IInv, TypeOK, Decoded, InHand, Doze, Ready, flags, stream, ghosts, Quiet, Others
<1>3. Decoded'
  BY <1>1, CountsAreNumbers, OutputAssumption
  DEF IInv, TypeOK, Decoded, InHand, Doze, Ready, flags, stream, ghosts, Quiet, Others
<1>4. Held'
  BY <1>1, CountsAreNumbers, OutputAssumption
  DEF IInv, TypeOK, Held, Doze, Ready, flags, stream, ghosts, Quiet, Others
<1>5. Expected'
  BY <1>1, CountsAreNumbers, OutputAssumption
  DEF IInv, TypeOK, Decoded, InHand, Expected, Upcoming, Over, Doze, Ready, flags, stream,
     ghosts, Quiet, Others
<1> QED
  BY <1>2, <1>3, <1>4, <1>5 DEF IInv

\* ... and blocks.
LEMMA FallAsleepKeeps ==
  ASSUME IInv, FallAsleep
  PROVE  IInv'
<1>1. /\ paused' \in BOOLEAN /\ boundary' \in BOOLEAN /\ seekPending' \in BOOLEAN
      /\ stop' \in BOOLEAN /\ again' \in BOOLEAN /\ byHost' \in BOOLEAN
  BY DEF IInv, TypeOK, FallAsleep, Ready, flags, stream, ghosts, Quiet, Others
<1>2. TypeOK'
  BY <1>1, CountsAreNumbers, OutputAssumption
  DEF IInv, TypeOK, Decoded, InHand, FallAsleep, Ready, flags, stream, ghosts, Quiet, Others
<1>3. Decoded'
  BY <1>1, CountsAreNumbers, OutputAssumption
  DEF IInv, TypeOK, Decoded, InHand, FallAsleep, Ready, flags, stream, ghosts, Quiet, Others
<1>4. Held'
  BY <1>1, CountsAreNumbers, OutputAssumption
  DEF IInv, TypeOK, Held, FallAsleep, Ready, flags, stream, ghosts, Quiet, Others
<1>5. Expected'
  BY <1>1, CountsAreNumbers, OutputAssumption
  DEF IInv, TypeOK, Decoded, InHand, Expected, Upcoming, Over, FallAsleep, Ready, flags, stream,
     ghosts, Quiet, Others
<1> QED
  BY <1>2, <1>3, <1>4, <1>5 DEF IInv

\* The host takes the frame ...
LEMMA AcceptKeeps ==
  ASSUME IInv, Accept
  PROVE  IInv'
<1>1. /\ pc = "offer" /\ pc' = "decode" /\ decoded' = decoded + 1 /\ told' = decoded + 1
      /\ position' = ToTicks(decoded + 1) /\ expected' = {decoded + 2}
      /\ late' = IF paused THEN late + 1 ELSE late
      /\ UNCHANGED <<host, commands, flags, phase, url, chunk, avail, skip, again, retry,
                     byHost>>
  BY DEF Accept, Others
<1>2. /\ decoded \in Nat /\ decoded + 1 \in Counts /\ decoded + 1 <= avail /\ skip <= decoded
      /\ skip \in Nat /\ decoded + 2 = decoded + 1 + 1 /\ decoded + 2 \in 1 .. Frames + 1
  BY <1>1, CountsAreNumbers DEF IInv, TypeOK, Decoded, InHand
<1>3. position' \in Times /\ ToFrames(position') + 1 \in Near(told')
  BY <1>1, <1>2, WithinFile, NearCount
<1>4. TypeOK'
  BY <1>1, <1>2, <1>3 DEF IInv, TypeOK, flags
<1>5. Decoded'
  BY <1>1, <1>2 DEF IInv, Decoded, InHand
<1>6. Held'
  BY <1>1 DEF IInv, TypeOK, Held, flags
<1>7. Upcoming' = decoded + 1
  BY <1>1, <1>2 DEF Upcoming
<1>8. Expected'
  BY <1>1, <1>2, <1>3, <1>7 DEF Expected
<1> QED
  BY <1>4, <1>5, <1>6, <1>8 DEF IInv

\* ... or refuses it ...
LEMMA RefuseKeeps ==
  ASSUME IInv, Refuse
  PROVE  IInv'
<1>1. /\ paused' \in BOOLEAN /\ boundary' \in BOOLEAN /\ seekPending' \in BOOLEAN
      /\ stop' \in BOOLEAN /\ again' \in BOOLEAN /\ byHost' \in BOOLEAN
  BY DEF IInv, TypeOK, Refuse, flags, stream, ghosts, Quiet, Others
<1>2. TypeOK'
  BY <1>1, CountsAreNumbers, OutputAssumption
  DEF IInv, TypeOK, Decoded, InHand, Refuse, flags, stream, ghosts, Quiet, Others
<1>3. Decoded'
  BY <1>1, CountsAreNumbers, OutputAssumption
  DEF IInv, TypeOK, Decoded, InHand, Refuse, flags, stream, ghosts, Quiet, Others
<1>4. Held'
  BY <1>1, CountsAreNumbers, OutputAssumption
  DEF IInv, TypeOK, Held, Refuse, flags, stream, ghosts, Quiet, Others
<1>5. Expected'
  BY <1>1, CountsAreNumbers, OutputAssumption
  DEF IInv, TypeOK, Decoded, InHand, Expected, Upcoming, Over, Refuse, flags, stream,
     ghosts, Quiet, Others
<1> QED
  BY <1>2, <1>3, <1>4, <1>5 DEF IInv

\* ... or has stopped the track.
LEMMA OfferStoppedKeeps ==
  ASSUME IInv, OfferStopped
  PROVE  IInv'
<1>1. /\ paused' \in BOOLEAN /\ boundary' \in BOOLEAN /\ seekPending' \in BOOLEAN
      /\ stop' \in BOOLEAN /\ again' \in BOOLEAN /\ byHost' \in BOOLEAN
  BY DEF IInv, TypeOK, OfferStopped, flags, stream, ghosts, Quiet, Others
<1>2. TypeOK'
  BY <1>1, CountsAreNumbers, OutputAssumption
  DEF IInv, TypeOK, Decoded, InHand, OfferStopped, flags, stream, ghosts, Quiet, Others
<1>3. Decoded'
  BY <1>1, CountsAreNumbers, OutputAssumption
  DEF IInv, TypeOK, Decoded, InHand, OfferStopped, flags, stream, ghosts, Quiet, Others
<1>4. Held'
  BY <1>1, CountsAreNumbers, OutputAssumption
  DEF IInv, TypeOK, Held, OfferStopped, flags, stream, ghosts, Quiet, Others
<1>5. Expected'
  BY <1>1, CountsAreNumbers, OutputAssumption
  DEF IInv, TypeOK, Decoded, InHand, Expected, Upcoming, Over, OfferStopped, flags, stream,
     ghosts, Quiet, Others
<1> QED
  BY <1>2, <1>3, <1>4, <1>5 DEF IInv

\* What the last part of emit_frame leaves alone.
Emitting ==
  /\ Others
  /\ UNCHANGED <<seekPending, seekTarget, stop, position, url, chunk, avail, skip, again,
                 retry, told, expected>>

\* The playback thread sees stop_flag, or waits, after it has looked at the
\* request for a pause.
LEMMA WaitKeeps ==
  ASSUME IInv, InHand, Emitting, decoded' = decoded, phase' \in Waits,
         pc' \in {"stopped", "check"},
         Consume \/ UNCHANGED <<paused, boundary, late, byHost>>
  PROVE  IInv'
<1>1. /\ paused' \in BOOLEAN /\ byHost' \in BOOLEAN /\ boundary' \in BOOLEAN
      /\ late' \in Nat
      /\ paused' => late' <= 1 /\ (byHost' \/ late' = 0)
  BY ConsumeHolds DEF IInv, TypeOK, Held
<1>2. TypeOK'
  BY <1>1 DEF IInv, TypeOK, Emitting, Others
<1>3. Decoded'
  BY DEF IInv, Decoded, InHand, Emitting, Others
<1>4. Held'
  BY <1>1 DEF Held
<1>5. Expected'
  BY DEF IInv, Expected, Upcoming, Over, InHand, Emitting, Others
<1> QED
  BY <1>2, <1>3, <1>4, <1>5 DEF IInv

\* It goes on: a frame is not offered while paused, unless it already was.
LEMMA ProceedKeeps ==
  ASSUME IInv, InHand, Emitting, Proceed, phase' = phase, ~stop,
         UNCHANGED <<paused, late, byHost>>, boundary' \in BOOLEAN,
         pc = "refused" \/ ~paused \/ seekPending
  PROVE  IInv'
<1>1. /\ paused' \in BOOLEAN /\ byHost' \in BOOLEAN /\ decoded' \in {decoded, decoded + 1}
      /\ pc' \in {"decode", "offer"}
      /\ pc' = "offer" => ~seekPending /\ decoded' = decoded
  BY DEF IInv, TypeOK, Proceed, Drop
<1>2. /\ decoded' \in Counts /\ decoded' <= avail
      /\ pc' = "offer" => skip <= decoded /\ decoded < avail
  BY <1>1, CountsAreNumbers DEF IInv, TypeOK, Decoded, InHand
<1>3. TypeOK'
  BY <1>1, <1>2 DEF IInv, TypeOK, Emitting, Others
<1>4. Decoded'
  BY <1>1, <1>2 DEF IInv, Decoded, InHand, Emitting, Others
<1>5. Held'
  BY <1>1 DEF IInv, Held
<1>6. Expected'
  <2>1. /\ UNCHANGED <<position, told, retry, seekPending, stop, skip, expected>>
        /\ pc' # "open" /\ pc # "open" /\ ~Over /\ skip <= decoded
        /\ ToFrames(position) + 1 \in Near(told)
    BY <1>1 DEF Emitting, IInv, Expected, Decoded, InHand, Over
  <2>2. CASE seekPending
    BY <1>1, <2>1, <2>2 DEF Expected
  <2>3. CASE ~seekPending
    <3>1. decoded' = decoded /\ Upcoming + 1 \in expected
      BY <2>1, <2>3 DEF Proceed, IInv, Expected
    <3>2. Upcoming = decoded /\ Upcoming' = decoded
      BY <2>1, <3>1, CountsAreNumbers DEF IInv, TypeOK, Upcoming
    <3> QED
      BY <2>1, <3>1, <3>2 DEF Expected
  <2> QED
    BY <2>2, <2>3
<1> QED
  BY <1>3, <1>4, <1>5, <1>6 DEF IInv

\* emit_frame begins.
LEMMA PaceKeeps ==
  ASSUME IInv, Pace
  PROVE  IInv'
<1>1. Emitting /\ decoded' = decoded /\ InHand
  BY DEF Pace, Emitting, Others, stream, InHand
<1>2. phase' \in Waits
  BY DEF Pace, Wait, Waits, IInv, TypeOK
<1>3. pc' \in {"stopped", "check"}
  BY DEF Pace, Wait
<1>4. Consume \/ UNCHANGED <<paused, boundary, late, byHost>>
  BY DEF Pace
<1> QED
  BY <1>1, <1>2, <1>3, <1>4, WaitKeeps

\* cv.wait returns.
LEMMA GoOnKeeps ==
  ASSUME IInv, GoOn
  PROVE  IInv'
<1>1. Emitting /\ InHand /\ phase \in Waits
  BY DEF GoOn, Emitting, InHand, IInv, TypeOK
<1>2. CASE stop
  <2>1. /\ UNCHANGED <<paused, boundary, late, byHost, phase, decoded>>
        /\ pc' = "stopped"
    BY <1>2 DEF GoOn
  <2> QED
    BY <1>1, <2>1, WaitKeeps
<1>3. CASE ~stop /\ phase = "pre"
  <2>1. /\ UNCHANGED <<paused, boundary, late, byHost, decoded>>
        /\ pc' = "check" /\ phase' \in Waits
    BY <1>3 DEF GoOn, Wait, Waits
  <2> QED
    BY <1>1, <2>1, WaitKeeps
<1>4. CASE ~stop /\ phase = "main" /\ boundary
  <2>1. Consume /\ pc' = "check" /\ phase' \in Waits /\ decoded' = decoded
    BY <1>4 DEF GoOn, Wait, Waits
  <2> QED
    BY <1>1, <2>1, WaitKeeps
<1>5. CASE ~stop /\ phase = "main" /\ ~boundary
  <2>1. Consume /\ Proceed /\ phase' = phase
    BY <1>5 DEF GoOn
  <2>2. UNCHANGED <<paused, late, byHost>> /\ boundary' \in BOOLEAN
    BY <1>5, <2>1, ConsumeHolds
  <2>3. ~paused \/ seekPending
    BY <1>5 DEF GoOn, Ready
  <2> QED
    BY <1>1, <1>5, <2>1, <2>2, <2>3, ProceedKeeps
<1>6. CASE ~stop /\ phase \in {"post", "retry"}
  <2>1. Proceed /\ UNCHANGED <<paused, boundary, late, byHost, phase>>
    BY <1>6 DEF GoOn
  <2>2. boundary' \in BOOLEAN
    BY <2>1 DEF IInv, TypeOK
  <2>3. ~paused \/ seekPending
    BY <1>6 DEF GoOn, Ready
  <2> QED
    BY <1>1, <1>6, <2>1, <2>2, <2>3, ProceedKeeps
<1> QED
  BY <1>1, <1>2, <1>3, <1>4, <1>5, <1>6 DEF Waits

\* A refused frame is offered again.
LEMMA RetryKeeps ==
  ASSUME IInv, Retry
  PROVE  IInv'
<1>1. Emitting /\ InHand /\ Consume /\ pc = "refused" /\ phase \in Waits
  BY DEF Retry, Emitting, InHand, IInv, TypeOK
<1>2. CASE boundary
  <2>1. pc' = "check" /\ phase' \in Waits /\ decoded' = decoded
    BY <1>2 DEF Retry, Wait, Waits
  <2> QED
    BY <1>1, <2>1, WaitKeeps
<1>3. CASE ~boundary /\ stop
  <2>1. pc' = "stopped" /\ phase' = phase /\ decoded' = decoded
    BY <1>3 DEF Retry
  <2> QED
    BY <1>1, <2>1, WaitKeeps
<1>4. CASE ~boundary /\ ~stop
  <2>1. Proceed /\ phase' = phase
    BY <1>4 DEF Retry
  <2>2. UNCHANGED <<paused, late, byHost>> /\ boundary' \in BOOLEAN
    BY <1>1, <1>4, ConsumeHolds
  <2> QED
    BY <1>1, <1>4, <2>1, <2>2, ProceedKeeps
<1> QED
  BY <1>2, <1>3, <1>4

\* No action: nothing changes.
LEMMA StutterKeeps ==
  ASSUME IInv, UNCHANGED vars
  PROVE  IInv'
BY DEF IInv, vars, flags, stream, ghosts, TypeOK, Decoded, InHand, Held, Expected, Upcoming,
  Over

\* The invariant holds when the track is started.
LEMMA InitKeeps == Init => IInv
<1> SUFFICES ASSUME Init PROVE IInv
  OBVIOUS
<1>1. /\ paused \in BOOLEAN /\ boundary \in BOOLEAN /\ seekPending \in BOOLEAN
      /\ stop \in BOOLEAN /\ again \in BOOLEAN /\ byHost \in BOOLEAN
  BY DEF Init
<1>2. 0 \in Times /\ 0 \in Counts /\ 1 \in 1 .. Frames + 1 /\ 0 * ChunkSize = 0
      /\ 0 \in 0 .. Chunks /\ 1 \in 1 .. Urls /\ 0 \in 0 .. MaxCommands
  BY CountsAreNumbers, WithinFile, OutputAssumption
<1>3. ToFrames(0) + 1 \in Near(0)
  <2>1. ToFrames(0) = 0 /\ 0 + 1 \in Near(0)
    BY <1>2, WithinFile, NearCount
  <2> QED
    BY <2>1
<1>4. TypeOK
  BY <1>1, <1>2 DEF Init, TypeOK, Waits
<1>5. Decoded /\ Held /\ Expected
  BY <1>2, <1>3 DEF Init, Decoded, InHand, Held, Expected, Upcoming
<1> QED
  BY <1>4, <1>5 DEF IInv

\* Every step of the playback thread and of the hosts keeps the invariant.
LEMMA NextKeeps ==
  ASSUME IInv, [Next]_vars
  PROVE  IInv'
<1>1. CASE PlayerStep
  BY <1>1, OpenUrlKeeps, ReceiveChunkKeeps, StreamEndsKeeps, StreamBreaksKeeps, DecodeKeeps,
     ServedKeeps, PaceKeeps, DozeKeeps, FallAsleepKeeps, GoOnKeeps, AcceptKeeps, RefuseKeeps,
     OfferStoppedKeeps, RetryKeeps DEF PlayerStep
<1>2. ASSUME NEW h \in Hosts, HostStep(h)
      PROVE  IInv'
  BY <1>2, PauseKeeps, ResumeKeeps, PauseAtAudioBoundaryKeeps, StopKeeps, SeekKeeps,
     SeekPositionKeeps DEF HostStep
<1> QED
  BY <1>1, <1>2, StutterKeeps DEF Next

\* Only the completed transfer ends a track from where it was receiving.
LEMMA EndsOnlyAtTheEnd ==
  ASSUME [Next]_vars, pc = "receive", pc' = "ended"
  PROVE  StreamEnds
<1>1. pc' # pc
  OBVIOUS
<1>2. ASSUME NEW h \in Hosts, HostStep(h)
      PROVE  FALSE
  BY <1>1, <1>2 DEF HostStep, Pause, Resume, PauseAtAudioBoundary, Stop, Seek, SeekPosition,
     Notify
<1>3. CASE PlayerStep
  BY <1>3 DEF PlayerStep, OpenUrl, ReceiveChunk, StreamBreaks, Decode, Served, Pace, Doze,
     FallAsleep, GoOn, Accept, Refuse, OfferStopped, Retry
<1> QED
  BY <1>1, <1>2, <1>3 DEF Next, vars

-----------------------------------------------------------------------------
(* The theorems.                                                           *)

\* However long the file and whatever the hosts do, playback is in a state that
\* IInv describes.
THEOREM OutputInductive == Spec => []IInv
BY InitKeeps, NextKeeps, PTL DEF Spec

\* Every variable of the output loop keeps its type; no time lies beyond the end.
THEOREM OutputTypes == Spec => []TypeOK
<1>1. IInv => TypeOK
  BY DEF IInv
<1> QED
  BY <1>1, OutputInductive, PTL

\* Once paused is set the host is given at most the frame that was on offer, and
\* none if it was set at the boundary.
THEOREM OutputPauses == Spec => []PauseHolds
<1>1. IInv => PauseHolds
  BY DEF IInv, TypeOK, Held, PauseHolds
<1> QED
  BY <1>1, OutputInductive, PTL

\* Every frame that the host accepts is the one after the last, or the first one
\* after the target of a seek, or on a further URL one that lies less than a tick
\* before where the position stood; and the track does not end before its last frame
\* unless a seek is pending.
THEOREM OutputInOrder == Spec => InOrder
<1>1. ASSUME IInv, [Next]_vars, pc = "offer", pc' = "decode"
      PROVE  decoded + 1 \in expected
  BY <1>1 DEF IInv, Expected
<1>2. ASSUME IInv, [Next]_vars, pc = "receive", pc' = "ended"
      PROVE  seekPending \/ Frames + 1 \in expected
  <2>1. StreamEnds
    BY <1>2, EndsOnlyAtTheEnd
  <2>2. chunk = Chunks /\ ~stop
    BY <1>2, <2>1 DEF StreamEnds
  <2>3. decoded = Frames
    BY <1>2, <2>2 DEF IInv, Decoded, Frames
  <2>4. Upcoming = Frames
    BY <1>2, <2>3, CountsAreNumbers DEF Upcoming, IInv, TypeOK
  <2> QED
    BY <1>2, <2>2, <2>4 DEF IInv, Expected, Over
<1> QED
  BY <1>1, <1>2, OutputInductive, PTL DEF InOrder, Spec

=============================================================================
