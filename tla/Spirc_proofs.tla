---------------------------- MODULE Spirc_proofs ----------------------------
(***************************************************************************)
(* SpircSafe: with any contexts, hints and workers, and any number of      *)
(* commands, a raised flag has somebody to lower it, a deferred skip is    *)
(* carried out once and in its own context, and a command starts one track *)
(* at most.                                                                *)
(*                                                                         *)
(* The inductive invariant has four parts that hardly touch each other:    *)
(* types with the contexts of the workers (Typed), the flags               *)
(* (FlagsCovered), the deferred skip (Deferred) and who may still start a  *)
(* track for a command (Owed).  Each has a lemma with a step per action    *)
(* that can disturb it.                                                    *)
(***************************************************************************)
EXTENDS Spirc, SequenceTheorems, TLAPS

WorkerType == Requests(Busy \cup {"idle"})
ReaderType == Requests({"idle", "kick", "raise", "publish", "start",
                        "lookNext", "lookPrev", "storeNext", "storePrev"})

\* A worker that is past its fetch, or continues a context, has a context.
Typed ==
  /\ TypeOK
  /\ \A w \in Workers :
       worker[w].at \in {"check", "install", "place", "more", "join", "append"}
         => worker[w].ctx # None

\* A deferred skip is owed once, and the reader defers it for the context in which
\* it looked.
Deferred ==
  /\ owed \in {0, 1}
  /\ pending # 0 => owed = 1
  /\ SkipInContext
  /\ reader.at \in {"storeNext", "storePrev"} => reader.ctx = resolved \/ resolved = None

\* The reader, and a worker, may still start a track on behalf of command i.
ReaderOwes(i) ==
  /\ reader.at \in {"kick", "raise", "publish", "start", "lookNext"}
  /\ reader.cmd = i
  /\ reader.late \/ reader.hint.by # "uri"

WorkerOwes(w, i) ==
  /\ worker[w].at \in {"fetch", "check", "install", "place"}
  /\ worker[w].cmd = i
  /\ worker[w].hint.by # "uri"

\* For each command at most one of them may, and only while no track was started.
Once(i) ==
  /\ starts[i] <= 1
  /\ i > commands => starts[i] = 0
  /\ ReaderOwes(i) => starts[i] = 0
  /\ \A w \in Workers : WorkerOwes(w, i) => starts[i] = 0 /\ ~ReaderOwes(i)
  /\ \A v, w \in Workers : WorkerOwes(v, i) /\ WorkerOwes(w, i) => v = w

\* With what bounds the commands of those who owe.
Owed ==
  /\ reader.late => reader.hint.by = "uri"
  /\ reader.at = "start" => reader.late
  /\ reader.cmd <= commands
  /\ \A w \in Workers : worker[w].cmd <= commands
  /\ \A i \in 1 .. MaxCommands : Once(i)

IInv == Typed /\ FlagsCovered /\ Deferred /\ Owed

LEMMA InitIInv == Init => IInv
<1> SUFFICES ASSUME Init PROVE IInv
  OBVIOUS
<1> USE SpircAssumption DEF Init
<1>1. NoHint \in HintType
  BY DEF NoHint, HintType
<1>2. Idle \in WorkerType /\ Idle \in ReaderType
  BY <1>1 DEF Idle, WorkerType, ReaderType, Requests
<1>3. Typed
  <2>1. Idle.at = "idle"
    BY DEF Idle
  <2>2. /\ worker \in [Workers -> WorkerType] /\ reader \in ReaderType
        /\ \A w \in Workers : worker[w].at = "idle"
    BY <1>2, <2>1
  <2>3. list \in Seq(Tracks) /\ at \in 0 .. Len(list)
    OBVIOUS
  <2>4. commands \in 0 .. MaxCommands /\ starts \in [1 .. MaxCommands -> Nat]
    OBVIOUS
  <2>5. /\ ctxUri \in Contexts \cup {None} /\ resolved \in Contexts \cup {None}
        /\ skipOf \in Contexts \cup {None}
        /\ generation \in Nat /\ resolverGen \in Nat /\ owed \in Int
    OBVIOUS
  <2>6. inFlight \in BOOLEAN /\ autoplay \in BOOLEAN /\ clearing \in BOOLEAN
    BY Zenon
  <2>7. pending \in {-1, 0, 1}
    OBVIOUS
  <2> HIDE DEF Init
  <2>8. TypeOK
    BY <2>2, <2>3, <2>4, <2>5, <2>6, <2>7 DEF TypeOK, WorkerType, ReaderType
  <2> QED
    BY <2>2, <2>8 DEF Typed
<1>4. FlagsCovered
  BY DEF FlagsCovered
<1>5. Deferred
  BY DEF Deferred, SkipInContext, Idle
<1>6. Owed
  BY DEF Owed, Once, ReaderOwes, WorkerOwes, Idle
<1> QED
  BY <1>3, <1>4, <1>5, <1>6 DEF IInv

-----------------------------------------------------------------------------
(* Assignments to worker.                                                  *)

\* What worker is after one of them moves to another label.
LEMMA ThenFacts ==
  ASSUME TypeOK, NEW w \in Workers, NEW label \in Busy \cup {"idle"}, Then(w, label)
  PROVE  /\ worker' \in [Workers -> WorkerType]
         /\ worker'[w].at = label
         /\ worker'[w].ctx = worker[w].ctx /\ worker'[w].hint = worker[w].hint
         /\ worker'[w].cmd = worker[w].cmd /\ worker'[w].gen = worker[w].gen
         /\ \A v \in Workers : v # w => worker'[v] = worker[v]
<1>1. worker \in [Workers -> WorkerType]
  BY DEF TypeOK, WorkerType
<1>2. worker[w] \in WorkerType
  BY <1>1
<1>3. worker' = [worker EXCEPT ![w] = [worker[w] EXCEPT !.at = label]]
  BY <1>1 DEF Then
<1>4. [worker[w] EXCEPT !.at = label] \in WorkerType
  BY <1>2 DEF WorkerType, Requests
<1>5. worker'[w] = [worker[w] EXCEPT !.at = label]
  BY <1>1, <1>3
<1>6. /\ worker'[w].at = label
      /\ worker'[w].ctx = worker[w].ctx /\ worker'[w].hint = worker[w].hint
      /\ worker'[w].cmd = worker[w].cmd /\ worker'[w].gen = worker[w].gen
  BY <1>2, <1>5 DEF WorkerType, Requests
<1> QED
  BY <1>1, <1>3, <1>4, <1>6

\* What worker is after an entry is replaced.
LEMMA BecomesFacts ==
  ASSUME TypeOK, NEW w \in Workers, NEW x \in WorkerType, worker' = [worker EXCEPT ![w] = x]
  PROVE  /\ worker' \in [Workers -> WorkerType]
         /\ worker'[w] = x
         /\ \A v \in Workers : v # w => worker'[v] = worker[v]
BY DEF TypeOK, WorkerType

\* The entries that are written.
LEMMA Entries ==
  /\ NoHint \in HintType /\ NoHint.by = "none"
  /\ Idle \in WorkerType /\ Idle \in ReaderType
  /\ Idle = [at |-> "idle", ctx |-> None, hint |-> NoHint, cmd |-> 0, gen |-> 0,
             late |-> FALSE]
  /\ \A c \in Contexts, g \in Nat :
       /\ Continuing(c, g) \in WorkerType
       /\ Continuing(c, g).at = "more" /\ Continuing(c, g).ctx = c
       /\ Continuing(c, g).cmd = 0
<1> USE SpircAssumption
<1>1. NoHint \in HintType /\ NoHint.by = "none"
  BY DEF NoHint, HintType
<1>2. Idle \in WorkerType /\ Idle \in ReaderType
  BY <1>1 DEF Idle, WorkerType, ReaderType, Requests
<1>3. ASSUME NEW c \in Contexts, NEW g \in Nat
      PROVE  /\ Continuing(c, g) \in WorkerType
             /\ Continuing(c, g).at = "more" /\ Continuing(c, g).ctx = c
             /\ Continuing(c, g).cmd = 0
  <2> DEFINE q == [Idle EXCEPT !.at = "more"]
             p == [q EXCEPT !.ctx = c]
  <2>1. q \in WorkerType /\ q.at = "more" /\ q.cmd = 0
    BY <1>2 DEF WorkerType, Requests, Busy, Idle
  <2>2. Continuing(c, g) = [p EXCEPT !.gen = g]
    BY Zenon DEF Continuing
  <2> HIDE DEF q
  <2>3. p \in WorkerType /\ p.at = "more" /\ p.cmd = 0 /\ p.ctx = c
    BY <2>1 DEF WorkerType, Requests
  <2> HIDE DEF p
  <2>4. [p EXCEPT !.gen = g] \in WorkerType
    BY <2>3 DEF WorkerType, Requests
  <2>5. /\ [p EXCEPT !.gen = g].at = "more" /\ [p EXCEPT !.gen = g].ctx = c
        /\ [p EXCEPT !.gen = g].cmd = 0
    BY <2>3 DEF WorkerType, Requests
  <2> QED
    BY <2>2, <2>4, <2>5
<1> QED
  BY <1>1, <1>2, <1>3 DEF Idle

\* Alterations of an entry.
LEMMA Altered ==
  ASSUME NEW S, NEW r \in Requests(S), NEW label
  PROVE  /\ LET q == [r EXCEPT !.at = label]
            IN  /\ q \in Requests({label})
                /\ q.at = label /\ q.ctx = r.ctx /\ q.hint = r.hint
                /\ q.cmd = r.cmd /\ q.gen = r.gen /\ q.late = r.late
         /\ \A c \in Contexts \cup {None} :
              LET q == [r EXCEPT !.at = label, !.ctx = c]
              IN  /\ q \in Requests({label})
                  /\ q.at = label /\ q.ctx = c /\ q.hint = r.hint
                  /\ q.cmd = r.cmd /\ q.gen = r.gen /\ q.late = r.late
         /\ \A g \in Nat :
              LET q == [r EXCEPT !.at = label, !.gen = g]
              IN  /\ q \in Requests({label})
                  /\ q.at = label /\ q.ctx = r.ctx /\ q.hint = r.hint
                  /\ q.cmd = r.cmd /\ q.gen = g /\ q.late = r.late
<1> DEFINE q == [r EXCEPT !.at = label]
<1>1. /\ q \in Requests({label})
      /\ q.at = label /\ q.ctx = r.ctx /\ q.hint = r.hint
      /\ q.cmd = r.cmd /\ q.gen = r.gen /\ q.late = r.late
  BY DEF Requests
<1>2. ASSUME NEW c \in Contexts \cup {None}
      PROVE  LET s == [r EXCEPT !.at = label, !.ctx = c]
             IN  /\ s \in Requests({label})
                 /\ s.at = label /\ s.ctx = c /\ s.hint = r.hint
                 /\ s.cmd = r.cmd /\ s.gen = r.gen /\ s.late = r.late
  <2> DEFINE s == [q EXCEPT !.ctx = c]
  <2>1. [r EXCEPT !.at = label, !.ctx = c] = s
    BY Zenon
  <2> HIDE DEF q
  <2>2. /\ s \in Requests({label})
        /\ s.at = label /\ s.ctx = c /\ s.hint = r.hint
        /\ s.cmd = r.cmd /\ s.gen = r.gen /\ s.late = r.late
    BY <1>1 DEF Requests
  <2> HIDE DEF s
  <2> QED
    BY <2>1, <2>2
<1>3. ASSUME NEW g \in Nat
      PROVE  LET s == [r EXCEPT !.at = label, !.gen = g]
             IN  /\ s \in Requests({label})
                 /\ s.at = label /\ s.ctx = r.ctx /\ s.hint = r.hint
                 /\ s.cmd = r.cmd /\ s.gen = g /\ s.late = r.late
  <2> DEFINE s == [q EXCEPT !.gen = g]
  <2>1. [r EXCEPT !.at = label, !.gen = g] = s
    BY Zenon
  <2> HIDE DEF q
  <2>2. /\ s \in Requests({label})
        /\ s.at = label /\ s.ctx = r.ctx /\ s.hint = r.hint
        /\ s.cmd = r.cmd /\ s.gen = g /\ s.late = r.late
    BY <1>1 DEF Requests
  <2> HIDE DEF s
  <2> QED
    BY <2>1, <2>2
<1> QED
  BY <1>1, <1>2, <1>3, Zenon

\* What the reader serves once a command is there.
Serving(label, h, k, late) ==
  [at : {label}, ctx : {None}, hint : {h}, cmd : {k}, gen : {0}, late : {late}]

LEMMA Served ==
  ASSUME NEW label, NEW h \in HintType, NEW k \in 0 .. MaxCommands
  PROVE  /\ [Idle EXCEPT !.at = label, !.cmd = k] \in Serving(label, NoHint, k, FALSE)
         /\ [Idle EXCEPT !.at = label, !.hint = h, !.cmd = k] \in Serving(label, h, k, FALSE)
         /\ [Idle EXCEPT !.at = label, !.hint = h, !.cmd = k, !.late = TRUE]
              \in Serving(label, h, k, TRUE)
<1> DEFINE a == [Idle EXCEPT !.at = label]
           b == [a EXCEPT !.hint = h]
           c == [b EXCEPT !.cmd = k]
<1>1. a \in [at : {label}, ctx : {None}, hint : {NoHint}, cmd : {0}, gen : {0}, late : {FALSE}]
  BY DEF Idle
<1>2. /\ [Idle EXCEPT !.at = label, !.cmd = k] = [a EXCEPT !.cmd = k]
      /\ [Idle EXCEPT !.at = label, !.hint = h, !.cmd = k] = c
      /\ [Idle EXCEPT !.at = label, !.hint = h, !.cmd = k, !.late = TRUE]
           = [c EXCEPT !.late = TRUE]
  BY Zenon
<1> HIDE DEF a
<1>3. [a EXCEPT !.cmd = k] \in Serving(label, NoHint, k, FALSE)
  BY <1>1 DEF Serving
<1>4. b \in [at : {label}, ctx : {None}, hint : {h}, cmd : {0}, gen : {0}, late : {FALSE}]
  BY <1>1
<1> HIDE DEF b
<1>5. c \in Serving(label, h, k, FALSE)
  BY <1>4 DEF Serving
<1> HIDE DEF c
<1>6. [c EXCEPT !.late = TRUE] \in Serving(label, h, k, TRUE)
  BY <1>5 DEF Serving
<1> QED
  BY <1>2, <1>3, <1>5, <1>6, Zenon

\* A track is started on behalf of command k.
LEMMA StartFacts ==
  ASSUME TypeOK, NEW k, Start(k)
  PROVE  /\ starts' \in [1 .. MaxCommands -> Nat]
         /\ \A i \in 1 .. MaxCommands : i # k => starts'[i] = starts[i]
         /\ \A i \in 1 .. MaxCommands : i = k => starts'[i] = starts[i] + 1
<1>1. starts \in [1 .. MaxCommands -> Nat] /\ starts' = [starts EXCEPT ![k] = starts[k] + 1]
  BY Zenon DEF TypeOK, Start
<1>2. CASE k \in 1 .. MaxCommands
  BY <1>1, <1>2
<1>3. CASE k \notin 1 .. MaxCommands
  <2>1. starts' = starts
    BY <1>1, <1>3
  <2> QED
    BY <1>1, <1>3, <2>1
<1> QED
  BY <1>2, <1>3

\* What worker is when w has put the state.
Tested(w) == [worker EXCEPT ![w].at = "test"]

LEMMA TestedFacts ==
  ASSUME TypeOK, NEW w \in Workers
  PROVE  /\ Tested(w) \in [Workers -> WorkerType] /\ Tested(w)[w].at = "test"
         /\ Tested(w)[w].cmd = worker[w].cmd /\ Tested(w)[w].gen = worker[w].gen
         /\ \A v \in Workers : v # w => Tested(w)[v] = worker[v]
<1>1. worker \in [Workers -> WorkerType] /\ worker[w] \in WorkerType
  BY DEF TypeOK, WorkerType
<1>2. /\ Tested(w)[w] = [worker[w] EXCEPT !.at = "test"]
      /\ \A v \in Workers : v # w => Tested(w)[v] = worker[v]
  BY <1>1 DEF Tested
<1>3. /\ [worker[w] EXCEPT !.at = "test"] \in WorkerType
      /\ [worker[w] EXCEPT !.at = "test"].at = "test"
      /\ [worker[w] EXCEPT !.at = "test"].cmd = worker[w].cmd
      /\ [worker[w] EXCEPT !.at = "test"].gen = worker[w].gen
  BY <1>1 DEF WorkerType, Requests, Busy
<1>4. Tested(w) \in [Workers -> WorkerType]
  BY <1>1, <1>3 DEF Tested
<1> QED
  BY <1>2, <1>3, <1>4

\* v is detached to continue a context.
Continues(v) ==
  /\ worker[v].at = "idle"
  /\ worker'[v].at = "more" /\ worker'[v].ctx # None /\ worker'[v].cmd = 0

\* What maybe_kick_autoplay does to the flag and the workers.
LEMMA AutoplayFacts ==
  ASSUME TypeOK, NEW W \in [Workers -> WorkerType], NEW p, MaybeAutoplay(W, p)
  PROVE  /\ worker' \in [Workers -> WorkerType] /\ autoplay' \in BOOLEAN
         /\ \/ autoplay' = autoplay /\ worker' = W
            \/ \E v \in Workers : /\ Continues(v)
                                  /\ \A u \in Workers : u # v => worker'[u] = W[u]
<1>1. CASE autoplay' = autoplay /\ worker' = W
  BY <1>1 DEF TypeOK
<1>2. CASE /\ resolved # None /\ autoplay' = TRUE
           /\ \E v \in Spare : worker' = [W EXCEPT ![v] = Continuing(resolved, generation)]
  <2>1. PICK v \in Spare : worker' = [W EXCEPT ![v] = Continuing(resolved, generation)]
    BY <1>2
  <2>2. v \in Workers /\ worker[v].at = "idle"
    BY DEF Spare
  <2>3. resolved \in Contexts /\ generation \in Nat
    BY <1>2 DEF TypeOK
  <2>4. /\ Continuing(resolved, generation) \in WorkerType
        /\ Continuing(resolved, generation).at = "more"
        /\ Continuing(resolved, generation).ctx = resolved
        /\ Continuing(resolved, generation).cmd = 0
    BY <2>3, Entries
  <2>5. /\ worker' \in [Workers -> WorkerType]
        /\ worker'[v] = Continuing(resolved, generation)
        /\ \A u \in Workers : u # v => worker'[u] = W[u]
    BY <2>1, <2>2, <2>4
  <2>6. Continues(v)
    BY <1>2, <2>2, <2>4, <2>5 DEF Continues
  <2> QED
    BY <1>2, <2>2, <2>5, <2>6
<1> QED
  BY <1>1, <1>2 DEF MaybeAutoplay

-----------------------------------------------------------------------------
(* Types.                                                                  *)

LEMMA ResolvedFacts ==
  ASSUME NEW c \in Contexts, NEW first \in Seq(Tracks)
  PROVE  first \o Resolved(c) \in Seq(Tracks)
<1>1. Size \in Nat /\ \A n \in 1 .. Size : <<c, n>> \in Tracks
  BY SpircAssumption DEF Tracks
<1>2. Resolved(c) \in [1 .. Size -> Tracks]
  BY <1>1 DEF Resolved
<1>3. Resolved(c) \in Seq(Tracks)
  BY <1>1, <1>2
<1> QED
  BY <1>3, ConcatProperties

LEMMA PlacementFacts ==
  ASSUME TypeOK, NEW c, NEW h
  PROVE  Placements(c, h) \subseteq 0 .. Len(list)
BY DEF TypeOK, Placements

\* The workers' contexts.
Contexted(W) ==
  \A w \in Workers : W[w].at \in {"check", "install", "place", "more", "join", "append"}
    => W[w].ctx # None

\* A worker at work with a list moves on.
LEMMA ContextedThen ==
  ASSUME Typed, NEW w \in Workers, NEW label \in Busy \cup {"idle"}, Then(w, label),
         \/ label \notin {"check", "install", "place", "more", "join", "append"}
         \/ worker[w].ctx # None
  PROVE  Contexted(worker') /\ worker' \in [Workers -> WorkerType]
<1>1. TypeOK
  BY DEF Typed
<1>2. /\ worker' \in [Workers -> WorkerType] /\ worker'[w].at = label
      /\ worker'[w].ctx = worker[w].ctx
      /\ \A v \in Workers : v # w => worker'[v] = worker[v]
  BY <1>1, ThenFacts
<1> QED
  BY <1>2 DEF Typed, Contexted

LEMMA ContextedGone ==
  ASSUME Typed, NEW w \in Workers, Gone(w)
  PROVE  /\ Contexted(worker') /\ worker' \in [Workers -> WorkerType]
         /\ worker'[w].at = "idle" /\ worker'[w].cmd = 0
         /\ \A v \in Workers : v # w => worker'[v] = worker[v]
<1>1. TypeOK /\ Idle \in WorkerType /\ Idle.at = "idle" /\ Idle.cmd = 0
  BY Entries DEF Typed
<1>2. /\ worker' \in [Workers -> WorkerType] /\ worker'[w] = Idle
      /\ \A v \in Workers : v # w => worker'[v] = worker[v]
  BY <1>1, BecomesFacts DEF Gone
<1> QED
  BY <1>1, <1>2 DEF Typed, Contexted

\* The part of TypeOK a worker's step can disturb.
Lists == list \in Seq(Tracks) /\ at \in 0 .. Len(list)
Flags == inFlight \in BOOLEAN /\ autoplay \in BOOLEAN /\ pending \in {-1, 0, 1}

LEMMA BesideTyped ==
  ASSUME Typed, Beside, worker' \in [Workers -> WorkerType], Contexted(worker'), Lists', Flags',
         starts' \in [1 .. MaxCommands -> Nat], owed' \in Int,
         UNCHANGED <<generation, resolverGen, skipOf>>
  PROVE  Typed'
<1>1. TypeOK'
  BY DEF Typed, TypeOK, Beside, WorkerType, Lists, Flags
<1> QED
  BY <1>1 DEF Typed, Contexted

LEMMA TypedWorker ==
  ASSUME Typed, NEW w \in Workers, WorkerStep(w)
  PROVE  Typed'
<1>0. /\ TypeOK /\ Lists /\ Flags
      /\ starts \in [1 .. MaxCommands -> Nat] /\ owed \in Int
  BY DEF Typed, TypeOK, Lists, Flags
<1>1. CASE UNCHANGED <<place, flags, starts, ghosts>> /\ Beside
           /\ Contexted(worker') /\ worker' \in [Workers -> WorkerType]
  <2>1. Lists' /\ Flags' /\ starts' \in [1 .. MaxCommands -> Nat] /\ owed' \in Int
        /\ UNCHANGED <<generation, resolverGen, skipOf>>
    BY <1>0, <1>1 DEF place, flags, ghosts, Lists, Flags
  <2> QED
    BY <1>1, <2>1, BesideTyped
<1>2. CASE Fetch(w)
  <2>1. Contexted(worker') /\ worker' \in [Workers -> WorkerType]
    BY <1>2, ContextedThen DEF Fetch, Busy
  <2> QED
    BY <1>1, <1>2, <2>1 DEF Fetch
<1>3. CASE Check(w)
  <2>1. worker[w].ctx # None
    BY <1>3 DEF Check, Now, Typed
  <2>2. Contexted(worker') /\ worker' \in [Workers -> WorkerType]
    BY <1>3, <2>1, ContextedThen DEF Check, Busy
  <2> QED
    BY <1>1, <1>3, <2>2 DEF Check
<1>4. CASE Install(w)
  <2> DEFINE c == worker[w].ctx
             first == IF worker[w].hint.by = "uri" /\ worker[w].hint.n = 0
                        THEN << <<c, 0>> >> ELSE <<>>
  <2>1. c # None
    BY <1>4 DEF Install, Now, Typed
  <2>2. c \in Contexts
    <3>1. worker[w] \in WorkerType
      BY <1>0 DEF TypeOK, WorkerType
    <3> QED
      BY <2>1, <3>1 DEF WorkerType, Requests
  <2>3. <<c, 0>> \in Tracks
    BY <2>2, SpircAssumption DEF Tracks
  <2>4. first \in Seq(Tracks)
    BY <2>3
  <2>5. list' = first \o Resolved(c) /\ at' = 0
    BY <1>4 DEF Install
  <2> HIDE DEF c, first
  <2>6. list' \in Seq(Tracks)
    BY <2>2, <2>4, <2>5, ResolvedFacts
  <2>7. Lists'
    BY <2>5, <2>6 DEF Lists
  <2>8. Contexted(worker') /\ worker' \in [Workers -> WorkerType]
    BY <1>4, <2>1, ContextedThen DEF Install, Busy, c
  <2>9. /\ Flags' /\ starts' \in [1 .. MaxCommands -> Nat] /\ owed' \in Int
        /\ UNCHANGED <<generation, resolverGen, skipOf>> /\ Beside
    BY <1>0, <1>4 DEF Install, flags, ghosts, Flags
  <2> QED
    BY <2>7, <2>8, <2>9, BesideTyped
<1>5. CASE PlaceHint(w)
  <2> DEFINE spots == Placements(worker[w].ctx, worker[w].hint)
  <2>1. spots \subseteq 0 .. Len(list)
    BY <1>0, PlacementFacts
  <2>2. /\ list' = list
        /\ at' \in spots \/ (list # <<>> /\ at' = 1) \/ at' = at
    BY <1>5 DEF PlaceHint
  <2> HIDE DEF spots
  <2>3. Lists'
    <3>1. list # <<>> => 1 \in 0 .. Len(list)
      BY <1>0, EmptySeq DEF Lists
    <3> QED
      BY <1>0, <2>1, <2>2, <3>1 DEF Lists
  <2>4. starts' \in [1 .. MaxCommands -> Nat]
    BY <1>0, <1>5, StartFacts DEF PlaceHint
  <2>5. Contexted(worker') /\ worker' \in [Workers -> WorkerType]
    BY <1>5, ContextedThen DEF PlaceHint, Busy
  <2>6. Flags' /\ owed' \in Int /\ UNCHANGED <<generation, resolverGen, skipOf>> /\ Beside
    BY <1>0, <1>5 DEF PlaceHint, flags, ghosts, Flags
  <2> QED
    BY <2>3, <2>4, <2>5, <2>6, BesideTyped
<1>6. CASE Put(w)
  <2> DEFINE W == Tested(w)
  <2>1. Contexted(W) /\ W \in [Workers -> WorkerType]
    BY <1>0, TestedFacts DEF Contexted, Typed
  <2>2. MaybeAutoplay(W, at)
    BY <1>6 DEF Put, Tested
  <2> HIDE DEF W
  <2>3. /\ worker' \in [Workers -> WorkerType] /\ autoplay' \in BOOLEAN
        /\ \/ worker' = W
           \/ \E v \in Workers : /\ Continues(v)
                                 /\ \A u \in Workers : u # v => worker'[u] = W[u]
    BY <1>0, <2>1, <2>2, AutoplayFacts
  <2>4. Contexted(worker')
    BY <2>1, <2>3 DEF Contexted, Continues
  <2>5. /\ Lists' /\ Flags' /\ starts' \in [1 .. MaxCommands -> Nat] /\ owed' \in Int
        /\ UNCHANGED <<generation, resolverGen, skipOf>> /\ Beside
    BY <1>0, <1>6, <2>3 DEF Put, place, ghosts, Lists, Flags
  <2> QED
    BY <2>3, <2>4, <2>5, BesideTyped
<1>7. CASE Test(w)
  <2>1. Contexted(worker') /\ worker' \in [Workers -> WorkerType]
    BY <1>7, ContextedThen DEF Test, Busy
  <2> QED
    BY <1>1, <1>7, <2>1 DEF Test
<1>8. CASE Lower(w)
  <2>1. Contexted(worker') /\ worker' \in [Workers -> WorkerType]
    BY <1>8, ContextedThen DEF Lower, Busy
  <2>2. /\ Lists' /\ Flags' /\ starts' \in [1 .. MaxCommands -> Nat] /\ owed' \in Int
        /\ UNCHANGED <<generation, resolverGen, skipOf>> /\ Beside
    BY <1>0, <1>8 DEF Lower, place, ghosts, Lists, Flags
  <2> QED
    BY <2>1, <2>2, BesideTyped
<1>9. CASE Drain(w)
  <2>1. Contexted(worker') /\ worker' \in [Workers -> WorkerType]
    BY <1>9, ContextedGone DEF Drain
  <2>2. /\ list' = list
        /\ at' \in 1 .. Len(list) \/ at' = at
    BY <1>9 DEF Drain
  <2>3. Lists'
    BY <1>0, <2>2 DEF Lists
  <2>4. owed' = 0 \/ owed' = owed - 1
    BY <1>9 DEF Drain
  <2>5. owed' \in Int
    BY <1>0, <2>4
  <2>6. /\ Flags' /\ starts' \in [1 .. MaxCommands -> Nat]
        /\ UNCHANGED <<generation, resolverGen, skipOf>> /\ Beside
    BY <1>0, <1>9 DEF Drain, Flags
  <2> QED
    BY <2>1, <2>3, <2>5, <2>6, BesideTyped
<1>10. CASE GiveUp(w)
  <2>1. Contexted(worker') /\ worker' \in [Workers -> WorkerType]
    BY <1>10, ContextedThen, ContextedGone DEF GiveUp, Busy
  <2> QED
    BY <1>1, <1>10, <2>1 DEF GiveUp
<1>11. CASE LowerOnly(w)
  <2>1. Contexted(worker') /\ worker' \in [Workers -> WorkerType]
    BY <1>11, ContextedGone DEF LowerOnly
  <2>2. /\ Lists' /\ Flags' /\ starts' \in [1 .. MaxCommands -> Nat] /\ owed' \in Int
        /\ UNCHANGED <<generation, resolverGen, skipOf>> /\ Beside
    BY <1>0, <1>11 DEF LowerOnly, place, ghosts, Lists, Flags
  <2> QED
    BY <2>1, <2>2, BesideTyped
<1>12. CASE FetchMore(w)
  <2>1. worker[w].ctx # None
    BY <1>12 DEF FetchMore, Now, Typed
  <2>2. Contexted(worker') /\ worker' \in [Workers -> WorkerType]
    BY <1>12, <2>1, ContextedThen DEF FetchMore, Busy
  <2> QED
    BY <1>1, <1>12, <2>2 DEF FetchMore
<1>13. CASE Join(w)
  <2>1. worker[w].ctx # None
    BY <1>13 DEF Join, Now, Typed
  <2>2. Contexted(worker') /\ worker' \in [Workers -> WorkerType]
    BY <1>13, <2>1, ContextedThen DEF Join, Busy
  <2> QED
    BY <1>1, <1>13, <2>2 DEF Join
<1>14. CASE AppendMore(w)
  <2> DEFINE more == <<worker[w].ctx, Size + 1>>
  <2>1. worker[w].ctx # None
    BY <1>14 DEF AppendMore, Now, Typed
  <2>2. more \in Tracks
    <3>1. worker[w] \in WorkerType
      BY <1>0 DEF TypeOK, WorkerType
    <3>2. worker[w].ctx \in Contexts
      BY <2>1, <3>1 DEF WorkerType, Requests
    <3> QED
      BY <3>2, SpircAssumption DEF Tracks
  <2>3. (list' = list \/ list' = Append(list, more)) /\ at' = at
    BY <1>14 DEF AppendMore
  <2> HIDE DEF more
  <2>4. Lists'
    BY <1>0, <2>2, <2>3 DEF Lists
  <2>5. Contexted(worker') /\ worker' \in [Workers -> WorkerType]
    BY <1>14, ContextedThen DEF AppendMore, Busy
  <2>6. /\ Flags' /\ starts' \in [1 .. MaxCommands -> Nat] /\ owed' \in Int
        /\ UNCHANGED <<generation, resolverGen, skipOf>> /\ Beside
    BY <1>0, <1>14 DEF AppendMore, flags, ghosts, Flags
  <2> QED
    BY <2>4, <2>5, <2>6, BesideTyped
<1>15. CASE Done(w)
  <2>1. Contexted(worker') /\ worker' \in [Workers -> WorkerType]
    BY <1>15, ContextedGone DEF Done
  <2>2. /\ Lists' /\ Flags' /\ starts' \in [1 .. MaxCommands -> Nat] /\ owed' \in Int
        /\ UNCHANGED <<generation, resolverGen, skipOf>> /\ Beside
    BY <1>0, <1>15 DEF Done, place, ghosts, Lists, Flags
  <2> QED
    BY <2>1, <2>2, BesideTyped
<1> QED
  BY <1>2, <1>3, <1>4, <1>5, <1>6, <1>7, <1>8, <1>9, <1>10, <1>11, <1>12, <1>13, <1>14,
     <1>15 DEF WorkerStep

\* A new list is empty or the old one.
LEMMA SetContextTyped ==
  ASSUME Lists, UNCHANGED place \/ (list' = <<>> /\ at' = 0)
  PROVE  Lists'
<1>1. CASE UNCHANGED place
  BY <1>1 DEF Lists, place
<1>2. CASE list' = <<>> /\ at' = 0
  <2>1. <<>> \in Seq(Tracks) /\ Len(<<>>) = 0
    BY EmptySeq
  <2> QED
    BY <1>2, <2>1 DEF Lists
<1> QED
  BY <1>1, <1>2

\* What the reader serves is of its type.
LEMMA ReaderEntries ==
  ASSUME TypeOK, NEW label \in {"idle", "kick", "raise", "publish", "start",
                                "lookNext", "lookPrev", "storeNext", "storePrev"},
         NEW h \in HintType, NEW k \in 0 .. MaxCommands, NEW c \in Contexts \cup {None},
         NEW g \in Nat
  PROVE  /\ Idle \in ReaderType
         /\ [reader EXCEPT !.at = label] \in ReaderType
         /\ [reader EXCEPT !.at = label, !.ctx = c] \in ReaderType
         /\ [reader EXCEPT !.at = label, !.gen = g] \in ReaderType
         /\ [Idle EXCEPT !.at = label, !.cmd = k] \in ReaderType
         /\ [Idle EXCEPT !.at = label, !.hint = h, !.cmd = k] \in ReaderType
         /\ [Idle EXCEPT !.at = label, !.hint = h, !.cmd = k, !.late = TRUE] \in ReaderType
<1>1. Requests({label}) \subseteq ReaderType
  BY DEF Requests, ReaderType
<1>2. reader \in ReaderType
  BY DEF TypeOK, ReaderType
<1>3. /\ [reader EXCEPT !.at = label] \in Requests({label})
      /\ [reader EXCEPT !.at = label, !.ctx = c] \in Requests({label})
      /\ [reader EXCEPT !.at = label, !.gen = g] \in Requests({label})
  BY <1>2, Altered DEF ReaderType
<1>4. /\ Serving(label, NoHint, k, FALSE) \subseteq Requests({label})
      /\ Serving(label, h, k, FALSE) \subseteq Requests({label})
      /\ Serving(label, h, k, TRUE) \subseteq Requests({label})
  <2>1. /\ NoHint \in HintType /\ 0 \in Nat /\ None \in Contexts \cup {None}
        /\ TRUE \in BOOLEAN /\ FALSE \in BOOLEAN
    BY Entries
  <2>2. ASSUME NEW b \in BOOLEAN, NEW hint \in HintType
        PROVE  Serving(label, hint, k, b) \subseteq Requests({label})
    BY <2>1, <2>2 DEF Serving, Requests
  <2> QED
    BY <2>1, <2>2
<1> QED
  BY <1>1, <1>3, <1>4, Entries, Served

LEMMA KickedTyped ==
  ASSUME TypeOK, Kicked
  PROVE  reader' \in ReaderType
<1>1. [reader EXCEPT !.at = "start"] \in ReaderType /\ Idle \in ReaderType
  <2>1. /\ NoHint \in HintType /\ 0 \in 0 .. MaxCommands /\ 0 \in Nat
        /\ None \in Contexts \cup {None}
    BY Entries, SpircAssumption
  <2> QED
    BY <2>1, ReaderEntries
<1> QED
  BY <1>1 DEF Kicked

\* The reader's step types what it writes.
LEMMA ReaderTyped ==
  ASSUME Typed, UNCHANGED clearing, ctxUri' \in Contexts \cup {None},
         resolved' \in Contexts \cup {None}, Lists', Flags',
         generation' \in Nat, resolverGen' \in Nat, reader' \in ReaderType,
         worker' \in [Workers -> WorkerType], Contexted(worker'),
         starts' \in [1 .. MaxCommands -> Nat], owed' \in Int,
         skipOf' \in Contexts \cup {None}, commands' \in 0 .. MaxCommands
  PROVE  Typed'
<1>1. TypeOK'
  BY DEF Typed, TypeOK, WorkerType, ReaderType, Lists, Flags
<1> QED
  BY <1>1 DEF Typed, Contexted

\* What the step leaves alone.
LEMMA TypedParts ==
  ASSUME Typed
  PROVE  /\ TypeOK /\ Lists /\ Flags
         /\ ctxUri \in Contexts \cup {None} /\ resolved \in Contexts \cup {None}
         /\ generation \in Nat /\ resolverGen \in Nat
         /\ reader \in ReaderType /\ reader.hint \in HintType
         /\ reader.ctx \in Contexts \cup {None} /\ reader.cmd \in 0 .. MaxCommands
         /\ reader.gen \in Nat
         /\ worker \in [Workers -> WorkerType] /\ Contexted(worker)
         /\ starts \in [1 .. MaxCommands -> Nat] /\ owed \in Int
         /\ skipOf \in Contexts \cup {None} /\ commands \in 0 .. MaxCommands
<1>1. TypeOK /\ reader \in ReaderType /\ worker \in [Workers -> WorkerType]
  BY DEF Typed, TypeOK, ReaderType, WorkerType
<1>2. /\ reader.hint \in HintType /\ reader.ctx \in Contexts \cup {None}
      /\ reader.cmd \in 0 .. MaxCommands /\ reader.gen \in Nat
  BY <1>1 DEF ReaderType, Requests
<1> QED
  BY <1>1, <1>2 DEF Typed, TypeOK, Contexted, Lists, Flags

LEMMA CommandFacts ==
  ASSUME TypeOK, Command
  PROVE  /\ commands' = commands + 1 /\ commands' \in 1 .. MaxCommands
         /\ commands' \in 0 .. MaxCommands
BY SpircAssumption DEF TypeOK, Command

\* What Publish hands to the worker.
LEMMA Published ==
  ASSUME NEW r \in ReaderType, NEW c \in Contexts \cup {None}
  PROVE  LET x == [r EXCEPT !.at = "fetch", !.ctx = c]
         IN  /\ x \in WorkerType
             /\ x.at = "fetch" /\ x.ctx = c /\ x.hint = r.hint
             /\ x.cmd = r.cmd /\ x.gen = r.gen
<1> DEFINE q == [r EXCEPT !.at = "fetch"]
           x == [q EXCEPT !.ctx = c]
<1>1. [r EXCEPT !.at = "fetch", !.ctx = c] = x
  BY Zenon
<1>2. /\ q \in WorkerType /\ q.at = "fetch" /\ q.hint = r.hint
      /\ q.cmd = r.cmd /\ q.gen = r.gen
  BY DEF ReaderType, WorkerType, Requests, Busy
<1> HIDE DEF q
<1>3. /\ x \in WorkerType /\ x.at = "fetch" /\ x.ctx = c /\ x.hint = r.hint
      /\ x.cmd = r.cmd /\ x.gen = r.gen
  BY <1>2 DEF WorkerType, Requests
<1> HIDE DEF x
<1> QED
  BY <1>1, <1>3

\* The reader moves to another label.
LEMMA ReaderAt ==
  ASSUME TypeOK, NEW label, reader' = [reader EXCEPT !.at = label]
  PROVE  /\ reader'.at = label /\ reader'.ctx = reader.ctx /\ reader'.hint = reader.hint
         /\ reader'.cmd = reader.cmd /\ reader'.late = reader.late
<1>1. reader \in ReaderType
  BY DEF TypeOK, ReaderType
<1> QED
  BY <1>1 DEF ReaderType, Requests

LEMMA ReaderAtCtx ==
  ASSUME TypeOK, NEW label, NEW c, reader' = [reader EXCEPT !.at = label, !.ctx = c]
  PROVE  /\ reader'.at = label /\ reader'.ctx = c /\ reader'.hint = reader.hint
         /\ reader'.cmd = reader.cmd /\ reader'.late = reader.late
<1> DEFINE q == [reader EXCEPT !.at = label]
<1>1. reader \in ReaderType
  BY DEF TypeOK, ReaderType
<1>2. reader' = [q EXCEPT !.ctx = c]
  BY Zenon
<1>3. /\ q \in Requests({label}) /\ q.at = label /\ q.hint = reader.hint
      /\ q.cmd = reader.cmd /\ q.late = reader.late
  BY <1>1 DEF ReaderType, Requests
<1> HIDE DEF q
<1> QED
  BY <1>2, <1>3 DEF Requests

LEMMA ReaderAtGen ==
  ASSUME TypeOK, NEW label, NEW g, reader' = [reader EXCEPT !.at = label, !.gen = g]
  PROVE  /\ reader'.at = label /\ reader'.ctx = reader.ctx /\ reader'.hint = reader.hint
         /\ reader'.cmd = reader.cmd /\ reader'.late = reader.late
<1> DEFINE q == [reader EXCEPT !.at = label]
<1>1. reader \in ReaderType
  BY DEF TypeOK, ReaderType
<1>2. reader' = [q EXCEPT !.gen = g]
  BY Zenon
<1>3. /\ q \in Requests({label}) /\ q.at = label /\ q.ctx = reader.ctx
      /\ q.hint = reader.hint /\ q.cmd = reader.cmd /\ q.late = reader.late
  BY <1>1 DEF ReaderType, Requests
<1> HIDE DEF q
<1> QED
  BY <1>2, <1>3 DEF Requests

\* The reader takes up a command.
LEMMA ReaderPlays ==
  ASSUME TypeOK, NEW c, NEW h \in Hints, Play(c, h)
  PROVE  reader' \in Serving("kick", h, commands', FALSE)
<1> DEFINE k == commands'
<1>1. k \in 0 .. MaxCommands /\ h \in HintType
  BY CommandFacts, SpircAssumption DEF Play
<1>2. reader' = [Idle EXCEPT !.at = "kick", !.hint = h, !.cmd = k]
  BY DEF Play
<1> HIDE DEF k
<1>3. reader' \in Serving("kick", h, k, FALSE)
  BY <1>1, <1>2, Served
<1> QED
  BY <1>3 DEF k

LEMMA ReaderTransfers ==
  ASSUME TypeOK, NEW c, NEW h \in Hints, Transfer(c, h)
  PROVE  reader' \in Serving("kick", h, commands', TRUE)
<1> DEFINE k == commands'
<1>1. k \in 0 .. MaxCommands /\ h \in HintType
  BY CommandFacts, SpircAssumption DEF Transfer
<1>2. reader' = [Idle EXCEPT !.at = "kick", !.hint = h, !.cmd = k, !.late = TRUE]
  BY DEF Transfer
<1> HIDE DEF k
<1>3. reader' \in Serving("kick", h, k, TRUE)
  BY <1>1, <1>2, Served
<1> QED
  BY <1>3 DEF k

LEMMA ReaderSkips ==
  ASSUME TypeOK, NEW label, Command, reader' = [Idle EXCEPT !.at = label, !.cmd = commands']
  PROVE  reader' \in Serving(label, NoHint, commands', FALSE)
<1> DEFINE k == commands'
<1>1. k \in 0 .. MaxCommands /\ NoHint \in HintType
  BY CommandFacts, Entries
<1>2. reader' = [Idle EXCEPT !.at = label, !.cmd = k]
  OBVIOUS
<1> HIDE DEF k
<1>3. reader' \in Serving(label, NoHint, k, FALSE)
  BY <1>1, <1>2, Served
<1> QED
  BY <1>3 DEF k

\* kick_context_resolver is through.
LEMMA ReaderKicked ==
  ASSUME TypeOK, Kicked
  PROVE  IF reader.late
           THEN /\ reader'.at = "start" /\ reader'.hint = reader.hint
                /\ reader'.cmd = reader.cmd /\ reader'.late
           ELSE reader' = Idle
<1>1. CASE reader.late
  <2>1. reader' = [reader EXCEPT !.at = "start"]
    BY <1>1 DEF Kicked
  <2> QED
    BY <1>1, <2>1, ReaderAt
<1>2. CASE ~reader.late
  BY <1>2 DEF Kicked
<1> QED
  BY <1>1, <1>2

\* A free worker is detached with entry x.
LEMMA Detached ==
  ASSUME Typed, NEW w \in Spare, NEW x \in WorkerType, worker' = [worker EXCEPT ![w] = x],
         x.at = "fetch" \/ x.ctx # None
  PROVE  /\ worker' \in [Workers -> WorkerType] /\ Contexted(worker')
         /\ w \in Workers /\ worker[w].at = "idle" /\ worker'[w] = x
         /\ \A v \in Workers : v # w => worker'[v] = worker[v]
<1>1. TypeOK /\ w \in Workers /\ worker[w].at = "idle"
  BY DEF Typed, Spare
<1>2. /\ worker' \in [Workers -> WorkerType] /\ worker'[w] = x
      /\ \A v \in Workers : v # w => worker'[v] = worker[v]
  BY <1>1, BecomesFacts
<1> QED
  BY <1>1, <1>2 DEF Typed, Contexted

LEMMA TypedReader ==
  ASSUME Typed, ReaderStep
  PROVE  Typed'
<1>0. /\ TypeOK /\ Lists /\ Flags
      /\ ctxUri \in Contexts \cup {None} /\ resolved \in Contexts \cup {None}
      /\ generation \in Nat /\ resolverGen \in Nat
      /\ reader \in ReaderType /\ reader.hint \in HintType
      /\ reader.ctx \in Contexts \cup {None} /\ reader.cmd \in 0 .. MaxCommands
      /\ reader.gen \in Nat
      /\ worker \in [Workers -> WorkerType] /\ Contexted(worker)
      /\ starts \in [1 .. MaxCommands -> Nat] /\ owed \in Int
      /\ skipOf \in Contexts \cup {None} /\ commands \in 0 .. MaxCommands
  BY TypedParts
<1>a. /\ Hints \subseteq HintType /\ NoHint \in HintType /\ 0 \in 0 .. MaxCommands
      /\ None \in Contexts \cup {None} /\ 0 \in Nat
  BY SpircAssumption, Entries
<1>b. ASSUME NEW label \in {"idle", "kick", "raise", "publish", "start",
                            "lookNext", "lookPrev", "storeNext", "storePrev"}
      PROVE  [reader EXCEPT !.at = label] \in ReaderType
  BY <1>0 DEF ReaderType, Requests
<1>1. ASSUME NEW c \in Contexts, NEW h \in Hints, Play(c, h)
      PROVE  Typed'
  <2>1. h \in HintType /\ commands' \in 0 .. MaxCommands
    BY <1>0, <1>1, <1>a, CommandFacts DEF Play
  <2>2. reader' \in ReaderType
    <3>1. reader' = [Idle EXCEPT !.at = "kick", !.hint = h, !.cmd = commands']
      BY <1>1 DEF Play
    <3> DEFINE k == commands'
    <3>2. k \in 0 .. MaxCommands
      BY <2>1
    <3> HIDE DEF k
    <3>3. [Idle EXCEPT !.at = "kick", !.hint = h, !.cmd = k] \in ReaderType
      BY <1>0, <1>a, <2>1, <3>2, ReaderEntries
    <3> QED
      BY <3>1, <3>3 DEF k
  <2>3. Lists' /\ ctxUri' = c
    BY <1>0, <1>1, SetContextTyped DEF Play, SetContext
  <2>4. starts' \in [1 .. MaxCommands -> Nat]
    BY <1>0, <1>1, StartFacts DEF Play
  <2>5. /\ Flags' /\ UNCHANGED <<clearing, resolved, generation, resolverGen, owed, skipOf>>
        /\ worker' = worker
    BY <1>0, <1>1 DEF Play, flags, ghosts, Flags
  <2> QED
    BY <1>0, <2>1, <2>2, <2>3, <2>4, <2>5, ReaderTyped
<1>2. ASSUME NEW c \in Contexts, NEW h \in Hints, Transfer(c, h)
      PROVE  Typed'
  <2>1. h \in HintType /\ commands' \in 0 .. MaxCommands
    BY <1>0, <1>2, <1>a, CommandFacts DEF Transfer
  <2>2. reader' \in ReaderType
    <3>1. reader' = [Idle EXCEPT !.at = "kick", !.hint = h, !.cmd = commands', !.late = TRUE]
      BY <1>2 DEF Transfer
    <3> DEFINE k == commands'
    <3>2. k \in 0 .. MaxCommands
      BY <2>1
    <3> HIDE DEF k
    <3>3. [Idle EXCEPT !.at = "kick", !.hint = h, !.cmd = k, !.late = TRUE] \in ReaderType
      BY <1>0, <1>a, <2>1, <3>2, ReaderEntries
    <3> QED
      BY <3>1, <3>3 DEF k
  <2>3. Lists' /\ ctxUri' = c
    BY <1>0, <1>2, SetContextTyped DEF Transfer, SetContext
  <2>4. starts' \in [1 .. MaxCommands -> Nat]
    BY <1>0, <1>2 DEF Transfer
  <2>5. /\ Flags' /\ UNCHANGED <<clearing, resolved, generation, resolverGen, owed, skipOf>>
        /\ worker' = worker
    BY <1>0, <1>2 DEF Transfer, flags, ghosts, Flags
  <2> QED
    BY <1>0, <2>1, <2>2, <2>3, <2>4, <2>5, ReaderTyped
<1>3. CASE StartLate
  <2>1. reader' \in ReaderType
    BY <1>3, Entries DEF StartLate
  <2>2. starts' \in [1 .. MaxCommands -> Nat]
    BY <1>0, <1>3, StartFacts DEF StartLate
  <2>3. /\ Lists' /\ Flags' /\ worker' = worker
        /\ UNCHANGED <<ctxUri, clearing, resolved, generation, resolverGen, owed, skipOf,
                       commands>>
    BY <1>0, <1>3 DEF StartLate, place, flags, ghosts, Lists, Flags
  <2> QED
    BY <1>0, <2>1, <2>2, <2>3, ReaderTyped
<1>4. CASE KickNothing
  <2>1. reader' \in ReaderType
    BY <1>0, <1>4, KickedTyped DEF KickNothing
  <2>2. /\ Lists' /\ Flags' /\ worker' = worker
        /\ UNCHANGED <<ctxUri, clearing, resolved, generation, resolverGen, owed, skipOf,
                       commands, starts>>
    BY <1>0, <1>4 DEF KickNothing, place, flags, ghosts, Lists, Flags
  <2> QED
    BY <1>0, <2>1, <2>2, ReaderTyped
<1>5. CASE KickSingle
  <2>1. /\ ctxUri \in Contexts /\ ctxUri # None
        /\ UNCHANGED <<ctxUri, clearing, skipOf, commands>>
    BY <1>0, <1>5 DEF KickSingle, Kicking
  <2>2. /\ generation' = generation + 1 /\ pending' = 0 /\ owed' = 0 /\ resolved' = ctxUri
    BY <1>5 DEF KickSingle, Supersede
  <2>3. generation' \in Nat
    BY <1>0, <2>2
  <2>4. list' = << <<ctxUri, 1>> >> /\ at' = 1
    BY <1>5 DEF KickSingle
  <2>5. Lists'
    <3>1. <<ctxUri, 1>> \in Tracks
      BY <2>1, SpircAssumption DEF Tracks
    <3>2. << <<ctxUri, 1>> >> \in Seq(Tracks) /\ Len(<< <<ctxUri, 1>> >>) = 1
      BY <3>1
    <3> QED
      BY <2>4, <3>2 DEF Lists
  <2>6. Flags'
    BY <1>0, <1>5, <2>2 DEF KickSingle, Flags
  <2>7. PICK w \in Spare : worker' = [worker EXCEPT ![w] = Continuing(ctxUri, generation')]
    BY <1>5 DEF KickSingle
  <2>8. worker' \in [Workers -> WorkerType] /\ Contexted(worker')
    <3> DEFINE x == Continuing(ctxUri, generation')
    <3>1. x \in WorkerType /\ x.ctx # None
      BY <2>1, <2>3, Entries
    <3> HIDE DEF x
    <3>2. worker' = [worker EXCEPT ![w] = x]
      BY <2>7 DEF x
    <3> QED
      BY <3>1, <3>2, Detached
  <2>9. reader' \in ReaderType
    BY <1>0, <1>5, KickedTyped DEF KickSingle
  <2>10. UNCHANGED <<resolverGen, starts>> /\ owed' \in Int
    BY <1>5, <2>2 DEF KickSingle
  <2> QED
    BY <1>0, <2>1, <2>2, <2>3, <2>5, <2>6, <2>8, <2>9, <2>10, ReaderTyped
<1>6. CASE KickKnown
  <2>1. /\ list' = list
        /\ at' = at \/ at' \in Placements(ctxUri, reader.hint)
    BY <1>6 DEF KickKnown
  <2>2. Lists'
    BY <1>0, <2>1, PlacementFacts DEF Lists
  <2>3. starts' \in [1 .. MaxCommands -> Nat]
    BY <1>0, <1>6, StartFacts DEF KickKnown
  <2>4. reader' \in ReaderType
    BY <1>0, <1>6, KickedTyped DEF KickKnown
  <2>5. /\ Flags' /\ worker' = worker
        /\ UNCHANGED <<ctxUri, clearing, resolved, generation, resolverGen, owed, skipOf,
                       commands>>
    BY <1>0, <1>6 DEF KickKnown, Kicking, flags, Flags
  <2> QED
    BY <1>0, <2>2, <2>3, <2>4, <2>5, ReaderTyped
<1>7. CASE KickResolver
  <2>1. UNCHANGED <<ctxUri, clearing, skipOf, commands>>
    BY <1>7 DEF KickResolver, Kicking
  <2>2. /\ generation' = generation + 1 /\ pending' = 0 /\ owed' = 0 /\ resolved' = ctxUri
    BY <1>7 DEF KickResolver, Supersede
  <2>3. generation' \in Nat
    BY <1>0, <2>2
  <2>4. reader' \in ReaderType
    <3> DEFINE g == generation'
    <3>1. g \in Nat
      BY <2>3
    <3> HIDE DEF g
    <3>2. [reader EXCEPT !.at = "raise", !.gen = g] \in ReaderType
      BY <1>0, <1>a, <3>1, ReaderEntries
    <3> QED
      BY <1>7, <3>2 DEF KickResolver, g
  <2>5. Lists' /\ worker' = worker /\ UNCHANGED <<resolverGen, starts>> /\ owed' \in Int
    BY <1>0, <1>7, <2>2 DEF KickResolver, place, Lists
  <2>6. pending' \in {-1, 0, 1} /\ inFlight' = inFlight /\ autoplay' = FALSE
    BY <1>7, <2>2 DEF KickResolver
  <2>7. Flags'
    BY <1>0, <2>6 DEF Flags
  <2> QED
    BY <1>0, <2>1, <2>2, <2>3, <2>4, <2>5, <2>7, ReaderTyped
<1>8. CASE Raise
  <2>1. reader' \in ReaderType
    BY <1>8, <1>b DEF Raise
  <2>2. /\ Lists' /\ Flags' /\ worker' = worker
        /\ UNCHANGED <<ctxUri, clearing, resolved, generation, resolverGen, owed, skipOf,
                       commands, starts>>
    BY <1>0, <1>8 DEF Raise, place, ghosts, Lists, Flags
  <2> QED
    BY <1>0, <2>1, <2>2, ReaderTyped
<1>9. CASE Publish
  <2>1. PICK w \in Spare :
          worker' = [worker EXCEPT ![w] = [reader EXCEPT !.at = "fetch", !.ctx = ctxUri]]
    BY <1>9 DEF Publish
  <2>2. worker' \in [Workers -> WorkerType] /\ Contexted(worker')
    <3> DEFINE x == [reader EXCEPT !.at = "fetch", !.ctx = ctxUri]
    <3>1. x \in WorkerType /\ x.at = "fetch"
      BY <1>0, Published
    <3> HIDE DEF x
    <3>2. worker' = [worker EXCEPT ![w] = x]
      BY <2>1 DEF x
    <3> QED
      BY <3>1, <3>2, Detached
  <2>3. reader' \in ReaderType
    BY <1>0, <1>9, KickedTyped DEF Publish
  <2>4. /\ Lists' /\ Flags' /\ resolverGen' \in Nat
        /\ UNCHANGED <<ctxUri, clearing, resolved, generation, owed, skipOf, commands, starts>>
    BY <1>0, <1>9 DEF Publish, place, ghosts, Lists, Flags
  <2> QED
    BY <1>0, <2>2, <2>3, <2>4, ReaderTyped
<1>10. ASSUME NEW step, NEW target, NEW label \in {"lookNext", "lookPrev"},
              Skip(step, target, label)
       PROVE  Typed'
  <2>1. commands' \in 0 .. MaxCommands
    BY <1>0, <1>10, CommandFacts DEF Skip
  <2>2. Lists'
    BY <1>0, <1>10 DEF Skip, Lists
  <2>3. starts' \in [1 .. MaxCommands -> Nat]
    BY <1>0, <1>10, StartFacts DEF Skip
  <2>4. reader' \in ReaderType
    <3> DEFINE k == commands'
    <3>1. k \in 0 .. MaxCommands
      BY <2>1
    <3> HIDE DEF k
    <3>2. [Idle EXCEPT !.at = label, !.cmd = k] \in ReaderType
      BY <1>0, <1>a, <3>1, ReaderEntries
    <3>3. reader' = reader \/ reader' = [Idle EXCEPT !.at = label, !.cmd = k]
      BY <1>10 DEF Skip, k
    <3> QED
      BY <1>0, <3>2, <3>3
  <2>5. worker' \in [Workers -> WorkerType] /\ Contexted(worker') /\ autoplay' \in BOOLEAN
    <3>1. CASE MaybeAutoplay(worker, target)
      <4>1. /\ worker' \in [Workers -> WorkerType] /\ autoplay' \in BOOLEAN
            /\ \/ worker' = worker
               \/ \E v \in Workers : /\ Continues(v)
                                     /\ \A u \in Workers : u # v => worker'[u] = worker[u]
        BY <1>0, <3>1, AutoplayFacts
      <4> QED
        BY <1>0, <4>1 DEF Contexted, Continues
    <3>2. CASE UNCHANGED <<autoplay, worker>>
      BY <1>0, <3>2 DEF Flags
    <3> QED
      BY <1>10, <3>1, <3>2 DEF Skip
  <2>6. Flags' /\ UNCHANGED <<ctxUri, clearing, resolved, generation, resolverGen, owed, skipOf>>
    BY <1>0, <1>10, <2>5 DEF Skip, ghosts, Flags
  <2> QED
    BY <1>0, <2>1, <2>2, <2>3, <2>4, <2>5, <2>6, ReaderTyped
<1>11. CASE SkipNext
  BY <1>10, <1>11 DEF SkipNext
<1>12. CASE SkipPrev
  BY <1>10, <1>12 DEF SkipPrev
<1>13. CASE LookNext
  <2>1. ctxUri' \in Contexts \cup {None}
    BY <1>0, <1>13, SpircAssumption DEF LookNext
  <2>2. reader' \in ReaderType
    <3>1. [reader EXCEPT !.at = "storeNext", !.ctx = resolved] \in ReaderType
      BY <1>0, <1>a, ReaderEntries
    <3>2. [reader EXCEPT !.at = "kick"] \in ReaderType /\ Idle \in ReaderType
      BY <1>b, Entries
    <3>3. \/ reader' = [reader EXCEPT !.at = "storeNext", !.ctx = resolved]
          \/ reader' = [reader EXCEPT !.at = "kick"] \/ reader' = Idle
      BY <1>13 DEF LookNext
    <3> QED
      BY <3>1, <3>2, <3>3
  <2>3. Lists'
    BY <1>0, <1>13, SetContextTyped DEF LookNext
  <2>4. /\ Flags' /\ worker' = worker
        /\ UNCHANGED <<clearing, resolved, generation, resolverGen, owed, skipOf, commands,
                       starts>>
    BY <1>0, <1>13 DEF LookNext, flags, ghosts, Flags
  <2> QED
    BY <1>0, <2>1, <2>2, <2>3, <2>4, ReaderTyped
<1>14. CASE LookPrev
  <2>1. reader' \in ReaderType
    <3>1. [reader EXCEPT !.at = "storePrev", !.ctx = resolved] \in ReaderType
      BY <1>0, <1>a, ReaderEntries
    <3> QED
      BY <1>14, <3>1, Entries DEF LookPrev
  <2>2. /\ Lists' /\ Flags' /\ worker' = worker
        /\ UNCHANGED <<ctxUri, clearing, resolved, generation, resolverGen, owed, skipOf,
                       commands, starts>>
    BY <1>0, <1>14 DEF LookPrev, place, flags, ghosts, Lists, Flags
  <2> QED
    BY <1>0, <2>1, <2>2, ReaderTyped
<1>15. CASE Defer
  <2>1. reader' \in ReaderType
    BY <1>15, Entries DEF Defer
  <2>2. owed' \in Int /\ skipOf' \in Contexts \cup {None}
    BY <1>0, <1>15 DEF Defer
  <2>3. /\ Lists' /\ Flags' /\ worker' = worker
        /\ UNCHANGED <<ctxUri, clearing, resolved, generation, resolverGen, commands, starts>>
    BY <1>0, <1>15 DEF Defer, place, Lists, Flags
  <2> QED
    BY <1>0, <2>1, <2>2, <2>3, ReaderTyped
<1> QED
  BY <1>1, <1>2, <1>3, <1>4, <1>5, <1>6, <1>7, <1>8, <1>9, <1>11, <1>12, <1>13, <1>14, <1>15
     DEF ReaderStep

\* Of the host and the player.
LEMMA TypedHost ==
  ASSUME Typed, ClearContext \/ ClearRest \/ AdvanceToNextTrack
  PROVE  Typed'
<1>0. /\ TypeOK /\ Lists /\ Flags
      /\ ctxUri \in Contexts \cup {None} /\ resolved \in Contexts \cup {None}
      /\ generation \in Nat /\ resolverGen \in Nat /\ reader \in ReaderType
      /\ worker \in [Workers -> WorkerType] /\ Contexted(worker)
      /\ starts \in [1 .. MaxCommands -> Nat] /\ owed \in Int
      /\ skipOf \in Contexts \cup {None} /\ commands \in 0 .. MaxCommands
      /\ clearing \in BOOLEAN
  BY TypedParts DEF TypeOK
<1>1. SUFFICES TypeOK' /\ worker' = worker
  BY <1>0, <1>1 DEF Typed, Contexted
<1>2. CASE ClearContext
  <2>1. /\ commands' \in 0 .. MaxCommands /\ generation' \in Nat /\ resolverGen' \in Nat
        /\ clearing' \in BOOLEAN
    BY <1>0, <1>2, CommandFacts DEF ClearContext
  <2>2. /\ Lists' /\ Flags'
        /\ UNCHANGED <<ctxUri, resolved, reader, worker, starts, owed, skipOf>>
    BY <1>0, <1>2 DEF ClearContext, place, ghosts, Lists, Flags
  <2> QED
    BY <1>0, <2>1, <2>2 DEF TypeOK, Lists, Flags, WorkerType, ReaderType
<1>3. CASE ClearRest
  <2>1. Lists'
    BY <1>0, <1>3, SetContextTyped DEF ClearRest
  <2>2. /\ inFlight' = FALSE /\ pending' = 0 /\ autoplay' = FALSE /\ clearing' = FALSE
        /\ owed' = 0 /\ ctxUri' = None /\ resolved' = None
        /\ UNCHANGED <<generation, resolverGen, reader, worker, starts, skipOf, commands>>
    BY <1>3 DEF ClearRest
  <2>3. inFlight' \in BOOLEAN /\ autoplay' \in BOOLEAN /\ clearing' \in BOOLEAN
    BY <2>2, Zenon
  <2>4. pending' \in {-1, 0, 1} /\ owed' \in Int
    BY <2>2
  <2> QED
    BY <1>0, <2>1, <2>2, <2>3, <2>4 DEF TypeOK, Lists, Flags, WorkerType, ReaderType
<1>4. CASE AdvanceToNextTrack
  <2>1. commands' \in 0 .. MaxCommands
    BY <1>0, <1>4, CommandFacts DEF AdvanceToNextTrack
  <2>2. Lists'
    BY <1>0, <1>4 DEF AdvanceToNextTrack, Lists
  <2>3. /\ Flags'
        /\ UNCHANGED <<ctxUri, resolved, generation, resolverGen, reader, clearing, worker,
                       starts, owed, skipOf>>
    BY <1>0, <1>4 DEF AdvanceToNextTrack, flags, ghosts, Flags
  <2> QED
    BY <1>0, <2>1, <2>2, <2>3 DEF TypeOK, Lists, Flags, WorkerType, ReaderType
<1> QED
  BY <1>2, <1>3, <1>4

-----------------------------------------------------------------------------
(* The flags.                                                              *)

Continuer(v) == worker[v].at \in {"more", "join", "append", "done"}

\* Nobody who would lower a flag leaves without doing so.
LEMMA FlagsKept ==
  ASSUME FlagsCovered, UNCHANGED <<resolverGen, clearing, reader>>,
         inFlight' = inFlight, autoplay' = autoplay,
         \A v \in Workers : Lowers(v, resolverGen) => Lowers(v, resolverGen)',
         \A v \in Workers : Continuer(v) => Continuer(v)'
  PROVE  FlagsCovered'
BY DEF FlagsCovered, Continuer

LEMMA FlagsWorker ==
  ASSUME Typed, FlagsCovered, NEW w \in Workers, WorkerStep(w)
  PROVE  FlagsCovered'
<1>0. TypeOK
  BY DEF Typed
<1>1. ASSUME NEW label \in Busy \cup {"idle"}, Then(w, label), worker[w].at # "idle",
             Beside, UNCHANGED <<place, flags, starts, ghosts>>,
             Lowers(w, resolverGen) =>
               label \in {"fetch", "check", "install", "place", "put", "test", "lower",
                          "giveUp", "lowerOnly"},
             Continuer(w) => label \in {"more", "join", "append", "done"}
      PROVE  FlagsCovered'
  <2>1. /\ worker'[w].at = label /\ worker'[w].gen = worker[w].gen
        /\ \A v \in Workers : v # w => worker'[v] = worker[v]
    BY <1>0, <1>1, ThenFacts
  <2>2. UNCHANGED <<resolverGen, clearing, reader>> /\ inFlight' = inFlight
        /\ autoplay' = autoplay
    BY <1>1 DEF Beside, flags
  <2>3. \A v \in Workers : Lowers(v, resolverGen) => Lowers(v, resolverGen)'
    BY <1>1, <2>1, <2>2 DEF Lowers
  <2>4. \A v \in Workers : Continuer(v) => Continuer(v)'
    BY <1>1, <2>1 DEF Continuer
  <2> QED
    BY <2>2, <2>3, <2>4, FlagsKept
<1>2. CASE Fetch(w)
  BY <1>1, <1>2 DEF Fetch, Now, Busy, Continuer
<1>3. CASE Check(w)
  BY <1>1, <1>3 DEF Check, Now, Busy, Continuer
<1>4. CASE Install(w)
  <2>1. Then(w, "place") /\ worker[w].at = "install"
    BY <1>4 DEF Install, Now
  <2>2. /\ worker'[w].at = "place" /\ worker'[w].gen = worker[w].gen
        /\ \A v \in Workers : v # w => worker'[v] = worker[v]
    BY <1>0, <2>1, ThenFacts DEF Busy
  <2>3. UNCHANGED <<resolverGen, clearing, reader>> /\ inFlight' = inFlight
        /\ autoplay' = autoplay
    BY <1>4 DEF Install, Beside, flags
  <2> QED
    BY <2>1, <2>2, <2>3, FlagsKept DEF Lowers, Continuer
<1>5. CASE PlaceHint(w)
  <2>1. Then(w, "put") /\ worker[w].at = "place"
    BY <1>5 DEF PlaceHint, Now
  <2>2. /\ worker'[w].at = "put" /\ worker'[w].gen = worker[w].gen
        /\ \A v \in Workers : v # w => worker'[v] = worker[v]
    BY <1>0, <2>1, ThenFacts DEF Busy
  <2>3. UNCHANGED <<resolverGen, clearing, reader>> /\ inFlight' = inFlight
        /\ autoplay' = autoplay
    BY <1>5 DEF PlaceHint, Beside, flags
  <2> QED
    BY <2>1, <2>2, <2>3, FlagsKept DEF Lowers, Continuer
<1>6. CASE Put(w)
  <2> DEFINE W == Tested(w)
  <2>1. worker[w].at = "put" /\ MaybeAutoplay(W, at)
    BY <1>6 DEF Put, Now, Tested
  <2>2. /\ W \in [Workers -> WorkerType] /\ W[w].at = "test" /\ W[w].gen = worker[w].gen
        /\ \A v \in Workers : v # w => W[v] = worker[v]
    BY <1>0, TestedFacts
  <2> HIDE DEF W
  <2>3. \/ autoplay' = autoplay /\ worker' = W
        \/ \E v \in Workers : /\ Continues(v)
                              /\ \A u \in Workers : u # v => worker'[u] = W[u]
    BY <1>0, <2>1, <2>2, AutoplayFacts
  <2>4. UNCHANGED <<resolverGen, clearing, reader, inFlight>>
    BY <1>6 DEF Put, Beside
  <2>5. CASE autoplay' = autoplay /\ worker' = W
    BY <2>1, <2>2, <2>4, <2>5, FlagsKept DEF Lowers, Continuer
  <2>6. ASSUME NEW v \in Workers, Continues(v),
               \A u \in Workers : u # v => worker'[u] = W[u]
        PROVE  FlagsCovered'
    <3>1. Continuer(v)'
      BY <2>6 DEF Continues, Continuer
    <3>2. v # w /\ worker[v].at = "idle" /\ worker'[w] = W[w]
      BY <2>1, <2>6 DEF Continues
    <3>3. \A u \in Workers : Lowers(u, resolverGen) => Lowers(u, resolverGen)'
      BY <2>1, <2>2, <2>4, <2>6, <3>2 DEF Lowers
    <3> QED
      BY <2>4, <3>1, <3>3 DEF FlagsCovered, Continuer
  <2> QED
    BY <2>3, <2>5, <2>6
<1>7. CASE Test(w)
  BY <1>1, <1>7 DEF Test, Now, Busy, Continuer, Lowers
<1>8. CASE Lower(w)
  <2>1. Then(w, "drain") /\ worker[w].at = "lower"
    BY <1>8 DEF Lower, Now
  <2>2. /\ worker'[w].at = "drain"
        /\ \A v \in Workers : v # w => worker'[v] = worker[v]
    BY <1>0, <2>1, ThenFacts DEF Busy
  <2>3. ~inFlight' /\ autoplay' = autoplay
    BY <1>8 DEF Lower
  <2> QED
    BY <2>1, <2>2, <2>3 DEF FlagsCovered
<1>9. CASE Drain(w)
  <2>1. worker[w].at = "drain" /\ \A v \in Workers : v # w => worker'[v] = worker[v]
    BY <1>9, ContextedGone DEF Drain, Now
  <2>2. UNCHANGED <<resolverGen, clearing, reader>> /\ inFlight' = inFlight
        /\ autoplay' = autoplay
    BY <1>9 DEF Drain, Beside
  <2> QED
    BY <2>1, <2>2, FlagsKept DEF Lowers, Continuer
<1>10. CASE GiveUp(w)
  <2>1. CASE resolverGen = worker[w].gen
    BY <1>1, <1>10, <2>1 DEF GiveUp, Now, Busy, Continuer
  <2>2. CASE resolverGen # worker[w].gen
    <3>1. /\ worker[w].at = "giveUp"
          /\ \A v \in Workers : v # w => worker'[v] = worker[v]
      BY <1>10, <2>2, ContextedGone DEF GiveUp, Now
    <3>2. UNCHANGED <<resolverGen, clearing, reader>> /\ inFlight' = inFlight
          /\ autoplay' = autoplay
      BY <1>10 DEF GiveUp, Beside, flags
    <3> QED
      BY <2>2, <3>1, <3>2, FlagsKept DEF Lowers, Continuer
  <2> QED
    BY <2>1, <2>2
<1>11. CASE LowerOnly(w)
  <2>1. worker[w].at = "lowerOnly" /\ \A v \in Workers : v # w => worker'[v] = worker[v]
    BY <1>11, ContextedGone DEF LowerOnly, Now
  <2>2. ~inFlight' /\ autoplay' = autoplay
    BY <1>11 DEF LowerOnly
  <2> QED
    BY <2>1, <2>2 DEF FlagsCovered
<1>12. CASE FetchMore(w)
  BY <1>1, <1>12 DEF FetchMore, Now, Busy, Lowers
<1>13. CASE Join(w)
  BY <1>1, <1>13 DEF Join, Now, Busy, Lowers
<1>14. CASE AppendMore(w)
  <2>1. Then(w, "done") /\ worker[w].at = "append"
    BY <1>14 DEF AppendMore, Now
  <2>2. /\ worker'[w].at = "done"
        /\ \A v \in Workers : v # w => worker'[v] = worker[v]
    BY <1>0, <2>1, ThenFacts DEF Busy
  <2>3. UNCHANGED <<resolverGen, clearing, reader>> /\ inFlight' = inFlight
        /\ autoplay' = autoplay
    BY <1>14 DEF AppendMore, Beside, flags
  <2> QED
    BY <2>1, <2>2, <2>3, FlagsKept DEF Lowers, Continuer
<1>15. CASE Done(w)
  <2>1. worker[w].at = "done" /\ \A v \in Workers : v # w => worker'[v] = worker[v]
    BY <1>15, ContextedGone DEF Done, Now
  <2>2. ~autoplay' /\ UNCHANGED <<resolverGen, clearing, reader, inFlight>>
    BY <1>15 DEF Done, Beside
  <2> QED
    BY <2>1, <2>2 DEF FlagsCovered, Lowers
<1> QED
  BY <1>2, <1>3, <1>4, <1>5, <1>6, <1>7, <1>8, <1>9, <1>10, <1>11, <1>12, <1>13, <1>14,
     <1>15 DEF WorkerStep

LEMMA FlagsReader ==
  ASSUME Typed, FlagsCovered, ReaderStep
  PROVE  FlagsCovered'
<1>0. TypeOK
  BY DEF Typed
<1>a. ASSUME reader.at # "publish", UNCHANGED <<resolverGen, clearing, inFlight, autoplay, worker>>
      PROVE  FlagsCovered'
  BY <1>a DEF FlagsCovered, Lowers
<1>1. ASSUME NEW c \in Contexts, NEW h \in Hints, Play(c, h)
      PROVE  FlagsCovered'
  BY <1>1, <1>a DEF Play, flags
<1>2. ASSUME NEW c \in Contexts, NEW h \in Hints, Transfer(c, h)
      PROVE  FlagsCovered'
  BY <1>2, <1>a DEF Transfer, flags
<1>3. CASE StartLate
  BY <1>3, <1>a DEF StartLate, flags
<1>4. CASE KickNothing
  BY <1>4, <1>a DEF KickNothing, flags
<1>5. CASE KickSingle
  <2>1. /\ reader.at = "kick" /\ ctxUri # None /\ clearing' = clearing
        /\ UNCHANGED <<resolverGen, inFlight>>
    BY <1>5 DEF KickSingle, Kicking
  <2>2. PICK w \in Spare : worker' = [worker EXCEPT ![w] = Continuing(ctxUri, generation')]
    BY <1>5 DEF KickSingle
  <2>3. /\ w \in Workers /\ worker[w].at = "idle" /\ worker'[w].at = "more"
        /\ \A v \in Workers : v # w => worker'[v] = worker[v]
    <3> DEFINE x == Continuing(ctxUri, generation')
    <3>1. ctxUri \in Contexts /\ generation' \in Nat
      BY <1>0, <1>5, <2>1 DEF KickSingle, Supersede, TypeOK
    <3>2. x \in WorkerType /\ x.ctx # None /\ x.at = "more"
      BY <2>1, <3>1, Entries
    <3> HIDE DEF x
    <3>3. worker' = [worker EXCEPT ![w] = x]
      BY <2>2 DEF x
    <3> QED
      BY <3>2, <3>3, Detached
  <2> QED
    BY <2>1, <2>3 DEF FlagsCovered, Lowers
<1>6. CASE KickKnown
  BY <1>6, <1>a DEF KickKnown, Kicking, flags
<1>7. CASE KickResolver
  <2>1. /\ reader.at = "kick" /\ clearing' = clearing /\ ~autoplay'
        /\ UNCHANGED <<resolverGen, inFlight, worker>>
    BY <1>7 DEF KickResolver, Kicking
  <2> QED
    BY <2>1 DEF FlagsCovered, Lowers
<1>8. CASE Raise
  <2>1. reader'.at = "publish" /\ UNCHANGED <<autoplay, worker>>
    BY <1>0, <1>8, ReaderAt DEF Raise
  <2> QED
    BY <2>1 DEF FlagsCovered
<1>9. CASE Publish
  <2>1. PICK w \in Spare :
          worker' = [worker EXCEPT ![w] = [reader EXCEPT !.at = "fetch", !.ctx = ctxUri]]
    BY <1>9 DEF Publish
  <2>2. /\ w \in Workers /\ worker[w].at = "idle"
        /\ worker'[w].at = "fetch" /\ worker'[w].gen = reader.gen
        /\ \A v \in Workers : v # w => worker'[v] = worker[v]
    <3> DEFINE x == [reader EXCEPT !.at = "fetch", !.ctx = ctxUri]
    <3>1. x \in WorkerType /\ x.at = "fetch" /\ x.gen = reader.gen
      BY TypedParts, Published
    <3> HIDE DEF x
    <3>2. worker' = [worker EXCEPT ![w] = x]
      BY <2>1 DEF x
    <3> QED
      BY <3>1, <3>2, Detached
  <2>3. resolverGen' = reader.gen /\ autoplay' = autoplay
    BY <1>9 DEF Publish
  <2> QED
    BY <2>2, <2>3 DEF FlagsCovered, Lowers
<1>10. ASSUME NEW step, NEW target, NEW label, Skip(step, target, label)
       PROVE  FlagsCovered'
  <2>1. reader.at = "idle" /\ UNCHANGED <<resolverGen, clearing, inFlight>>
    BY <1>10 DEF Skip
  <2>2. CASE UNCHANGED <<autoplay, worker>>
    BY <2>1, <2>2, <1>a
  <2>3. CASE MaybeAutoplay(worker, target)
    <3>1. \/ autoplay' = autoplay /\ worker' = worker
          \/ \E v \in Workers : /\ Continues(v)
                                /\ \A u \in Workers : u # v => worker'[u] = worker[u]
      BY <1>0, <2>3, AutoplayFacts, TypedParts
    <3>2. ASSUME NEW v \in Workers, Continues(v),
                 \A u \in Workers : u # v => worker'[u] = worker[u]
          PROVE  FlagsCovered'
      BY <2>1, <3>2 DEF Continues, FlagsCovered, Lowers
    <3> QED
      BY <2>1, <3>1, <3>2, <1>a
  <2> QED
    BY <1>10, <2>2, <2>3 DEF Skip
<1>11. CASE SkipNext
  BY <1>10, <1>11 DEF SkipNext
<1>12. CASE SkipPrev
  BY <1>10, <1>12 DEF SkipPrev
<1>13. CASE LookNext
  BY <1>13, <1>a DEF LookNext, flags
<1>14. CASE LookPrev
  BY <1>14, <1>a DEF LookPrev, flags
<1>15. CASE Defer
  BY <1>15, <1>a DEF Defer
<1> QED
  BY <1>1, <1>2, <1>3, <1>4, <1>5, <1>6, <1>7, <1>8, <1>9, <1>11, <1>12, <1>13, <1>14, <1>15
     DEF ReaderStep

LEMMA FlagsHost ==
  ASSUME Typed, FlagsCovered, ClearContext \/ ClearRest \/ AdvanceToNextTrack
  PROVE  FlagsCovered'
<1>1. CASE ClearContext
  BY <1>1 DEF ClearContext, FlagsCovered
<1>2. CASE ClearRest
  BY <1>2 DEF ClearRest, FlagsCovered
<1>3. CASE AdvanceToNextTrack
  BY <1>3 DEF AdvanceToNextTrack, flags, FlagsCovered, Lowers
<1> QED
  BY <1>1, <1>2, <1>3

-----------------------------------------------------------------------------
(* The deferred skip.                                                      *)

LEMMA DeferredKept ==
  ASSUME Deferred, UNCHANGED <<pending, owed, skipOf, resolved>>,
         \/ reader' = reader
         \/ reader'.at \notin {"storeNext", "storePrev"}
         \/ reader'.ctx = resolved
  PROVE  Deferred'
BY DEF Deferred, SkipInContext

LEMMA DeferredWorker ==
  ASSUME Typed, Deferred, NEW w \in Workers, WorkerStep(w)
  PROVE  Deferred'
<1>1. CASE Drain(w)
  <2>1. /\ pending' = 0 /\ owed' = (IF pending # 0 /\ owed' # 0 THEN owed - 1 ELSE 0)
        /\ UNCHANGED <<reader, resolved>>
    BY <1>1 DEF Drain, Beside
  <2>2. owed' = 0
    BY <2>1 DEF Deferred
  <2> QED
    BY <2>1, <2>2 DEF Deferred, SkipInContext
<1>2. ASSUME Beside, UNCHANGED <<pending, owed, skipOf>>
      PROVE  Deferred'
  BY <1>2, DeferredKept DEF Beside
<1>3. CASE Fetch(w) \/ Check(w) \/ Test(w) \/ GiveUp(w) \/ FetchMore(w) \/ Join(w)
  BY <1>2, <1>3 DEF Fetch, Check, Test, GiveUp, FetchMore, Join, flags, ghosts
<1>4. CASE Install(w) \/ PlaceHint(w) \/ AppendMore(w)
  BY <1>2, <1>4 DEF Install, PlaceHint, AppendMore, flags, ghosts
<1>5. CASE Put(w) \/ Lower(w) \/ LowerOnly(w) \/ Done(w)
  BY <1>2, <1>5 DEF Put, Lower, LowerOnly, Done, ghosts
<1> QED
  BY <1>1, <1>3, <1>4, <1>5 DEF WorkerStep

LEMMA DeferredReader ==
  ASSUME Typed, Deferred, ReaderStep
  PROVE  Deferred'
<1>0. TypeOK
  BY DEF Typed
<1>a. ASSUME Kicked
      PROVE  reader'.at \in {"start", "idle"}
  BY <1>0, <1>a, ReaderKicked, Entries
<1>b. ASSUME UNCHANGED <<pending, owed, skipOf, resolved>>,
             \/ reader' = reader
             \/ reader'.at \notin {"storeNext", "storePrev"}
             \/ reader'.ctx = resolved
      PROVE  Deferred'
  BY <1>b, DeferredKept
<1>c. ASSUME Supersede, reader'.at \notin {"storeNext", "storePrev"}
      PROVE  Deferred'
  BY <1>c DEF Supersede, Deferred, SkipInContext
<1>1. ASSUME NEW c \in Contexts, NEW h \in Hints, Play(c, h)
      PROVE  Deferred'
  BY <1>0, <1>1, <1>b, ReaderPlays DEF Serving, Play, flags, ghosts
<1>2. ASSUME NEW c \in Contexts, NEW h \in Hints, Transfer(c, h)
      PROVE  Deferred'
  BY <1>0, <1>2, <1>b, ReaderTransfers DEF Serving, Transfer, flags, ghosts
<1>3. CASE StartLate
  BY <1>3, <1>b, Entries DEF StartLate, flags, ghosts
<1>4. CASE KickNothing
  BY <1>4, <1>a, <1>b DEF KickNothing, flags, ghosts
<1>5. CASE KickSingle
  BY <1>5, <1>a, <1>c DEF KickSingle
<1>6. CASE KickKnown
  BY <1>6, <1>a, <1>b DEF KickKnown, Kicking, flags
<1>7. CASE KickResolver
  <2>3. reader'.at = "raise"
    BY <1>0, <1>7, ReaderAtGen DEF KickResolver
  <2> QED
    BY <1>7, <1>c, <2>3 DEF KickResolver
<1>8. CASE Raise
  <2>1. reader'.at = "publish"
    BY <1>0, <1>8, ReaderAt DEF Raise
  <2> QED
    BY <1>8, <1>b, <2>1 DEF Raise, ghosts
<1>9. CASE Publish
  BY <1>9, <1>a, <1>b DEF Publish, ghosts
<1>10. ASSUME NEW step, NEW target, NEW label \in {"lookNext", "lookPrev"},
              Skip(step, target, label)
       PROVE  Deferred'
  <2>2. reader' = reader \/ reader'.at = label
    BY <1>0, <1>10, ReaderSkips DEF Serving, Skip
  <2> QED
    BY <1>10, <1>b, <2>2 DEF Skip, ghosts
<1>11. CASE SkipNext
  BY <1>10, <1>11 DEF SkipNext
<1>12. CASE SkipPrev
  BY <1>10, <1>12 DEF SkipPrev
<1>13. CASE LookNext
  <2>1. \/ reader' = [reader EXCEPT !.at = "storeNext", !.ctx = resolved]
        \/ reader' = [reader EXCEPT !.at = "kick"]
        \/ reader' = Idle
    BY <1>13 DEF LookNext
  <2>2. reader' = [reader EXCEPT !.at = "kick"] => reader'.at = "kick"
    BY <1>0, ReaderAt
  <2>3. reader' = [reader EXCEPT !.at = "storeNext", !.ctx = resolved] => reader'.ctx = resolved
    BY <1>0, ReaderAtCtx
  <2>4. reader' = Idle => reader'.at = "idle"
    BY Entries
  <2>5. reader'.ctx = resolved \/ reader'.at \in {"kick", "idle"}
    BY <2>1, <2>2, <2>3, <2>4
  <2> QED
    BY <1>13, <1>b, <2>5 DEF LookNext, flags, ghosts
<1>14. CASE LookPrev
  <2>2. reader'.ctx = resolved \/ reader'.at = "idle"
    BY <1>0, <1>14, ReaderAtCtx, Entries DEF LookPrev
  <2> QED
    BY <1>14, <1>b, <2>2 DEF LookPrev, flags, ghosts
<1>15. CASE Defer
  <2>1. Idle.at = "idle"
    BY Entries
  <2> QED
    BY <1>15, <2>1 DEF Defer, Deferred, SkipInContext
<1> QED
  BY <1>1, <1>2, <1>3, <1>4, <1>5, <1>6, <1>7, <1>8, <1>9, <1>11, <1>12, <1>13, <1>14, <1>15
     DEF ReaderStep

LEMMA DeferredHost ==
  ASSUME Deferred, ClearContext \/ ClearRest \/ AdvanceToNextTrack
  PROVE  Deferred'
<1>1. CASE ClearContext
  BY <1>1, DeferredKept DEF ClearContext, ghosts
<1>2. CASE ClearRest
  BY <1>2 DEF ClearRest, Deferred, SkipInContext
<1>3. CASE AdvanceToNextTrack
  BY <1>3, DeferredKept DEF AdvanceToNextTrack, flags, ghosts
<1> QED
  BY <1>1, <1>2, <1>3

-----------------------------------------------------------------------------
(* Starts.                                                                 *)

\* No worker comes to owe command i.
NoneMore(i) == \A v \in Workers : WorkerOwes(v, i)' => WorkerOwes(v, i)

\* What a step does to command i: nothing ...
LEMMA OnceKept ==
  ASSUME Typed, Owed, NEW i \in 1 .. MaxCommands, NoneMore(i),
         commands' = commands \/ commands' = commands + 1,
         starts'[i] = starts[i], ReaderOwes(i)' => ReaderOwes(i)
  PROVE  Once(i)'
<1>1. Once(i) /\ commands \in Nat
  BY SpircAssumption DEF Owed, Typed, TypeOK
<1>2. i > commands' => i > commands
  BY <1>1
<1> QED
  BY <1>1, <1>2 DEF Once, NoneMore

\* ... or the reader starts its track ...
LEMMA OnceStarted ==
  ASSUME Typed, Owed, NEW i \in 1 .. MaxCommands, NoneMore(i), commands' = commands,
         ReaderOwes(i), ~ReaderOwes(i)', starts'[i] = starts[i] + 1
  PROVE  Once(i)'
<1>1. /\ Once(i) /\ reader.cmd = i /\ i <= commands
  BY DEF Owed, ReaderOwes
<1>2. starts'[i] = 1 /\ \A v \in Workers : ~WorkerOwes(v, i)'
  BY <1>1 DEF Once, NoneMore
<1>3. ~(i > commands')
  BY <1>1, SpircAssumption DEF Typed, TypeOK
<1> QED
  BY <1>2, <1>3 DEF Once

\* ... or it is new ...
LEMMA OnceFresh ==
  ASSUME Typed, Owed, NEW i \in 1 .. MaxCommands, NoneMore(i),
         i = commands + 1, commands' = i,
         \/ starts'[i] = starts[i]
         \/ starts'[i] = starts[i] + 1 /\ ~ReaderOwes(i)'
  PROVE  Once(i)'
<1>1. Once(i) /\ commands \in Nat /\ i > commands /\ ~(i > commands')
  BY SpircAssumption DEF Owed, Typed, TypeOK
<1>2. \A v \in Workers : ~WorkerOwes(v, i)'
  <2>1. ASSUME NEW v \in Workers, WorkerOwes(v, i)
        PROVE  FALSE
    BY <1>1, <2>1 DEF WorkerOwes, Owed
  <2> QED
    BY <2>1 DEF NoneMore
<1>3. starts[i] = 0
  BY <1>1 DEF Once
<1> QED
  BY <1>1, <1>2, <1>3 DEF Once

\* ... or the reader hands it to worker w ...
LEMMA OnceHanded ==
  ASSUME Typed, Owed, NEW i \in 1 .. MaxCommands, NEW w \in Workers, commands' = commands,
         \A v \in Workers : WorkerOwes(v, i)' => v = w \/ WorkerOwes(v, i),
         ReaderOwes(i), ~ReaderOwes(i)', starts'[i] = starts[i]
  PROVE  Once(i)'
<1>1. Once(i)
  BY DEF Owed
<1> QED
  BY <1>1 DEF Once

\* ... or worker w starts its track.
LEMMA OncePlaced ==
  ASSUME Typed, Owed, NEW i \in 1 .. MaxCommands, NEW w \in Workers, NoneMore(i),
         commands' = commands, WorkerOwes(w, i), ~WorkerOwes(w, i)',
         ReaderOwes(i)' => ReaderOwes(i), starts'[i] = starts[i] + 1
  PROVE  Once(i)'
<1>1. Once(i) /\ worker[w].cmd = i /\ i <= commands
  BY DEF Owed, WorkerOwes
<1>2. /\ starts'[i] = 1 /\ ~ReaderOwes(i)' 
      /\ \A v \in Workers : ~WorkerOwes(v, i)'
  BY <1>1 DEF Once, NoneMore
<1>3. ~(i > commands')
  BY <1>1, SpircAssumption DEF Typed, TypeOK
<1> QED
  BY <1>2, <1>3 DEF Once

\* The workers after a step of worker w of a resolver.
LEMMA OwedThen ==
  ASSUME Typed, Owed, NEW w \in Workers, NEW label \in Busy \cup {"idle"}, Then(w, label),
         \/ label \notin {"fetch", "check", "install", "place"}
         \/ worker[w].at \in {"fetch", "check", "install", "place"},
         commands' = commands
  PROVE  /\ \A i \in 1 .. MaxCommands : NoneMore(i)
         /\ \A v \in Workers : worker'[v].cmd <= commands'
<1>1. TypeOK
  BY DEF Typed
<1>2. /\ worker'[w].at = label /\ worker'[w].hint = worker[w].hint
      /\ worker'[w].cmd = worker[w].cmd
      /\ \A v \in Workers : v # w => worker'[v] = worker[v]
  BY <1>1, ThenFacts
<1>3. \A i \in 1 .. MaxCommands : NoneMore(i)
  BY <1>2 DEF NoneMore, WorkerOwes
<1>4. \A v \in Workers : worker'[v].cmd <= commands'
  BY <1>2 DEF Owed
<1> QED
  BY <1>3, <1>4

LEMMA OwedGone ==
  ASSUME Typed, Owed, NEW w \in Workers, Gone(w), commands' = commands
  PROVE  /\ \A i \in 1 .. MaxCommands : NoneMore(i)
         /\ \A v \in Workers : worker'[v].cmd <= commands'
<1>1. /\ worker'[w].at = "idle" /\ worker'[w].cmd = 0
      /\ \A v \in Workers : v # w => worker'[v] = worker[v]
  BY ContextedGone
<1>2. \A i \in 1 .. MaxCommands : NoneMore(i)
  BY <1>1 DEF NoneMore, WorkerOwes
<1>3. 0 <= commands'
  BY SpircAssumption DEF Typed, TypeOK
<1>4. \A v \in Workers : worker'[v].cmd <= commands'
  BY <1>1, <1>3 DEF Owed
<1> QED
  BY <1>2, <1>4

\* A step of a worker that starts nothing.
LEMMA OwedBeside ==
  ASSUME Typed, Owed, Beside, starts' = starts,
         \A i \in 1 .. MaxCommands : NoneMore(i),
         \A v \in Workers : worker'[v].cmd <= commands'
  PROVE  Owed'
<1>1. reader' = reader /\ commands' = commands
  BY DEF Beside
<1>2. ASSUME NEW i \in 1 .. MaxCommands
      PROVE  Once(i)'
  <2>1. ReaderOwes(i)' => ReaderOwes(i)
    BY <1>1 DEF ReaderOwes
  <2> QED
    BY <1>1, <2>1, OnceKept
<1> QED
  BY <1>1, <1>2 DEF Owed

LEMMA OwedWorker ==
  ASSUME Typed, Owed, NEW w \in Workers, WorkerStep(w)
  PROVE  Owed'
<1>a. ASSUME NEW label \in Busy \cup {"idle"}, Then(w, label),
             \/ label \notin {"fetch", "check", "install", "place"}
             \/ worker[w].at \in {"fetch", "check", "install", "place"},
             Beside, starts' = starts
      PROVE  Owed'
  <2>1. commands' = commands
    BY <1>a DEF Beside
  <2>2. /\ \A i \in 1 .. MaxCommands : NoneMore(i)
        /\ \A v \in Workers : worker'[v].cmd <= commands'
    BY <1>a, <2>1, OwedThen
  <2> QED
    BY <1>a, <2>2, OwedBeside
<1>b. ASSUME Gone(w), Beside, starts' = starts
      PROVE  Owed'
  <2>1. commands' = commands
    BY <1>b DEF Beside
  <2>2. /\ \A i \in 1 .. MaxCommands : NoneMore(i)
        /\ \A v \in Workers : worker'[v].cmd <= commands'
    BY <1>b, <2>1, OwedGone
  <2> QED
    BY <1>b, <2>2, OwedBeside
<1>1. CASE Fetch(w)
  BY <1>1, <1>a DEF Fetch, Now, Busy
<1>2. CASE Check(w)
  BY <1>2, <1>a DEF Check, Now, Busy
<1>3. CASE Install(w)
  BY <1>3, <1>a DEF Install, Now, Busy
<1>4. CASE PlaceHint(w)
  <2>1. /\ Then(w, "put") /\ Beside /\ worker[w].at = "place"
        /\ reader' = reader /\ commands' = commands
    BY <1>4 DEF PlaceHint, Beside, Now
  <2>2. /\ \A i \in 1 .. MaxCommands : NoneMore(i)
        /\ \A v \in Workers : worker'[v].cmd <= commands'
    BY <2>1, OwedThen DEF Busy
  <2>3. CASE worker[w].hint.by = "uri"
    <3>1. starts' = starts
      BY <1>4, <2>3 DEF PlaceHint
    <3> QED
      BY <2>1, <2>2, <3>1, OwedBeside
  <2>4. CASE worker[w].hint.by # "uri"
    <3>1. Start(worker[w].cmd)
      BY <1>4, <2>4 DEF PlaceHint
    <3>2. worker'[w].at = "put"
      BY <2>1, ThenFacts DEF Busy, Typed
    <3>3. ASSUME NEW i \in 1 .. MaxCommands
          PROVE  Once(i)'
      <4>1. ReaderOwes(i)' => ReaderOwes(i)
        BY <2>1 DEF ReaderOwes
      <4>2. CASE i = worker[w].cmd
        <5>1. starts'[i] = starts[i] + 1
          BY <3>1, <4>2, StartFacts DEF Typed
        <5>2. WorkerOwes(w, i) /\ ~WorkerOwes(w, i)'
          BY <2>1, <2>4, <3>2, <4>2 DEF WorkerOwes
        <5> QED
          BY <2>1, <2>2, <4>1, <5>1, <5>2, OncePlaced
      <4>3. CASE i # worker[w].cmd
        <5>1. starts'[i] = starts[i]
          BY <3>1, <4>3, StartFacts DEF Typed
        <5> QED
          BY <2>1, <2>2, <4>1, <5>1, OnceKept
      <4> QED
        BY <4>2, <4>3
    <3> QED
      BY <2>1, <2>2, <3>3 DEF Owed
  <2> QED
    BY <2>3, <2>4
<1>5. CASE Put(w)
  <2> DEFINE W == Tested(w)
  <2>0. TypeOK
    BY DEF Typed
  <2>1. /\ worker[w].at = "put" /\ MaybeAutoplay(W, at) /\ Beside
        /\ starts' = starts /\ commands' = commands
    BY <1>5 DEF Put, Now, Beside, Tested
  <2>2. /\ W \in [Workers -> WorkerType] /\ W[w].at = "test" /\ W[w].cmd = worker[w].cmd
        /\ \A v \in Workers : v # w => W[v] = worker[v]
    BY <2>0, TestedFacts
  <2> HIDE DEF W
  <2>3. \/ worker' = W
        \/ \E v \in Workers : /\ Continues(v)
                              /\ \A u \in Workers : u # v => worker'[u] = W[u]
    BY <2>0, <2>1, <2>2, AutoplayFacts
  <2>4. \A i \in 1 .. MaxCommands : NoneMore(i)
    BY <2>2, <2>3 DEF NoneMore, WorkerOwes, Continues
  <2>5. 0 <= commands
    BY <2>0, SpircAssumption DEF TypeOK
  <2>6. \A v \in Workers : W[v].cmd <= commands
    BY <2>2 DEF Owed
  <2>7. \A v \in Workers : worker'[v].cmd <= commands'
    BY <2>1, <2>3, <2>5, <2>6 DEF Continues
  <2> QED
    BY <2>1, <2>4, <2>7, OwedBeside
<1>6. CASE Test(w)
  BY <1>6, <1>a DEF Test, Busy
<1>7. CASE Lower(w)
  BY <1>7, <1>a DEF Lower, Busy
<1>8. CASE Drain(w)
  BY <1>8, <1>b DEF Drain
<1>9. CASE GiveUp(w)
  BY <1>9, <1>a, <1>b DEF GiveUp, Busy
<1>10. CASE LowerOnly(w)
  BY <1>10, <1>b DEF LowerOnly
<1>11. CASE FetchMore(w)
  BY <1>11, <1>a DEF FetchMore, Busy
<1>12. CASE Join(w)
  BY <1>12, <1>a DEF Join, Busy
<1>13. CASE AppendMore(w)
  BY <1>13, <1>a DEF AppendMore, Busy
<1>14. CASE Done(w)
  BY <1>14, <1>b DEF Done
<1> QED
  BY <1>1, <1>2, <1>3, <1>4, <1>5, <1>6, <1>7, <1>8, <1>9, <1>10, <1>11, <1>12, <1>13,
     <1>14 DEF WorkerStep

\* A step of the reader that starts nothing and detaches no resolver.
LEMMA OwedReads ==
  ASSUME Typed, Owed, starts' = starts, worker' = worker, commands' = commands,
         reader'.late => reader'.hint.by = "uri", reader'.at = "start" => reader'.late,
         reader'.cmd <= commands,
         \A i \in 1 .. MaxCommands : ReaderOwes(i)' => ReaderOwes(i)
  PROVE  Owed'
<1>1. \A i \in 1 .. MaxCommands : NoneMore(i)
  BY DEF NoneMore, WorkerOwes
<1>2. \A i \in 1 .. MaxCommands : Once(i)'
  BY <1>1, OnceKept
<1> QED
  BY <1>2 DEF Owed

\* The reader is through with kick_context_resolver.
LEMMA OwedKicked ==
  ASSUME Typed, Owed, Kicked, commands' = commands, reader.at \in {"kick", "publish"}
  PROVE  /\ reader'.late => reader'.hint.by = "uri"
         /\ reader'.at = "start" => reader'.late
         /\ reader'.cmd <= commands
         /\ \A i \in 1 .. MaxCommands : ReaderOwes(i)' => ReaderOwes(i) /\ reader.late
<1>0. commands \in 0 .. MaxCommands
  BY TypedParts
<1>1. TypeOK /\ 0 <= commands
  BY <1>0, SpircAssumption DEF Typed
<1>2. CASE reader.late
  <2>1. /\ reader'.at = "start" /\ reader'.hint = reader.hint
        /\ reader'.cmd = reader.cmd /\ reader'.late
    BY <1>1, <1>2, ReaderKicked
  <2> QED
    BY <1>2, <2>1 DEF Owed, ReaderOwes
<1>3. CASE ~reader.late
  <2>1. reader' = Idle
    BY <1>1, <1>3, ReaderKicked
  <2>2. Idle.at = "idle" /\ Idle.cmd = 0 /\ Idle.late = FALSE
    BY Entries
  <2> QED
    BY <1>1, <2>1, <2>2 DEF ReaderOwes
<1> QED
  BY <1>2, <1>3

LEMMA OwedReader ==
  ASSUME Typed, Owed, ReaderStep
  PROVE  Owed'
<1>0. TypeOK /\ commands \in Nat
  <2>1. TypeOK /\ commands \in 0 .. MaxCommands
    BY TypedParts
  <2> QED
    BY <2>1, SpircAssumption
<1>a. Idle.at = "idle" /\ Idle.cmd = 0 /\ Idle.late = FALSE
  BY Entries
<1>b. ASSUME worker' = worker
      PROVE  /\ \A i \in 1 .. MaxCommands : NoneMore(i)
             /\ \A v \in Workers : worker'[v].cmd <= commands
  BY <1>b DEF NoneMore, WorkerOwes, Owed
<1>c. ASSUME reader' = Idle, starts' = starts, worker' = worker, commands' = commands
      PROVE  Owed'
  BY <1>0, <1>a, <1>c, OwedReads DEF ReaderOwes
<1>1. ASSUME NEW c \in Contexts, NEW h \in Hints, Play(c, h)
      PROVE  Owed'
  <2>1. /\ reader'.at = "kick" /\ reader'.hint = h /\ reader'.cmd = commands'
        /\ reader'.late = FALSE
    BY <1>0, <1>1, ReaderPlays DEF Serving
  <2>2. commands' = commands + 1 /\ worker' = worker
    BY <1>1 DEF Play, Command
  <2>3. ASSUME NEW i \in 1 .. MaxCommands
        PROVE  Once(i)'
    <3>1. CASE i = commands'
      <4>1. CASE h.by = "uri"
        <5>1. starts'[i] = starts[i] + 1
          BY <1>0, <1>1, <3>1, <4>1, StartFacts DEF Play
        <5>2. ~ReaderOwes(i)'
          BY <2>1, <4>1 DEF ReaderOwes
        <5> QED
          BY <1>b, <2>2, <3>1, <5>1, <5>2, OnceFresh
      <4>2. CASE h.by # "uri"
        <5>1. starts'[i] = starts[i]
          BY <1>1, <4>2 DEF Play
        <5> QED
          BY <1>b, <2>2, <3>1, <5>1, OnceFresh
      <4> QED
        BY <4>1, <4>2
    <3>2. CASE i # commands'
      <4>1. starts'[i] = starts[i]
        BY <1>0, <1>1, <3>2, StartFacts DEF Play
      <4>2. ~ReaderOwes(i)'
        BY <2>1, <3>2 DEF ReaderOwes
      <4> QED
        BY <1>b, <2>2, <4>1, <4>2, OnceKept
    <3> QED
      BY <3>1, <3>2
  <2>4. reader'.cmd <= commands' /\ \A v \in Workers : worker'[v].cmd <= commands'
    <3>1. commands <= commands' /\ commands' \in Nat
      BY <1>0, <2>2
    <3>2. \A v \in Workers : worker[v].cmd \in Nat
      BY <1>0, SpircAssumption DEF TypeOK, Requests
    <3> QED
      BY <1>0, <1>b, <2>1, <2>2, <3>1, <3>2
  <2> QED
    BY <2>1, <2>3, <2>4 DEF Owed
<1>2. ASSUME NEW c \in Contexts, NEW h \in Hints, Transfer(c, h)
      PROVE  Owed'
  <2>1. /\ reader'.at = "kick" /\ reader'.hint = h /\ reader'.cmd = commands'
        /\ reader'.late = TRUE
    BY <1>0, <1>2, ReaderTransfers DEF Serving
  <2>2. commands' = commands + 1 /\ worker' = worker /\ starts' = starts /\ h.by = "uri"
    BY <1>2 DEF Transfer, Command
  <2>3. ASSUME NEW i \in 1 .. MaxCommands
        PROVE  Once(i)'
    <3>1. CASE i = commands'
      BY <1>b, <2>2, <3>1, OnceFresh
    <3>2. CASE i # commands'
      <4>1. ~ReaderOwes(i)'
        BY <2>1, <3>2 DEF ReaderOwes
      <4> QED
        BY <1>b, <2>2, <4>1, OnceKept
    <3> QED
      BY <3>1, <3>2
  <2>4. reader'.cmd <= commands' /\ \A v \in Workers : worker'[v].cmd <= commands'
    <3>1. commands <= commands' /\ commands' \in Nat
      BY <1>0, <2>2
    <3>2. \A v \in Workers : worker[v].cmd \in Nat
      BY <1>0, SpircAssumption DEF TypeOK, Requests
    <3> QED
      BY <1>0, <1>b, <2>1, <2>2, <3>1, <3>2
  <2> QED
    BY <2>1, <2>2, <2>3, <2>4 DEF Owed
<1>3. CASE StartLate
  <2>1. /\ reader.at = "start" /\ Start(reader.cmd) /\ reader' = Idle
        /\ worker' = worker /\ commands' = commands
    BY <1>3 DEF StartLate
  <2>2. reader.late
    BY <2>1 DEF Owed
  <2>3. ASSUME NEW i \in 1 .. MaxCommands
        PROVE  Once(i)'
    <3>1. ~ReaderOwes(i)'
      BY <1>a, <2>1 DEF ReaderOwes
    <3>2. CASE i = reader.cmd
      <4>1. starts'[i] = starts[i] + 1 /\ ReaderOwes(i)
        BY <1>0, <2>1, <2>2, <3>2, StartFacts DEF ReaderOwes
      <4> QED
        BY <1>b, <2>1, <3>1, <4>1, OnceStarted
    <3>3. CASE i # reader.cmd
      <4>1. starts'[i] = starts[i]
        BY <1>0, <2>1, <3>3, StartFacts
      <4> QED
        BY <1>b, <2>1, <3>1, <4>1, OnceKept
    <3> QED
      BY <3>2, <3>3
  <2> QED
    BY <1>0, <1>a, <1>b, <2>1, <2>3 DEF Owed
<1>4. CASE KickNothing
  <2>1. /\ Kicked /\ reader.at = "kick"
        /\ starts' = starts /\ worker' = worker /\ commands' = commands
    BY <1>4 DEF KickNothing
  <2> QED
    BY <2>1, OwedKicked, OwedReads
<1>5. CASE KickSingle
  <2>1. /\ Kicked /\ reader.at = "kick" /\ starts' = starts /\ commands' = commands
        /\ ctxUri # None
    BY <1>5 DEF KickSingle, Kicking
  <2>2. PICK w \in Spare : worker' = [worker EXCEPT ![w] = Continuing(ctxUri, generation')]
    BY <1>5 DEF KickSingle
  <2>3. /\ w \in Workers /\ worker'[w].at = "more" /\ worker'[w].cmd = 0
        /\ \A v \in Workers : v # w => worker'[v] = worker[v]
    <3> DEFINE x == Continuing(ctxUri, generation')
    <3>1. ctxUri \in Contexts /\ generation' \in Nat
      BY <1>0, <1>5, <2>1 DEF KickSingle, Supersede, TypeOK
    <3>2. x \in WorkerType /\ x.ctx # None /\ x.at = "more" /\ x.cmd = 0
      BY <2>1, <3>1, Entries
    <3> HIDE DEF x
    <3>3. worker' = [worker EXCEPT ![w] = x]
      BY <2>2 DEF x
    <3> QED
      BY <3>2, <3>3, Detached
  <2>4. \A i \in 1 .. MaxCommands : NoneMore(i)
    BY <2>3 DEF NoneMore, WorkerOwes
  <2>5. \A v \in Workers : worker'[v].cmd <= commands
    BY <1>0, <2>3 DEF Owed
  <2>6. \A i \in 1 .. MaxCommands : Once(i)'
    BY <2>1, <2>4, OwedKicked, OnceKept
  <2> QED
    BY <2>1, <2>5, <2>6, OwedKicked DEF Owed
<1>6. CASE KickKnown
  <2>1. Kicked /\ reader.at = "kick" /\ worker' = worker /\ commands' = commands
    BY <1>6 DEF KickKnown, Kicking
  <2>2. CASE starts' = starts
    BY <2>1, <2>2, OwedKicked, OwedReads
  <2>3. CASE Start(reader.cmd) /\ reader.hint.by # "uri"
    <3>1. ~reader.late /\ reader' = Idle
      BY <1>0, <2>1, <2>3, ReaderKicked DEF Owed
    <3>2. ASSUME NEW i \in 1 .. MaxCommands
          PROVE  Once(i)'
      <4>1. ~ReaderOwes(i)'
        BY <1>a, <3>1 DEF ReaderOwes
      <4>2. CASE i = reader.cmd
        <5>1. starts'[i] = starts[i] + 1 /\ ReaderOwes(i)
          BY <1>0, <2>1, <2>3, <4>2, StartFacts DEF ReaderOwes
        <5> QED
          BY <1>b, <2>1, <4>1, <5>1, OnceStarted
      <4>3. CASE i # reader.cmd
        <5>1. starts'[i] = starts[i]
          BY <1>0, <2>3, <4>3, StartFacts
        <5> QED
          BY <1>b, <2>1, <4>1, <5>1, OnceKept
      <4> QED
        BY <4>2, <4>3
    <3> QED
      BY <1>0, <1>a, <1>b, <2>1, <3>1, <3>2 DEF Owed
  <2> QED
    BY <1>6, <2>2, <2>3 DEF KickKnown
<1>7. CASE KickResolver
  <2>1. /\ reader.at = "kick" /\ commands' = commands /\ starts' = starts /\ worker' = worker
        /\ reader' = [reader EXCEPT !.at = "raise", !.gen = generation']
    BY <1>7 DEF KickResolver, Kicking
  <2>2. /\ reader'.at = "raise" /\ reader'.hint = reader.hint
        /\ reader'.cmd = reader.cmd /\ reader'.late = reader.late
    BY <1>0, <2>1, ReaderAtGen
  <2>3. /\ reader'.late => reader'.hint.by = "uri"
        /\ reader'.cmd <= commands
        /\ \A i \in 1 .. MaxCommands : ReaderOwes(i)' => ReaderOwes(i)
    BY <2>1, <2>2 DEF Owed, ReaderOwes
  <2> QED
    BY <2>1, <2>2, <2>3, OwedReads
<1>8. CASE Raise
  <2>1. /\ reader.at = "raise" /\ commands' = commands /\ starts' = starts /\ worker' = worker
        /\ reader' = [reader EXCEPT !.at = "publish"]
    BY <1>8 DEF Raise
  <2>2. /\ reader'.at = "publish" /\ reader'.hint = reader.hint
        /\ reader'.cmd = reader.cmd /\ reader'.late = reader.late
    BY <1>0, <2>1, ReaderAt
  <2>3. /\ reader'.late => reader'.hint.by = "uri"
        /\ reader'.cmd <= commands
        /\ \A i \in 1 .. MaxCommands : ReaderOwes(i)' => ReaderOwes(i)
    BY <2>1, <2>2 DEF Owed, ReaderOwes
  <2> QED
    BY <2>1, <2>2, <2>3, OwedReads
<1>9. CASE Publish
  <2>1. /\ Kicked /\ reader.at = "publish" /\ starts' = starts /\ commands' = commands
    BY <1>9 DEF Publish
  <2>2. PICK w \in Spare :
          worker' = [worker EXCEPT ![w] = [reader EXCEPT !.at = "fetch", !.ctx = ctxUri]]
    BY <1>9 DEF Publish
  <2>3. /\ w \in Workers /\ worker[w].at = "idle" /\ worker'[w].at = "fetch"
        /\ worker'[w].hint = reader.hint /\ worker'[w].cmd = reader.cmd
        /\ \A v \in Workers : v # w => worker'[v] = worker[v]
    <3> DEFINE x == [reader EXCEPT !.at = "fetch", !.ctx = ctxUri]
    <3>1. x \in WorkerType /\ x.at = "fetch" /\ x.hint = reader.hint /\ x.cmd = reader.cmd
      BY TypedParts, Published
    <3> HIDE DEF x
    <3>2. worker' = [worker EXCEPT ![w] = x]
      BY <2>2 DEF x
    <3> QED
      BY <3>1, <3>2, Detached
  <2>4. \A v \in Workers : worker'[v].cmd <= commands
    BY <2>3 DEF Owed
  <2>5. ASSUME NEW i \in 1 .. MaxCommands
        PROVE  Once(i)'
    <3>1. CASE WorkerOwes(w, i)'
      <4>1. reader.hint.by # "uri" /\ reader.cmd = i
        BY <2>3, <3>1 DEF WorkerOwes
      <4>2. ReaderOwes(i) /\ ~reader.late
        BY <2>1, <4>1 DEF ReaderOwes, Owed
      <4>3. ~ReaderOwes(i)'
        BY <2>1, <4>2, OwedKicked
      <4>4. \A v \in Workers : WorkerOwes(v, i)' => v = w \/ WorkerOwes(v, i)
        BY <2>3 DEF WorkerOwes
      <4> QED
        BY <2>1, <2>3, <4>2, <4>3, <4>4, OnceHanded
    <3>2. CASE ~WorkerOwes(w, i)'
      <4>1. NoneMore(i)
        BY <2>3, <3>2 DEF NoneMore, WorkerOwes
      <4> QED
        BY <2>1, <4>1, OwedKicked, OnceKept
    <3> QED
      BY <3>1, <3>2
  <2> QED
    BY <2>1, <2>4, <2>5, OwedKicked DEF Owed
<1>10. ASSUME NEW step, NEW target, NEW label \in {"lookNext", "lookPrev"},
              Skip(step, target, label)
       PROVE  Owed'
  <2>1. /\ reader.at = "idle" /\ Command /\ commands' = commands + 1
        /\ commands' \in Nat /\ commands <= commands'
    BY <1>0, <1>10 DEF Skip, Command
  <2>2. \/ worker' = worker
        \/ \E v \in Workers : /\ Continues(v)
                              /\ \A u \in Workers : u # v => worker'[u] = worker[u]
    <3>1. CASE MaybeAutoplay(worker, target)
      BY <1>0, <3>1, AutoplayFacts, TypedParts
    <3> QED
      BY <1>10, <3>1 DEF Skip
  <2>3. \A i \in 1 .. MaxCommands : NoneMore(i)
    BY <2>2 DEF NoneMore, WorkerOwes, Continues
  <2>4. \A v \in Workers : worker'[v].cmd <= commands'
    <3>1. \A v \in Workers : worker[v].cmd \in Nat /\ worker[v].cmd <= commands
      BY <1>0, SpircAssumption DEF TypeOK, Requests, Owed
    <3>2. \A v \in Workers : worker[v].cmd <= commands'
      BY <1>0, <2>1, <3>1
    <3> QED
      BY <2>1, <2>2, <3>2 DEF Continues
  <2>5. reader.cmd \in Nat /\ reader.cmd <= commands'
    BY <1>0, <2>1, SpircAssumption DEF TypeOK, Requests, Owed
  <2>6. CASE reader' = reader /\ Start(commands')
    <3>1. ASSUME NEW i \in 1 .. MaxCommands
          PROVE  Once(i)'
      <4>1. ~ReaderOwes(i)'
        BY <2>1, <2>6 DEF ReaderOwes
      <4>2. CASE i = commands'
        <5>1. starts'[i] = starts[i] + 1
          BY <1>0, <2>6, <4>2, StartFacts
        <5> QED
          BY <2>1, <2>3, <4>1, <4>2, <5>1, OnceFresh
      <4>3. CASE i # commands'
        <5>1. starts'[i] = starts[i]
          BY <1>0, <2>6, <4>3, StartFacts
        <5> QED
          BY <2>1, <2>3, <4>1, <5>1, OnceKept
      <4> QED
        BY <4>2, <4>3
    <3> QED
      BY <2>1, <2>4, <2>5, <2>6, <3>1 DEF Owed
  <2>7. CASE starts' = starts /\ reader' = [Idle EXCEPT !.at = label, !.cmd = commands']
    <3>1. /\ reader'.at = label /\ reader'.hint = NoHint /\ reader'.cmd = commands'
          /\ reader'.late = FALSE
      BY <1>0, <2>1, <2>7, ReaderSkips DEF Serving
    <3>2. ASSUME NEW i \in 1 .. MaxCommands
          PROVE  Once(i)'
      <4>1. CASE i = commands'
        BY <2>1, <2>3, <2>7, <4>1, OnceFresh
      <4>2. CASE i # commands'
        <5>1. ~ReaderOwes(i)'
          BY <3>1, <4>2 DEF ReaderOwes
        <5> QED
          BY <2>1, <2>3, <2>7, <5>1, OnceKept
      <4> QED
        BY <4>1, <4>2
    <3> QED
      BY <2>1, <2>4, <3>1, <3>2 DEF Owed
  <2> QED
    BY <1>10, <2>6, <2>7 DEF Skip
<1>11. CASE SkipNext
  BY <1>10, <1>11 DEF SkipNext
<1>12. CASE SkipPrev
  BY <1>10, <1>12 DEF SkipPrev
<1>13. CASE LookNext
  <2>1. /\ reader.at = "lookNext"
        /\ starts' = starts /\ worker' = worker /\ commands' = commands
    BY <1>13 DEF LookNext
  <2>2. CASE reader' = [reader EXCEPT !.at = "storeNext", !.ctx = resolved]
    <3>1. /\ reader'.at = "storeNext" /\ reader'.hint = reader.hint
          /\ reader'.cmd = reader.cmd /\ reader'.late = reader.late
      BY <1>0, <2>2, ReaderAtCtx
    <3>2. /\ reader'.late => reader'.hint.by = "uri"
          /\ reader'.cmd <= commands
          /\ \A i \in 1 .. MaxCommands : ~ReaderOwes(i)'
      BY <3>1 DEF Owed, ReaderOwes
    <3> QED
      BY <2>1, <3>1, <3>2, OwedReads
  <2>3. CASE reader' = [reader EXCEPT !.at = "kick"]
    <3>1. /\ reader'.at = "kick" /\ reader'.hint = reader.hint
          /\ reader'.cmd = reader.cmd /\ reader'.late = reader.late
      BY <1>0, <2>3, ReaderAt
    <3>2. /\ reader'.late => reader'.hint.by = "uri"
          /\ reader'.cmd <= commands
          /\ \A i \in 1 .. MaxCommands : ReaderOwes(i)' => ReaderOwes(i)
      BY <2>1, <3>1 DEF Owed, ReaderOwes
    <3> QED
      BY <2>1, <3>1, <3>2, OwedReads
  <2> QED
    BY <1>13, <1>c, <2>1, <2>2, <2>3 DEF LookNext
<1>14. CASE LookPrev
  <2>1. starts' = starts /\ worker' = worker /\ commands' = commands
    BY <1>14 DEF LookPrev
  <2>2. CASE reader' = [reader EXCEPT !.at = "storePrev", !.ctx = resolved]
    <3>1. /\ reader'.at = "storePrev" /\ reader'.hint = reader.hint
          /\ reader'.cmd = reader.cmd /\ reader'.late = reader.late
      BY <1>0, <2>2, ReaderAtCtx
    <3>2. /\ reader'.late => reader'.hint.by = "uri"
          /\ reader'.cmd <= commands
          /\ \A i \in 1 .. MaxCommands : ~ReaderOwes(i)'
      BY <3>1 DEF Owed, ReaderOwes
    <3> QED
      BY <2>1, <3>1, <3>2, OwedReads
  <2> QED
    BY <1>14, <1>c, <2>1, <2>2 DEF LookPrev
<1>15. CASE Defer
  BY <1>15, <1>c DEF Defer
<1> QED
  BY <1>1, <1>2, <1>3, <1>4, <1>5, <1>6, <1>7, <1>8, <1>9, <1>11, <1>12, <1>13, <1>14, <1>15
     DEF ReaderStep

LEMMA OwedHost ==
  ASSUME Typed, Owed, ClearContext \/ ClearRest \/ AdvanceToNextTrack
  PROVE  Owed'
<1>0. /\ commands \in Nat /\ reader.cmd \in Nat
      /\ \A v \in Workers : worker[v].cmd \in Nat
  BY SpircAssumption DEF Typed, TypeOK, Requests
<1>1. /\ reader' = reader /\ worker' = worker /\ starts' = starts
      /\ commands' = commands \/ commands' = commands + 1
  BY DEF ClearContext, ClearRest, AdvanceToNextTrack, Command
<1>2. \A i \in 1 .. MaxCommands : NoneMore(i) /\ (ReaderOwes(i)' => ReaderOwes(i))
  BY <1>1 DEF NoneMore, WorkerOwes, ReaderOwes
<1>3. \A i \in 1 .. MaxCommands : Once(i)'
  BY <1>1, <1>2, OnceKept
<1>4. reader'.cmd <= commands' /\ \A v \in Workers : worker'[v].cmd <= commands'
  BY <1>0, <1>1 DEF Owed
<1> QED
  BY <1>1, <1>3, <1>4 DEF Owed

-----------------------------------------------------------------------------

LEMMA NextIInv == IInv /\ [Next]_vars => IInv'
<1> SUFFICES ASSUME IInv, [Next]_vars PROVE IInv'
  OBVIOUS
<1>0. Typed /\ FlagsCovered /\ Deferred /\ Owed
  BY DEF IInv
<1>1. CASE ReaderStep
  BY <1>0, <1>1, TypedReader, FlagsReader, DeferredReader, OwedReader DEF IInv
<1>2. ASSUME NEW w \in Workers, WorkerStep(w)
      PROVE  IInv'
  BY <1>0, <1>2, TypedWorker, FlagsWorker, DeferredWorker, OwedWorker DEF IInv
<1>3. CASE ClearContext \/ ClearRest \/ AdvanceToNextTrack
  BY <1>0, <1>3, TypedHost, FlagsHost, DeferredHost, OwedHost DEF IInv
<1>4. CASE UNCHANGED vars
  <2>1. /\ UNCHANGED <<ctxUri, resolved, list, at, generation, resolverGen, inFlight, pending,
                       autoplay, reader, clearing, worker, starts, owed, skipOf, commands>>
    BY <1>4 DEF vars, place, flags, ghosts
  <2>2. Typed'
    BY <1>0, <2>1 DEF Typed, TypeOK
  <2>3. FlagsCovered'
    BY <1>0, <2>1 DEF FlagsCovered, Lowers
  <2>4. Deferred'
    BY <1>0, <2>1 DEF Deferred, SkipInContext
  <2>5. Owed'
    BY <1>0, <2>1 DEF Owed, Once, ReaderOwes, WorkerOwes
  <2> QED
    BY <2>2, <2>3, <2>4, <2>5 DEF IInv
<1> QED
  BY <1>1, <1>2, <1>3, <1>4 DEF Next

LEMMA IInvEnough == IInv => TypeOK /\ FlagsCovered /\ SkipOnce /\ OneStart /\ SkipInContext
<1> SUFFICES ASSUME IInv PROVE TypeOK /\ FlagsCovered /\ SkipOnce /\ OneStart /\ SkipInContext
  OBVIOUS
<1>1. TypeOK /\ FlagsCovered /\ SkipInContext
  BY DEF IInv, Typed, Deferred
<1>2. SkipOnce
  BY DEF IInv, Deferred, SkipOnce
<1>3. OneStart
  BY DEF IInv, Owed, Once, OneStart
<1> QED
  BY <1>1, <1>2, <1>3

\* Whatever the contexts, hints and number of workers and commands: a raised flag
\* comes down, a deferred skip is carried out at most once and in the context it was
\* given for, and no command starts two tracks.
THEOREM SpircSafe ==
  Spec => [](TypeOK /\ FlagsCovered /\ SkipOnce /\ OneStart /\ SkipInContext)
<1>1. Init => IInv
  BY InitIInv
<1>2. IInv /\ [Next]_vars => IInv'
  BY NextIInv
<1>3. IInv => TypeOK /\ FlagsCovered /\ SkipOnce /\ OneStart /\ SkipInContext
  BY IInvEnough
<1> QED
  BY <1>1, <1>2, <1>3, PTL DEF Spec

\* A command starts one track at most, in the handler or in its resolver.
THEOREM SpircStartsOnce == Spec => []OneStart
BY SpircSafe, PTL

\* A deferred skip is never carried out in another context than its own.
THEOREM SpircSkips == Spec => []SkipInContext
BY SpircSafe, PTL

\* The contexts, flags, generations and every worker keep their types.
THEOREM SpircTypes == Spec => []TypeOK
BY SpircSafe, PTL
=============================================================================
