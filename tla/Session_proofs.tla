--------------------------- MODULE Session_proofs ----------------------------
(***************************************************************************)
(* Proofs about Session for any threads of the application, any devices    *)
(* and any bounds.  The inductive invariant says who holds reconnect_m and *)
(* ap_io_m, what each thread may be in the middle of, that a reconnect has *)
(* taken the old dispatcher and the old device away before it makes new    *)
(* ones, unless connect has come between, and where a promised context is  *)
(* on its way from the old device to the new one.                          *)
(***************************************************************************)
EXTENDS Session, TLAPS

\* A fetcher that holds reconnect_m: from the test of ensure_connected to its end.
Rebuilding(t) ==
  \/ doing[t].at \in {"test", "open", "login", "init", "start", "replace", "launch", "failed",
                     "close", "join", "restore"}
  \/ doing[t].at = "reset" /\ doing[t].why # "retry"

\* reconnect_m and ap_io_m are held by those who are past their acquisition.
MutexHeld ==
  \A t \in Fetchers : /\ reconnect = t <=> Rebuilding(t)
                      /\ io = t <=> doing[t].at = "using"

\* What a fetcher, a host and a device's reader may be in the middle of.
FetcherTask(task) ==
  \/ task.at \in {"none", "idle", "ensure", "test", "use", "using", "run", "returned"}
  \/ task.at \in {"open", "login", "failed"} /\ task.why \in {"relogin", "rebuild", "full"}
  \/ task.at = "init" /\ task.why \in {"rebuild", "full"}
  \/ task.at \in {"close", "join", "start", "replace", "launch", "restore"}
       /\ task.why \in {"rebuild", "full", "dealer"}
  \/ task.at = "reset" /\ task.why \in {"relogin", "rebuild", "full", "retry"}

HostTask(task) ==
  \/ task.at = "idle" /\ task.why = "none"
  \/ task.at \in {"halt", "await"} /\ task.why \in {"play", "stop", "disconnect"}
  \/ task.at \in {"close", "join", "reset"} /\ task.why \in {"cached", "disconnect"}
  \/ task.at \in {"open", "login", "failed", "wait"}
       /\ task.why \in {"cached", "oauth", "zeroconf"}
  \/ task.at \in {"init", "start", "replace", "launch"} /\ task.why = "connect"

ReaderTask(task) ==
  \/ task.at \in {"none", "new", "loop", "ended"}
  \/ task.at \in {"halt", "await"} /\ task.why = "inactive"

Tasks ==
  /\ \A t \in Fetchers : FetcherTask(doing[t])
  /\ \A h \in Hosts : HostTask(doing[h])
  /\ \A d \in Devices : ReaderTask(doing[d])

\* The dispatcher under those who use it; it is gone before the next login.
ApKept ==
  \A t \in Fetchers :
    /\ doing[t].at = "using" => ap.disp # "none"
    /\ doing[t].at \in {"open", "login"} => ap.disp = "none" \/ met

\* From the teardown of a rebuild to its new device there is none ...
Bereft(t) ==
  \/ /\ doing[t].at \in {"reset", "open", "login", "failed", "init", "start"}
     /\ doing[t].why \in {"rebuild", "full", "dealer"}
  \/ doing[t].at = "join" /\ doing[t].why = "dealer"

\* ... but for the one connect may have made.
NoDevice == \A t \in Fetchers : Bereft(t) => device = None \/ met

\* Where the promised context is while a reconnect is under way: in the
\* device until it is torn down, then in the seed.
Saved(task) ==
  IF task.at = "test" \/ task.why = "relogin" THEN device # None /\ context
  ELSE /\ task.why \in {"rebuild", "dealer"} /\ task.seed
       /\ task.at = "restore" => device # None

ContextSafe ==
  promised => /\ reconnect = None => device # None /\ context
              /\ \A t \in Fetchers : reconnect = t => Saved(doing[t])

IInv == TypeOK /\ MutexHeld /\ Tasks /\ ApKept /\ NoDevice /\ ContextSafe

-----------------------------------------------------------------------------
(* How the entries of doing change.                                        *)

DoingTyped == doing \in [Threads -> Task]

\* Only the entry of t changes.
Alone(t) == doing' \in [Threads -> Task] /\ \A s \in Threads : s # t => doing'[s] = doing[s]

\* Only the entries of t and u change.
AloneBut(t, u) ==
  /\ doing' \in [Threads -> Task]
  /\ \A s \in Threads : s # t /\ s # u => doing'[s] = doing[s]

\* A thread goes to another place ...
LEMMA GoAt ==
  ASSUME DoingTyped, NEW t \in Threads, NEW place \in Places, Go(t, place)
  PROVE  /\ Alone(t)
         /\ doing'[t].at = place
         /\ doing'[t].why = doing[t].why /\ doing'[t].seed = doing[t].seed
<1>1. doing[t] \in Task
  BY DEF DoingTyped
<1>2. [doing[t] EXCEPT !.at = place] \in Task
  BY <1>1 DEF Task
<1>3. /\ [doing[t] EXCEPT !.at = place].at = place
      /\ [doing[t] EXCEPT !.at = place].why = doing[t].why
      /\ [doing[t] EXCEPT !.at = place].seed = doing[t].seed
  BY <1>1 DEF Task
<1>4. doing' = [doing EXCEPT ![t] = [doing[t] EXCEPT !.at = place]]
  BY <1>1 DEF Go, DoingTyped
<1> QED
  BY <1>2, <1>4 DEF DoingTyped, Alone

\* ... and for another reason.
LEMMA GoForAt ==
  ASSUME DoingTyped, NEW t \in Threads, NEW place \in Places, NEW why \in Whys,
         GoFor(t, place, why)
  PROVE  /\ Alone(t)
         /\ doing'[t].at = place /\ doing'[t].why = why
         /\ doing'[t].seed = doing[t].seed
<1> DEFINE new == [doing[t] EXCEPT !.at = place, !.why = why]
<1>1. doing[t] \in Task
  BY DEF DoingTyped
<1>2. new \in Task
  BY <1>1 DEF Task
<1>3. new.at = place /\ new.why = why /\ new.seed = doing[t].seed
  BY <1>1 DEF Task
<1>4. doing' = [doing EXCEPT ![t] = new]
  BY <1>1 DEF GoFor, DoingTyped
<1> HIDE DEF new
<1> QED
  BY <1>2, <1>3, <1>4 DEF DoingTyped, Alone

\* A thread's entry is replaced.
LEMMA SetAt ==
  ASSUME DoingTyped, NEW t \in Threads, NEW x \in Task, doing' = [doing EXCEPT ![t] = x]
  PROVE  Alone(t) /\ doing'[t] = x
BY DEF DoingTyped, Alone

\* The entries the actions write are well-formed.
LEMMA Entries == Idle \in Task /\ Idle.at = "idle" /\ Idle.why = "none"
BY DEF Idle, Task, Places, Whys

LEMMA OtherEntries ==
  /\ \A place \in Places :
       [Idle EXCEPT !.at = place] \in Task /\ [Idle EXCEPT !.at = place].at = place
  /\ Gone \in Task /\ Gone.at = "none"
<1>1. ASSUME NEW place \in Places
      PROVE  [Idle EXCEPT !.at = place] \in Task /\ [Idle EXCEPT !.at = place].at = place
  BY Entries DEF Task
<1>2. Gone \in Task /\ Gone.at = "none"
  BY Entries DEF Gone, Task, Places
<1> QED
  BY <1>1, <1>2

\* The player's when the track is over.
LEMMA ReturnMoves ==
  ASSUME DoingTyped, Player \in Threads,
         doing' = [doing EXCEPT ![Player] = [Idle EXCEPT !.at = "returned"]]
  PROVE  Alone(Player) /\ doing'[Player].at = "returned"
<1>1. PICK x \in Task : x.at = "returned" /\ x = [Idle EXCEPT !.at = "returned"]
  BY OtherEntries DEF Places
<1>2. doing' = [doing EXCEPT ![Player] = x]
  BY <1>1
<1> QED
  BY <1>1, <1>2, SetAt

\* That of a thread which starts to fetch is well-formed, too.
LEMMA FetchEntry ==
  ASSUME NEW kind \in {"metadata", "source"}
  PROVE  Fetch(kind) \in Task /\ Fetch(kind).at = "ensure"
<1>1. "ensure" \in Places /\ 1 \in 0 .. 2 /\ kind \in {"none", "metadata", "source"}
  BY DEF Places
<1> QED
  BY <1>1, Entries DEF Task, Fetch

\* Where a thread is when it has been answered ...
LEMMA FetchedMoves ==
  ASSUME DoingTyped, NEW t \in Threads, Fetched(t)
  PROVE  Alone(t) /\ doing'[t].at \in {"ensure", "idle", "run"}
<1>1. \E x \in Task : x.at \in {"ensure", "idle", "run"} /\ doing' = [doing EXCEPT ![t] = x]
  BY Entries, OtherEntries, FetchEntry DEF Fetched, Places
<1> QED
  BY <1>1, SetAt

\* ... when it gives up,
LEMMA GiveUpMoves ==
  ASSUME DoingTyped, NEW t \in Threads, GiveUp(t)
  PROVE  Alone(t) /\ doing'[t].at \in {"idle", "returned"}
<1>1. \E x \in Task : x.at \in {"idle", "returned"} /\ doing' = [doing EXCEPT ![t] = x]
  BY Entries, OtherEntries DEF GiveUp, Places
<1> QED
  BY <1>1, SetAt

\* when its request has failed,
LEMMA FailFetchMoves ==
  ASSUME DoingTyped, NEW t \in Threads, FailFetch(t)
  PROVE  /\ Alone(t)
         /\ \/ doing'[t].at \in {"ensure", "idle", "run", "returned"}
            \/ doing'[t].at = "reset" /\ doing'[t].why = "retry"
<1>1. CASE Fetched(t)
  BY <1>1, FetchedMoves
<1>2. CASE GoFor(t, "reset", "retry")
  <2>1. "reset" \in Places /\ "retry" \in Whys
    BY DEF Places, Whys
  <2> QED
    BY <1>2, <2>1, GoForAt
<1>3. CASE GiveUp(t)
  BY <1>3, GiveUpMoves
<1> QED
  BY <1>1, <1>2, <1>3 DEF FailFetch

-----------------------------------------------------------------------------
(* What every step has in common.                                          *)

\* Who is who.
LEMMA Members ==
  /\ \A t \in Closers : t \in Threads /\ t \notin Devices /\ t # None
  /\ \A d \in Devices : d \in Threads /\ d \notin Closers /\ d # None
  /\ \A h \in Hosts : h \in Closers /\ h \notin Fetchers
  /\ \A t \in Fetchers : t \in Closers /\ t \notin Hosts
  /\ Player \in Fetchers /\ Helper \in Fetchers /\ Player # Helper
BY SessionAssumption DEF Threads, Closers, Fetchers

\* A thread that destroys nothing does not lose a device by going on.
LEMMA HeldByOthers ==
  ASSUME TypeOK, NEW t \in Closers, doing[t].at \notin {"replace", "join"},
         \A s \in Threads : s # t => doing'[s] = doing[s],
         device' = device
  PROVE  DevicesHeld'
BY Members DEF TypeOK, DevicesHeld, Destroys

\* Nor does a device by going on itself.
LEMMA HeldStill ==
  ASSUME TypeOK, NEW d \in Devices, doing[d].at # "none",
         \A s \in Threads : s # d => doing'[s] = doing[s],
         device' = device
  PROVE  DevicesHeld'
BY Members DEF TypeOK, DevicesHeld, Destroys

\* A step that leaves reconnect_m and those who hold it alone keeps the
\* invariant, if it takes no dispatcher away that is in use, and if under a
\* reconnect it makes a device or a dispatcher only as connect does.
LEMMA BystandersKeep ==
  ASSUME IInv, TypeOK', Tasks', reconnect' = reconnect, met => met',
         \A t \in Fetchers :
           /\ \/ doing'[t] = doing[t]
              \/ ~Rebuilding(t) /\ ~Rebuilding(t)'
           /\ io' = t <=> doing'[t].at = "using"
           /\ doing'[t].at = "using" => ap'.disp # "none",
         ap.disp = "none" => ap'.disp = "none" \/ met' \/ reconnect = None,
         device = None => device' = None \/ met' \/ reconnect = None,
         promised' => promised /\ (device # None => device' # None) /\ (context => context')
  PROVE  IInv'
<1>1. \A t \in Fetchers : Rebuilding(t)' <=> Rebuilding(t)
  BY DEF Rebuilding
<1>2. MutexHeld'
  BY <1>1 DEF IInv, MutexHeld
<1>3. ASSUME NEW t \in Fetchers, doing'[t].at \in {"open", "login"} \/ Bereft(t)'
      PROVE  doing'[t] = doing[t] /\ reconnect = t /\ reconnect # None
  BY <1>1, <1>3, Members DEF IInv, MutexHeld, Rebuilding, Bereft
<1>4. ApKept'
  BY <1>3 DEF IInv, ApKept
<1>5. NoDevice'
  BY <1>3 DEF IInv, NoDevice, Bereft
<1>6. ASSUME NEW t \in Fetchers, reconnect = t
      PROVE  doing'[t] = doing[t]
  BY <1>6 DEF IInv, MutexHeld
<1>7. ContextSafe'
  BY <1>6 DEF IInv, ContextSafe, Saved
<1> QED
  BY <1>2, <1>4, <1>5, <1>7 DEF IInv

\* So does a step of the holder of reconnect_m.
LEMMA HolderKeeps ==
  ASSUME IInv, TypeOK', Tasks', ContextSafe', NEW t \in Fetchers,
         \A u \in Fetchers : u # t => doing'[u] = doing[u],
         reconnect \in {t, None}, reconnect' \in {t, None}, reconnect' = t <=> Rebuilding(t)',
         io' = io, doing[t].at # "using", doing'[t].at # "using",
         ap'.disp # "none" \/ ap.disp = "none" \/ io = None,
         doing'[t].at \in {"open", "login"} => ap'.disp = "none" \/ met',
         Bereft(t)' => device' = None \/ met'
  PROVE  IInv'
<1>1. \A u \in Fetchers : u # t => (Rebuilding(u)' <=> Rebuilding(u))
  BY DEF Rebuilding
<1>2. MutexHeld'
  BY <1>1, Members DEF IInv, MutexHeld
<1>3. \A u \in Fetchers : u # t => ~Rebuilding(u)
  BY Members DEF IInv, MutexHeld
<1>4. ASSUME NEW u \in Fetchers, u # t
      PROVE  doing'[u].at \notin {"open", "login"} /\ ~Bereft(u)'
  BY <1>3, <1>4 DEF Rebuilding, Bereft
<1>5. ApKept'
  BY <1>4, Members DEF IInv, ApKept, MutexHeld
<1>6. NoDevice'
  BY <1>4 DEF NoDevice
<1> QED
  BY <1>2, <1>5, <1>6 DEF IInv

\* What the step of one closer says of the other threads.
LEMMA OthersStay ==
  ASSUME Tasks, NEW t \in Closers, Alone(t)
  PROVE  /\ \A s \in Closers : s # t => doing'[s] = doing[s]
         /\ \A d \in Devices : ReaderTask(doing'[d])
BY Members DEF Tasks, Alone

\* A host's step: it holds neither reconnect_m nor ap_io_m.
LEMMA HostKeeps ==
  ASSUME IInv, TypeOK', NEW h \in Hosts, UNCHANGED <<reconnect, io>>, met => met',
         \A s \in Closers : s # h => doing'[s] = doing[s],
         \A d \in Devices : ReaderTask(doing'[d]),
         HostTask(doing'[h]),
         ap'.disp # "none" \/ ap.disp = "none" \/ io = None,
         ap.disp = "none" => ap'.disp = "none" \/ met' \/ reconnect = None,
         device = None => device' = None \/ met' \/ reconnect = None,
         promised' => promised /\ (device # None => device' # None) /\ (context => context')
  PROVE  IInv'
<1>1. Tasks'
  BY Members DEF IInv, Tasks
<1>2. \A t \in Fetchers : doing'[t] = doing[t]
  BY Members
<1>3. \A t \in Fetchers : /\ io' = t <=> doing'[t].at = "using"
                          /\ doing'[t].at = "using" => ap'.disp # "none"
  BY <1>2, Members DEF IInv, MutexHeld, ApKept
<1> QED
  BY <1>1, <1>2, <1>3, BystandersKeep

\* A step of the fetcher that holds reconnect_m, or takes it.
LEMMA FetcherKeeps ==
  ASSUME IInv, TypeOK', ContextSafe', NEW t \in Fetchers, io' = io,
         \A s \in Closers : s # t => doing'[s] = doing[s],
         \A d \in Devices : ReaderTask(doing'[d]),
         FetcherTask(doing'[t]),
         reconnect \in {t, None}, reconnect' \in {t, None}, reconnect' = t <=> Rebuilding(t)',
         doing[t].at # "using", doing'[t].at # "using",
         ap'.disp # "none" \/ ap.disp = "none" \/ io = None,
         doing'[t].at \in {"open", "login"} => ap'.disp = "none" \/ met',
         Bereft(t)' => device' = None \/ met'
  PROVE  IInv'
<1>1. Tasks'
  BY Members DEF IInv, Tasks
<1>2. \A u \in Fetchers : u # t => doing'[u] = doing[u]
  BY Members
<1> QED
  BY <1>1, <1>2, HolderKeeps

-----------------------------------------------------------------------------
(* Logging in keeps the invariant.                                         *)

\* Who logs in, tears down or launches: a host, or the holder of reconnect_m.
LEMMA Rebuilders ==
  ASSUME IInv, NEW t \in Closers, Rebuilding(t)
  PROVE  t \in Hosts \/ (t \in Fetchers /\ reconnect = t)
BY DEF IInv, MutexHeld, Closers

\* The socket that was there goes, and a new one is opened, or not.
LEMMA OpenApKeeps ==
  ASSUME IInv, NEW t \in Closers, OpenAp(t)
  PROVE  IInv'
<1>1. DoingTyped /\ t \in Threads /\ doing[t].at = "open"
  BY Members DEF IInv, TypeOK, DoingTyped, OpenAp, At
<1>2. /\ Alone(t)
      /\ doing'[t].why = doing[t].why /\ doing'[t].seed = doing[t].seed
      /\ doing'[t].at \in {"open", "login", "failed"}
  BY <1>1, GoAt DEF Places, OpenAp, Alone, DoingTyped
<1>3. /\ ap' \in [disp : {"none", "live", "dead"}, by : Closers \cup {None}]
      /\ ap.disp = "none" <=> ap'.disp = "none"
  BY DEF IInv, TypeOK, OpenAp
<1>4. /\ UNCHANGED <<deviceVars, context, blob, locks, stop, cancel, ghosts, counters>>
      /\ crashed' \in BOOLEAN
  BY DEF IInv, TypeOK, OpenAp
<1>5. DevicesHeld'
  BY <1>1, <1>2, <1>4, HeldByOthers DEF IInv, Alone, deviceVars
<1>6. TypeOK'
  BY <1>2, <1>3, <1>4, <1>5
  DEF IInv, TypeOK, Alone, deviceVars, locks, ghosts, counters
<1>7. /\ \A s \in Closers : s # t => doing'[s] = doing[s]
      /\ \A d \in Devices : ReaderTask(doing'[d])
  BY <1>2, OthersStay DEF IInv
<1>8. CASE t \in Hosts
  <2>1. HostTask(doing'[t])
    BY <1>1, <1>2, <1>8 DEF IInv, Tasks, HostTask
  <2> QED
    BY <1>3, <1>4, <1>6, <1>7, <1>8, <2>1, HostKeeps DEF locks, ghosts, deviceVars
<1>9. CASE t \in Fetchers /\ reconnect = t
  <2>1. FetcherTask(doing'[t]) /\ Rebuilding(t)'
    BY <1>1, <1>2, <1>9 DEF IInv, Tasks, FetcherTask, Rebuilding
  <2>2. doing'[t].at \in {"open", "login"} => ap'.disp = "none" \/ met'
    BY <1>1, <1>3, <1>4, <1>9 DEF IInv, ApKept, ghosts
  <2>3. Bereft(t)' => device' = None \/ met'
    BY <1>1, <1>2, <1>4, <1>9 DEF IInv, NoDevice, Bereft, ghosts, deviceVars
  <2>4. ContextSafe'
    BY <1>1, <1>2, <1>4, <1>9, Members
    DEF IInv, ContextSafe, Saved, ghosts, deviceVars, locks
  <2> QED
    BY <1>1, <1>2, <1>3, <1>4, <1>6, <1>7, <1>9, <2>1, <2>2, <2>3, <2>4, FetcherKeeps
    DEF locks
<1> QED
  BY <1>1, <1>8, <1>9, Rebuilders DEF Rebuilding

\* ensure_connected returns.
LEMMA ResumeMoves ==
  ASSUME DoingTyped, NEW t \in Threads, Resume(t)
  PROVE  Alone(t) /\ doing'[t].at = "use" /\ reconnect' = None
<1> DEFINE new == [doing[t] EXCEPT !.at = "use", !.why = "none", !.seed = FALSE]
<1>1. doing[t] \in Task /\ "use" \in Places /\ "none" \in Whys
  BY DEF DoingTyped, Places, Whys
<1>2. new \in Task /\ new.at = "use"
  BY <1>1 DEF Task
<1>3. doing' = [doing EXCEPT ![t] = new] /\ reconnect' = None
  BY DEF Resume, DoingTyped
<1> HIDE DEF new
<1> QED
  BY <1>2, <1>3, SetAt

\* The handshake and the login succeed, or are refused.
LEMMA LoginKeeps ==
  ASSUME IInv, NEW t \in Closers, Login(t)
  PROVE  IInv'
<1>1. DoingTyped /\ t \in Threads /\ doing[t].at = "login"
  BY Members DEF IInv, TypeOK, DoingTyped, Login, At
<1>2. /\ Alone(t)
      /\ \/ /\ doing[t].why = "relogin" /\ doing'[t].at = "use" /\ reconnect' = None
         \/ /\ doing[t].why # "relogin" /\ doing'[t].at = "init" /\ reconnect' = reconnect
            /\ doing'[t].why = IF Connecting(t) THEN "connect" ELSE doing[t].why
            /\ doing'[t].seed = doing[t].seed
         \/ /\ doing'[t].at = "failed" /\ doing'[t].why = doing[t].why
            /\ doing'[t].seed = doing[t].seed /\ reconnect' = reconnect
  <2>1. "init" \in Places /\ "failed" \in Places /\ "connect" \in Whys
    BY DEF Places, Whys
  <2>2. CASE doing[t].why = "relogin" /\ Resume(t)
    BY <1>1, <2>2, ResumeMoves
  <2>3. CASE doing[t].why # "relogin" /\ LoggedIn(t) /\ UNCHANGED reconnect
    <3>1. CASE Connecting(t)
      BY <1>1, <2>1, <2>3, <3>1, GoForAt DEF LoggedIn
    <3>2. CASE ~Connecting(t)
      BY <1>1, <2>1, <2>3, <3>2, GoAt DEF LoggedIn
    <3> QED
      BY <3>1, <3>2
  <2>4. CASE Go(t, "failed") /\ UNCHANGED reconnect
    BY <1>1, <2>1, <2>4, GoAt
  <2> QED
    BY <2>2, <2>3, <2>4 DEF Login
<1>3. /\ ap' \in [disp : {"none", "live", "dead"}, by : Closers \cup {None}]
      /\ ap' = ap \/ ap'.disp = "live"
      /\ blob' \in BOOLEAN /\ met' \in BOOLEAN
      /\ met => met'
      /\ ap' = ap \/ (t \in Hosts => met' \/ reconnect = None)
  <2>1. CASE UNCHANGED <<ap, blob, met>>
    BY <2>1 DEF IInv, TypeOK
  <2>2. CASE Welcome(t)
    <3>1. ap' = [disp |-> "live", by |-> None] /\ blob' \in BOOLEAN
      BY <2>2 DEF Welcome
    <3>2. met' = (met \/ (t \in Hosts /\ reconnect # None))
      BY <2>2 DEF Welcome
    <3>3. met' \in BOOLEAN /\ (met => met') /\ (t \in Hosts => met' \/ reconnect = None)
      BY <3>2, Zenon
    <3> QED
      BY <3>1, <3>3
  <2> QED
    BY <2>1, <2>2 DEF Login
<1>4. UNCHANGED <<deviceVars, context, io, transitions, stop, cancel, crashed, promised, counters>>
  BY DEF Login
<1>5. DevicesHeld'
  BY <1>1, <1>2, <1>4, HeldByOthers DEF IInv, Alone, deviceVars
<1>6. TypeOK'
  BY <1>2, <1>3, <1>4, <1>5 DEF IInv, TypeOK, Alone, deviceVars, counters
<1>7. /\ \A s \in Closers : s # t => doing'[s] = doing[s]
      /\ \A d \in Devices : ReaderTask(doing'[d])
  BY <1>2, OthersStay DEF IInv
<1>8. CASE t \in Hosts
  <2>1. doing[t].why \in {"cached", "oauth", "zeroconf"}
    BY <1>1, <1>8 DEF IInv, Tasks, HostTask
  <2>2. HostTask(doing'[t]) /\ reconnect' = reconnect
    BY <1>2, <2>1 DEF HostTask, Connecting
  <2> QED
    BY <1>3, <1>4, <1>6, <1>7, <1>8, <2>2, HostKeeps DEF deviceVars
<1>9. CASE t \in Fetchers /\ reconnect = t
  <2>1. doing[t].why \in {"relogin", "rebuild", "full"}
    BY <1>1, <1>9 DEF IInv, Tasks, FetcherTask
  <2>2. FetcherTask(doing'[t]) /\ (reconnect' = t <=> Rebuilding(t)')
    BY <1>2, <1>9, <2>1, Members DEF FetcherTask, Rebuilding, Connecting
  <2>3. Bereft(t)' => device' = None \/ met'
    BY <1>1, <1>2, <1>3, <1>4, <1>9, <2>1
    DEF IInv, NoDevice, Bereft, deviceVars, Connecting
  <2>4. ContextSafe'
    BY <1>1, <1>2, <1>4, <1>9, <2>1, Members
    DEF IInv, ContextSafe, Saved, deviceVars, Connecting
  <2> QED
    BY <1>1, <1>2, <1>3, <1>4, <1>6, <1>7, <1>9, <2>2, <2>3, <2>4, FetcherKeeps
<1> QED
  BY <1>1, <1>8, <1>9, Rebuilders DEF Rebuilding

\* The login finds its connection torn down.
LEMMA LoginTornKeeps ==
  ASSUME IInv, NEW t \in Closers, LoginTorn(t)
  PROVE  IInv'
<1>1. DoingTyped /\ t \in Threads /\ doing[t].at = "login"
  BY Members DEF IInv, TypeOK, DoingTyped, LoginTorn, At
<1>2. /\ Alone(t)
      /\ doing'[t].why = doing[t].why /\ doing'[t].seed = doing[t].seed
      /\ doing'[t].at \in {"login", "failed"}
  BY <1>1, GoAt DEF Places, LoginTorn, Alone, DoingTyped
<1>3. /\ UNCHANGED <<ap, deviceVars, context, blob, locks, stop, cancel, ghosts, counters>>
      /\ crashed' \in BOOLEAN
  BY DEF IInv, TypeOK, LoginTorn
<1>4. DevicesHeld'
  BY <1>1, <1>2, <1>3, HeldByOthers DEF IInv, Alone, deviceVars
<1>5. TypeOK'
  BY <1>2, <1>3, <1>4 DEF IInv, TypeOK, Alone, deviceVars, locks, ghosts, counters
<1>6. /\ \A s \in Closers : s # t => doing'[s] = doing[s]
      /\ \A d \in Devices : ReaderTask(doing'[d])
  BY <1>2, OthersStay DEF IInv
<1>7. CASE t \in Hosts
  <2>1. HostTask(doing'[t])
    BY <1>1, <1>2, <1>7 DEF IInv, Tasks, HostTask
  <2> QED
    BY <1>3, <1>5, <1>6, <1>7, <2>1, HostKeeps DEF locks, ghosts, deviceVars
<1>8. CASE t \in Fetchers /\ reconnect = t
  <2>1. FetcherTask(doing'[t]) /\ Rebuilding(t)'
    BY <1>1, <1>2, <1>8 DEF IInv, Tasks, FetcherTask, Rebuilding
  <2>2. /\ doing'[t].at \in {"open", "login"} => ap'.disp = "none" \/ met'
        /\ Bereft(t)' => device' = None \/ met'
    BY <1>1, <1>2, <1>3, <1>8 DEF IInv, ApKept, NoDevice, Bereft, ghosts, deviceVars
  <2>3. ContextSafe'
    BY <1>1, <1>2, <1>3, <1>8, Members
    DEF IInv, ContextSafe, Saved, ghosts, deviceVars, locks
  <2> QED
    BY <1>1, <1>2, <1>3, <1>5, <1>6, <1>8, <2>1, <2>2, <2>3, FetcherKeeps DEF locks
<1> QED
  BY <1>1, <1>7, <1>8, Rebuilders DEF Rebuilding

\* The token providers are replaced.
LEMMA InitProvidersKeeps ==
  ASSUME IInv, NEW t \in Closers, InitProviders(t)
  PROVE  IInv'
<1>1. DoingTyped /\ t \in Threads /\ doing[t].at = "init"
  BY Members DEF IInv, TypeOK, DoingTyped, InitProviders, At
<1>2. /\ Alone(t)
      /\ doing'[t].why = doing[t].why /\ doing'[t].seed = doing[t].seed
      /\ doing'[t].at \in {"init", "start"}
  BY <1>1, GoAt DEF Places, InitProviders, Alone, DoingTyped
<1>3. /\ UNCHANGED <<ap, deviceVars, context, blob, locks, stop, cancel, ghosts, counters>>
      /\ crashed' \in BOOLEAN
  BY DEF IInv, TypeOK, InitProviders
<1>4. DevicesHeld'
  BY <1>1, <1>2, <1>3, HeldByOthers DEF IInv, Alone, deviceVars
<1>5. TypeOK'
  BY <1>2, <1>3, <1>4 DEF IInv, TypeOK, Alone, deviceVars, locks, ghosts, counters
<1>6. /\ \A s \in Closers : s # t => doing'[s] = doing[s]
      /\ \A d \in Devices : ReaderTask(doing'[d])
  BY <1>2, OthersStay DEF IInv
<1>7. CASE t \in Hosts
  <2>1. HostTask(doing'[t])
    BY <1>1, <1>2, <1>7 DEF IInv, Tasks, HostTask
  <2> QED
    BY <1>3, <1>5, <1>6, <1>7, <2>1, HostKeeps DEF locks, ghosts, deviceVars
<1>8. CASE t \in Fetchers /\ reconnect = t
  <2>1. FetcherTask(doing'[t]) /\ Rebuilding(t)'
    BY <1>1, <1>2, <1>8 DEF IInv, Tasks, FetcherTask, Rebuilding
  <2>2. Bereft(t)' => device' = None \/ met'
    BY <1>1, <1>2, <1>3, <1>8
    DEF IInv, NoDevice, Bereft, Tasks, FetcherTask, ghosts, deviceVars
  <2>3. ContextSafe'
    BY <1>1, <1>2, <1>3, <1>8, Members
    DEF IInv, ContextSafe, Saved, ghosts, deviceVars, locks
  <2> QED
    BY <1>1, <1>2, <1>3, <1>5, <1>6, <1>8, <2>1, <2>2, <2>3, FetcherKeeps DEF locks
<1> QED
  BY <1>1, <1>7, <1>8, Rebuilders DEF Rebuilding

\* What the step of a closer and a device says of the other threads.
LEMMA OthersStayBut ==
  ASSUME Tasks, NEW t \in Closers, NEW d \in Devices \cup {None}, AloneBut(t, d),
         d \in Devices => ReaderTask(doing'[d])
  PROVE  /\ \A s \in Closers : s # t => doing'[s] = doing[s]
         /\ \A e \in Devices : ReaderTask(doing'[e])
         /\ \A e \in Devices : e # d => doing'[e] = doing[e]
BY Members DEF Tasks, AloneBut

\* A thread goes on with another device in hand.
With(task, place, d) == [task EXCEPT !.at = place, !.dev = d]

LEMMA WithAt ==
  ASSUME NEW task \in Task, NEW place \in Places, NEW d \in Devices \cup {None}
  PROVE  /\ With(task, place, d) \in Task
         /\ With(task, place, d).at = place /\ With(task, place, d).dev = d
         /\ With(task, place, d).why = task.why /\ With(task, place, d).seed = task.seed
BY DEF With, Task

\* A device's thread goes to another place.
Put(task, place) == [task EXCEPT !.at = place]

LEMMA PutAt ==
  ASSUME NEW task \in Task, NEW place \in Places
  PROVE  Put(task, place) \in Task /\ Put(task, place).at = place
BY DEF Put, Task

\* A device is made, and the old one, if any, is to be destroyed.
LEMMA MakeDeviceKeeps ==
  ASSUME IInv, NEW t \in Closers, MakeDevice(t)
  PROVE  IInv'
<1>1. DoingTyped /\ t \in Threads /\ doing[t].at = "start"
  BY Members DEF IInv, TypeOK, DoingTyped, MakeDevice, At
<1>2. PICK d \in Devices, place \in Places, dev \in Devices \cup {None} :
        /\ doing[d].at = "none" /\ device' = d
        /\ place = IF device = None THEN "launch" ELSE "replace"
        /\ dev = IF device = None THEN d ELSE device
        /\ doing' = [doing EXCEPT ![t].at = place, ![t].dev = dev, ![d].at = "new"]
  <2>1. PICK d \in Devices :
          /\ doing[d].at = "none" /\ device' = d
          /\ doing' = [doing EXCEPT
               ![t].at = IF device = None THEN "launch" ELSE "replace",
               ![t].dev = IF device = None THEN d ELSE device, ![d].at = "new"]
    BY DEF MakeDevice
  <2>2. "launch" \in Places /\ "replace" \in Places /\ device \in Devices \cup {None}
    BY DEF Places, IInv, TypeOK
  <2> QED
    BY <2>1, <2>2
<1>3. /\ device \in Devices \cup {None} /\ "new" \in Places
      /\ t # d /\ d \in Threads
      /\ doing[t] \in Task /\ doing[d] \in Task
  BY <1>1, Members DEF IInv, TypeOK, Places, DoingTyped
<1>4. doing' = [doing EXCEPT ![t] = With(doing[t], place, dev), ![d] = Put(doing[d], "new")]
  BY <1>1, <1>2, <1>3 DEF With, Put, DoingTyped
<1>5. /\ AloneBut(t, d)
      /\ doing'[t].at \in {"launch", "replace"} /\ doing'[t].at = place
      /\ doing'[t].dev = dev
      /\ doing'[t].why = doing[t].why /\ doing'[t].seed = doing[t].seed
      /\ doing'[d].at = "new"
  <2>1. /\ With(doing[t], place, dev) \in Task
        /\ With(doing[t], place, dev).at = place /\ With(doing[t], place, dev).dev = dev
        /\ With(doing[t], place, dev).why = doing[t].why
        /\ With(doing[t], place, dev).seed = doing[t].seed
    BY <1>2, <1>3, WithAt
  <2>2. Put(doing[d], "new") \in Task /\ Put(doing[d], "new").at = "new"
    BY <1>3, PutAt
  <2>3. /\ AloneBut(t, d)
        /\ doing'[t] = With(doing[t], place, dev) /\ doing'[d] = Put(doing[d], "new")
    BY <1>1, <1>3, <1>4, <2>1, <2>2 DEF DoingTyped, AloneBut
  <2> QED
    BY <1>2, <2>1, <2>2, <2>3
<1>6. /\ UNCHANGED <<ap, blob, locks, stop, cancel, crashed, counters>>
      /\ ~wsOpen' /\ ~context' /\ wsOpen' \in BOOLEAN /\ context' \in BOOLEAN
  BY DEF MakeDevice
<1>7. /\ promised' = (promised /\ t \notin Hosts)
      /\ met' = (met \/ (t \in Hosts /\ reconnect # None))
  BY DEF MakeDevice
<1>8. /\ promised' \in BOOLEAN /\ met' \in BOOLEAN
      /\ promised' => promised /\ t \notin Hosts
      /\ met => met'
      /\ t \in Hosts => met' \/ reconnect = None
  BY <1>7, Zenon
<1>9. DevicesHeld'
  <2>1. ASSUME NEW e \in Devices, e # d, doing'[e].at # "none"
        PROVE  \E s \in Closers : Destroys(s, e)'
    <3>1. doing[e].at # "none"
      BY <2>1, <1>5, Members DEF AloneBut
    <3>2. CASE e = device
      BY <1>2, <1>5, <3>2, Members DEF Destroys
    <3>3. CASE e # device
      <4>1. PICK s \in Closers : Destroys(s, e)
        BY <3>1, <3>3 DEF IInv, TypeOK, DevicesHeld
      <4>2. s # t
        BY <1>1, <4>1 DEF Destroys
      <4>3. doing'[s] = doing[s]
        BY <1>5, <4>2, Members DEF AloneBut
      <4> QED
        BY <4>1, <4>3 DEF Destroys
    <3> QED
      BY <3>2, <3>3
  <2> QED
    BY <1>2, <2>1 DEF DevicesHeld
<1>10. TypeOK'
  BY <1>2, <1>5, <1>6, <1>8, <1>9, SMTT(30) DEF IInv, TypeOK, AloneBut, locks, counters
<1>11. /\ \A s \in Closers : s # t => doing'[s] = doing[s]
       /\ \A e \in Devices : ReaderTask(doing'[e])
  BY <1>5, OthersStayBut DEF IInv, ReaderTask
<1>12. CASE t \in Hosts
  <2>1. HostTask(doing'[t])
    BY <1>1, <1>2, <1>5, <1>12 DEF IInv, Tasks, HostTask
  <2> QED
    BY <1>6, <1>8, <1>10, <1>11, <1>12, <2>1, HostKeeps DEF locks
<1>13. CASE t \in Fetchers /\ reconnect = t
  <2>1. FetcherTask(doing'[t]) /\ Rebuilding(t)' /\ ~Bereft(t)'
    BY <1>1, <1>2, <1>5, <1>13 DEF IInv, Tasks, FetcherTask, Rebuilding, Bereft
  <2>2. promised => Saved(doing[t])
    BY <1>13 DEF IInv, ContextSafe
  <2>3. doing[t].why \in {"rebuild", "full", "dealer"}
    BY <1>1, <1>13 DEF IInv, Tasks, FetcherTask
  <2>4. promised' => Saved(doing[t])'
    BY <1>1, <1>5, <1>8, <2>2, <2>3 DEF Saved
  <2>5. ContextSafe'
    BY <1>6, <1>13, <2>4, Members DEF ContextSafe, locks
  <2> QED
    BY <1>1, <1>2, <1>5, <1>6, <1>10, <1>11, <1>13, <2>1, <2>5, FetcherKeeps DEF locks
<1> QED
  BY <1>1, <1>12, <1>13, Rebuilders DEF Rebuilding

\* The old device is gone.
LEMMA ReplaceKeeps ==
  ASSUME IInv, NEW t \in Closers, Replace(t)
  PROVE  IInv'
<1>1. DoingTyped /\ t \in Threads /\ doing[t].at = "replace"
  BY Members DEF IInv, TypeOK, DoingTyped, Replace, At
<1>2. PICK d \in Devices \cup {None} : d = doing[t].dev
  BY <1>1 DEF DoingTyped, Task
<1>3. /\ device \in Devices \cup {None} /\ "launch" \in Places /\ t # d
      /\ doing[t] \in Task /\ Gone \in Task /\ Gone.at = "none"
  BY <1>1, Members, OtherEntries DEF IInv, TypeOK, Places, DoingTyped
<1>4. doing' = [doing EXCEPT ![t] = With(doing[t], "launch", device), ![d] = Gone]
  BY <1>1, <1>2, <1>3 DEF With, Replace, DoingTyped
<1>5. /\ AloneBut(t, d)
      /\ doing'[t].at = "launch"
      /\ doing'[t].why = doing[t].why /\ doing'[t].seed = doing[t].seed
      /\ d \in Devices => doing'[d].at = "none"
  <2>1. With(doing[t], "launch", device) \in Task
    BY <1>3, WithAt
  <2>2. /\ AloneBut(t, d)
        /\ doing'[t] = With(doing[t], "launch", device)
        /\ d \in Threads => doing'[d] = Gone
    BY <1>1, <1>3, <1>4, <2>1 DEF DoingTyped, AloneBut
  <2> QED
    BY <1>3, <2>2, WithAt, Members
<1>6. UNCHANGED <<ap, deviceVars, context, blob, locks, stop, cancel, crashed, ghosts, counters>>
  BY DEF Replace
<1>7. DevicesHeld'
  <2>1. ASSUME NEW e \in Devices, e # device, doing'[e].at # "none"
        PROVE  \E s \in Closers : Destroys(s, e)'
    <3>1. e # d /\ doing'[e] = doing[e]
      BY <2>1, <1>5, Members DEF AloneBut
    <3>2. PICK s \in Closers : Destroys(s, e)
      BY <2>1, <3>1 DEF IInv, TypeOK, DevicesHeld
    <3>3. s # t
      BY <1>2, <3>1, <3>2 DEF Destroys
    <3>4. doing'[s] = doing[s]
      BY <1>5, <3>3, Members DEF AloneBut
    <3> QED
      BY <3>2, <3>4 DEF Destroys
  <2> QED
    BY <1>6, <2>1 DEF DevicesHeld, deviceVars
<1>8. TypeOK'
  BY <1>5, <1>6, <1>7 DEF IInv, TypeOK, AloneBut, deviceVars, locks, ghosts, counters
<1>9. /\ \A s \in Closers : s # t => doing'[s] = doing[s]
      /\ \A e \in Devices : ReaderTask(doing'[e])
  BY <1>5, OthersStayBut DEF IInv, ReaderTask
<1>10. CASE t \in Hosts
  <2>1. HostTask(doing'[t])
    BY <1>1, <1>5, <1>10 DEF IInv, Tasks, HostTask
  <2> QED
    BY <1>6, <1>8, <1>9, <1>10, <2>1, HostKeeps DEF locks, ghosts, deviceVars
<1>11. CASE t \in Fetchers /\ reconnect = t
  <2>1. FetcherTask(doing'[t]) /\ Rebuilding(t)' /\ ~Bereft(t)'
    BY <1>1, <1>5, <1>11 DEF IInv, Tasks, FetcherTask, Rebuilding, Bereft
  <2>2. ContextSafe'
    BY <1>1, <1>5, <1>6, <1>11, Members
    DEF IInv, ContextSafe, Saved, Tasks, FetcherTask, locks, ghosts, deviceVars
  <2> QED
    BY <1>1, <1>5, <1>6, <1>8, <1>9, <1>11, <2>1, <2>2, FetcherKeeps DEF locks
<1> QED
  BY <1>1, <1>10, <1>11, Rebuilders DEF Rebuilding

\* What a thread goes on with that has made its device.
LEMMA CompleteAt ==
  ASSUME IInv, NEW t \in Closers, doing[t].at = "launch"
  PROVE  /\ Complete(t) \in Task
         /\ t \in Hosts => Complete(t).at = "idle" /\ Complete(t).why = "none"
         /\ t \in Fetchers =>
              /\ Complete(t).at = "restore" /\ Complete(t).why = doing[t].why
              /\ Complete(t).seed = doing[t].seed
              /\ doing[t].why \in {"rebuild", "full", "dealer"}
<1>1. doing[t] \in Task /\ "restore" \in Places
  BY Members DEF IInv, TypeOK, Places
<1>2. t \in Hosts => Complete(t) = Idle
  BY DEF IInv, Tasks, HostTask, Complete, Connecting
<1>3. t \in Fetchers => /\ doing[t].why \in {"rebuild", "full", "dealer"}
                        /\ Complete(t) = With(doing[t], "restore", None)
  BY DEF IInv, Tasks, FetcherTask, Complete, Connecting, With
<1> QED
  BY <1>1, <1>2, <1>3, Entries, WithAt DEF Closers

\* start() registers the device and launches its reader, or drops it.
LEMMA StartSpircKeeps ==
  ASSUME IInv, NEW t \in Closers, StartSpirc(t)
  PROVE  IInv'
<1>1. /\ DoingTyped /\ t \in Threads /\ doing[t].at = "launch"
      /\ device \in Devices /\ t # device /\ device \in Threads /\ doing[device].at = "new"
  BY Members DEF IInv, TypeOK, DoingTyped, StartSpirc, At, Whole
<1>2. PICK y \in Task :
        /\ y.at \in {"loop", "none"}
        /\ doing' = [doing EXCEPT ![t] = Complete(t), ![device] = y]
        /\ \/ wsOpen' = TRUE /\ UNCHANGED <<device, promised>> /\ y.at = "loop"
           \/ device' = None /\ promised' = FALSE /\ y.at = "none" /\ UNCHANGED wsOpen
  <2>1. Put(doing[device], "loop") \in Task /\ Put(doing[device], "loop").at = "loop"
    BY <1>1, PutAt DEF DoingTyped, Places
  <2>2. Gone \in Task /\ Gone.at = "none"
    BY OtherEntries
  <2>3. CASE /\ wsOpen' = TRUE
             /\ doing' = [doing EXCEPT ![t] = Complete(t), ![device].at = "loop"]
             /\ UNCHANGED <<device, promised>>
    <3>1. doing' = [doing EXCEPT ![t] = Complete(t), ![device] = Put(doing[device], "loop")]
      BY <1>1, <2>3 DEF Put, DoingTyped
    <3> QED
      BY <2>1, <2>3, <3>1
  <2>4. CASE /\ device' = None /\ promised' = FALSE
             /\ doing' = [doing EXCEPT ![t] = Complete(t), ![device] = Gone]
             /\ UNCHANGED wsOpen
    BY <2>2, <2>4
  <2> QED
    BY <2>3, <2>4 DEF StartSpirc
<1>3. /\ Complete(t) \in Task
      /\ t \in Hosts => Complete(t).at = "idle" /\ Complete(t).why = "none"
      /\ t \in Fetchers =>
           /\ Complete(t).at = "restore" /\ Complete(t).why = doing[t].why
           /\ Complete(t).seed = doing[t].seed
           /\ doing[t].why \in {"rebuild", "full", "dealer"}
  BY <1>1, CompleteAt
<1>4. AloneBut(t, device) /\ doing'[t] = Complete(t) /\ doing'[device] = y
  BY <1>1, <1>2, <1>3 DEF DoingTyped, AloneBut
<1>5. /\ UNCHANGED <<ap, context, blob, locks, stop, cancel, crashed, met, counters>>
      /\ wsOpen' \in BOOLEAN /\ promised' \in BOOLEAN
      /\ promised' => promised /\ device' = device
      /\ device' \in {device, None} /\ (device' = None => y.at = "none")
  <2>1. /\ UNCHANGED <<ap, context, blob, locks, stop, cancel, crashed, met, counters>>
        /\ wsOpen \in BOOLEAN /\ promised \in BOOLEAN /\ device # None
    BY <1>1, Members DEF StartSpirc, IInv, TypeOK
  <2>2. CASE wsOpen' = TRUE /\ UNCHANGED <<device, promised>> /\ y.at = "loop"
    BY <2>1, <2>2
  <2>3. CASE device' = None /\ promised' = FALSE /\ y.at = "none" /\ UNCHANGED wsOpen
    BY <2>1, <2>3
  <2> QED
    BY <1>2, <2>2, <2>3
<1>6. DevicesHeld'
  <2>1. ASSUME NEW e \in Devices, e # device', doing'[e].at # "none"
        PROVE  \E s \in Closers : Destroys(s, e)'
    <3>1. e # device /\ doing'[e] = doing[e]
      BY <2>1, <1>4, <1>5, Members DEF AloneBut
    <3>2. PICK s \in Closers : Destroys(s, e)
      BY <2>1, <3>1 DEF IInv, TypeOK, DevicesHeld
    <3>3. s # t
      BY <1>1, <3>2 DEF Destroys
    <3>4. doing'[s] = doing[s]
      BY <1>1, <1>4, <3>3, Members DEF AloneBut
    <3> QED
      BY <3>2, <3>4 DEF Destroys
  <2> QED
    BY <2>1 DEF DevicesHeld
<1>7. TypeOK'
  BY <1>4, <1>5, <1>6 DEF IInv, TypeOK, AloneBut, locks, counters
<1>8. /\ \A s \in Closers : s # t => doing'[s] = doing[s]
      /\ \A e \in Devices : ReaderTask(doing'[e])
  BY <1>1, <1>2, <1>4, OthersStayBut DEF IInv, ReaderTask
<1>9. CASE t \in Hosts
  <2>1. HostTask(doing'[t])
    BY <1>3, <1>4, <1>9 DEF HostTask
  <2> QED
    BY <1>1, <1>5, <1>7, <1>8, <1>9, <2>1, Members, HostKeeps DEF locks
<1>10. CASE t \in Fetchers /\ reconnect = t
  <2>1. FetcherTask(doing'[t]) /\ Rebuilding(t)' /\ ~Bereft(t)'
    BY <1>3, <1>4, <1>10 DEF FetcherTask, Rebuilding, Bereft
  <2>2. promised => Saved(doing[t])
    BY <1>10 DEF IInv, ContextSafe
  <2>3. promised' => Saved(doing[t])'
    BY <1>1, <1>3, <1>4, <1>5, <1>10, <2>2, Members DEF Saved
  <2>4. ContextSafe'
    BY <1>5, <1>10, <2>3, Members DEF ContextSafe, locks
  <2> QED
    BY <1>1, <1>3, <1>4, <1>5, <1>7, <1>8, <1>10, <2>1, <2>4, FetcherKeeps DEF locks
<1> QED
  BY <1>1, <1>9, <1>10, Rebuilders DEF Rebuilding

\* start() finds its device gone, replaced or started.
LEMMA StartTornKeeps ==
  ASSUME IInv, NEW t \in Closers, StartTorn(t)
  PROVE  IInv'
<1>1. DoingTyped /\ t \in Threads /\ doing[t].at = "launch"
  BY Members DEF IInv, TypeOK, DoingTyped, StartTorn, At
<1>2. /\ Complete(t) \in Task
      /\ t \in Hosts => Complete(t).at = "idle" /\ Complete(t).why = "none"
      /\ t \in Fetchers =>
           /\ Complete(t).at = "restore" /\ Complete(t).why = doing[t].why
           /\ Complete(t).seed = doing[t].seed
           /\ doing[t].why \in {"rebuild", "full", "dealer"}
  BY <1>1, CompleteAt
<1>3. /\ UNCHANGED <<ap, deviceVars, context, blob, locks, stop, cancel, met, counters>>
      /\ crashed' \in BOOLEAN /\ promised' \in BOOLEAN /\ (promised' => promised)
      /\ Alone(t)
      /\ \/ doing'[t] = Complete(t) /\ ~promised'
         \/ doing'[t] = doing[t]
  <2>1. /\ UNCHANGED <<ap, deviceVars, context, blob, locks, stop, cancel, met, counters>>
        /\ crashed \in BOOLEAN /\ promised \in BOOLEAN
    BY DEF IInv, TypeOK, StartTorn
  <2>2. CASE doing' = [doing EXCEPT ![t] = Complete(t)] /\ promised' = FALSE /\ UNCHANGED crashed
    BY <1>1, <1>2, <2>1, <2>2, SetAt
  <2>3. CASE crashed' = TRUE /\ UNCHANGED <<doing, promised>>
    BY <1>1, <2>1, <2>3 DEF Alone, DoingTyped
  <2> QED
    BY <2>2, <2>3 DEF StartTorn
<1>4. DevicesHeld'
  BY <1>1, <1>3, HeldByOthers DEF IInv, Alone, deviceVars
<1>5. TypeOK'
  BY <1>3, <1>4 DEF IInv, TypeOK, Alone, deviceVars, locks, counters
<1>6. /\ \A s \in Closers : s # t => doing'[s] = doing[s]
      /\ \A d \in Devices : ReaderTask(doing'[d])
  BY <1>3, OthersStay DEF IInv
<1>7. CASE t \in Hosts
  <2>1. HostTask(doing'[t])
    BY <1>2, <1>3, <1>7 DEF IInv, Tasks, HostTask
  <2> QED
    BY <1>3, <1>5, <1>6, <1>7, <2>1, HostKeeps DEF locks, deviceVars
<1>8. CASE t \in Fetchers /\ reconnect = t
  <2>1. FetcherTask(doing'[t]) /\ Rebuilding(t)' /\ ~Bereft(t)'
    BY <1>1, <1>2, <1>3, <1>8 DEF IInv, Tasks, FetcherTask, Rebuilding, Bereft
  <2>2. ContextSafe'
    BY <1>3, <1>8, Members DEF IInv, ContextSafe, Saved, locks, deviceVars
  <2> QED
    BY <1>1, <1>2, <1>3, <1>5, <1>6, <1>8, <2>1, <2>2, FetcherKeeps DEF locks
<1> QED
  BY <1>1, <1>7, <1>8, Rebuilders DEF Rebuilding

\* The seed is handed to the new device, and reconnect_m released.
LEMMA RestoreKeeps ==
  ASSUME IInv, NEW t \in Fetchers, Restore(t)
  PROVE  IInv'
<1>1. DoingTyped /\ t \in Closers /\ t \in Threads /\ doing[t].at = "restore"
  BY Members DEF IInv, TypeOK, DoingTyped, Restore, At
<1>2. Alone(t) /\ doing'[t].at = "use" /\ reconnect' = None
  BY <1>1, ResumeMoves DEF Restore
<1>3. /\ UNCHANGED <<ap, deviceVars, blob, io, transitions, stop, cancel, crashed, ghosts, counters>>
      /\ context' = (device # None /\ (context \/ doing[t].seed))
  BY DEF Restore
<1>4. context' \in BOOLEAN /\ (device # None /\ doing[t].seed => context')
  BY <1>3, Zenon
<1>5. DevicesHeld'
  BY <1>1, <1>2, <1>3, HeldByOthers DEF IInv, Alone, deviceVars
<1>6. TypeOK'
  BY <1>2, <1>3, <1>4, <1>5 DEF IInv, TypeOK, Alone, deviceVars, ghosts, counters
<1>7. /\ \A s \in Closers : s # t => doing'[s] = doing[s]
      /\ \A d \in Devices : ReaderTask(doing'[d])
  BY <1>1, <1>2, OthersStay DEF IInv
<1>8. reconnect = t
  BY <1>1 DEF IInv, MutexHeld, Rebuilding
<1>9. ContextSafe'
  BY <1>1, <1>2, <1>3, <1>4, <1>8, Members
  DEF IInv, ContextSafe, Saved, Tasks, FetcherTask, deviceVars, ghosts
<1>10. FetcherTask(doing'[t]) /\ ~Rebuilding(t)' /\ ~Bereft(t)'
  BY <1>2 DEF FetcherTask, Rebuilding, Bereft
<1> QED
  BY <1>1, <1>2, <1>3, <1>6, <1>7, <1>8, <1>9, <1>10, Members, FetcherKeeps

-----------------------------------------------------------------------------
(* ensure_connected keeps the invariant.                                   *)

\* A fetcher takes reconnect_m.
LEMMA EnsureConnectedKeeps ==
  ASSUME IInv, NEW t \in Fetchers, EnsureConnected(t)
  PROVE  IInv'
<1>1. DoingTyped /\ t \in Closers /\ t \in Threads /\ doing[t].at = "ensure"
  BY Members DEF IInv, TypeOK, DoingTyped, EnsureConnected, At
<1>2. Alone(t) /\ doing'[t].at = "test"
  BY <1>1, GoAt DEF Places, EnsureConnected
<1>3. /\ UNCHANGED <<ap, deviceVars, context, blob, io, transitions, stop, cancel, crashed, promised,
                     counters>>
      /\ met' = FALSE /\ reconnect = None /\ reconnect' = t
  BY DEF EnsureConnected
<1>4. DevicesHeld'
  BY <1>1, <1>2, <1>3, HeldByOthers DEF IInv, Alone, deviceVars
<1>5. TypeOK'
  <2>1. /\ doing' \in [Threads -> Task] /\ reconnect' \in Fetchers \cup {None}
        /\ met' \in BOOLEAN
    BY <1>2, <1>3 DEF Alone
  <2> QED
    BY <1>3, <1>4, <2>1 DEF IInv, TypeOK, deviceVars, counters
<1>6. /\ \A s \in Closers : s # t => doing'[s] = doing[s]
      /\ \A d \in Devices : ReaderTask(doing'[d])
  BY <1>1, <1>2, OthersStay DEF IInv
<1>7. ContextSafe'
  BY <1>2, <1>3, Members DEF IInv, ContextSafe, Saved, deviceVars
<1>8. FetcherTask(doing'[t]) /\ Rebuilding(t)' /\ ~Bereft(t)'
  BY <1>2 DEF FetcherTask, Rebuilding, Bereft
<1> QED
  BY <1>1, <1>2, <1>3, <1>5, <1>6, <1>7, <1>8, FetcherKeeps

\* ensure_connected returns false.
LEMMA FailEnsureMoves ==
  ASSUME DoingTyped, NEW t \in Threads, FailEnsure(t)
  PROVE  /\ Alone(t) /\ reconnect' = None
         /\ \/ doing'[t].at \in {"ensure", "idle", "run", "returned"}
            \/ doing'[t].at = "reset" /\ doing'[t].why = "retry"
BY FailFetchMoves, GiveUpMoves DEF FailEnsure

\* The examination ends ensure_connected ...
LEMMA ExamineEnds ==
  ASSUME IInv, NEW t \in Fetchers, Examine(t), Alive(t) \/ NoCredentials(t)
  PROVE  IInv'
<1>1. DoingTyped /\ t \in Closers /\ t \in Threads /\ doing[t].at = "test"
  BY Members DEF IInv, TypeOK, DoingTyped, Examine, At
<1>2. /\ Alone(t) /\ reconnect' = None
      /\ \/ doing'[t].at \in {"use", "ensure", "idle", "run", "returned"}
         \/ doing'[t].at = "reset" /\ doing'[t].why = "retry"
  BY <1>1, ResumeMoves, FailEnsureMoves DEF Alive, NoCredentials
<1>3. /\ UNCHANGED <<ap, deviceVars, context, blob, io, transitions, stop, cancel, crashed, met,
                     counters>>
      /\ promised' = promised
  BY DEF Examine, Alive, NoCredentials
<1>4. DevicesHeld'
  BY <1>1, <1>2, <1>3, HeldByOthers DEF IInv, Alone, deviceVars
<1>5. TypeOK'
  <2>1. /\ doing' \in [Threads -> Task] /\ reconnect' \in Fetchers \cup {None}
        /\ promised' \in BOOLEAN /\ cancel' \in BOOLEAN
    BY <1>2, <1>3 DEF IInv, TypeOK, Alone
  <2> QED
    BY <2>1, <1>3, <1>4 DEF IInv, TypeOK, deviceVars, counters
<1>6. /\ \A s \in Closers : s # t => doing'[s] = doing[s]
      /\ \A d \in Devices : ReaderTask(doing'[d])
  BY <1>1, <1>2, OthersStay DEF IInv
<1>7. reconnect = t
  BY <1>1 DEF IInv, MutexHeld, Rebuilding
<1>8. ContextSafe'
  BY <1>1, <1>2, <1>3, <1>7, Members DEF IInv, ContextSafe, Saved, deviceVars
<1>9. FetcherTask(doing'[t]) /\ ~Rebuilding(t)' /\ ~Bereft(t)'
  BY <1>2 DEF FetcherTask, Rebuilding, Bereft
<1> QED
  BY <1>1, <1>2, <1>3, <1>5, <1>6, <1>7, <1>8, <1>9, Members, FetcherKeeps

\* ... or chooses how to reconnect.  The strategies' first steps:
LEMMA StrategyMoves ==
  ASSUME IInv, NEW t \in Fetchers, OnlyAp(t) \/ Both(t) \/ OnlyDealer(t)
  PROVE  /\ Alone(t) /\ reconnect' = reconnect /\ promised' \in BOOLEAN
         /\ \/ /\ doing'[t].at = "reset" /\ doing'[t].why = "relogin"
               /\ promised' => device # None /\ context
            \/ doing'[t].at = "close" /\ doing'[t].why = "full" /\ ~promised'
            \/ /\ doing'[t].at = "close" /\ doing'[t].why = "dealer"
               /\ promised' => doing'[t].seed
<1>1. DoingTyped /\ t \in Threads /\ HasContext \in BOOLEAN /\ context \in BOOLEAN
  BY Members DEF IInv, TypeOK, DoingTyped, HasContext
<1>2. CASE OnlyAp(t)
  <2>1. Alone(t) /\ doing'[t].at = "reset" /\ doing'[t].why = "relogin"
    BY <1>1, <1>2, GoForAt DEF OnlyAp, Places, Whys
  <2>2. device # None /\ promised' = context /\ reconnect' = reconnect
    BY <1>2 DEF OnlyAp, DealerDead, Running
  <2> QED
    BY <1>1, <2>1, <2>2
<1>3. CASE Both(t)
  BY <1>1, <1>3, GoForAt DEF Both, Places, Whys
<1>4. CASE OnlyDealer(t)
  <2> DEFINE new == [doing[t] EXCEPT !.at = "close", !.why = "dealer", !.seed = HasContext]
  <2>1. doing[t] \in Task /\ "close" \in Places /\ "dealer" \in Whys
    BY <1>1 DEF DoingTyped, Places, Whys
  <2>2. new \in Task /\ new.at = "close" /\ new.why = "dealer" /\ new.seed = HasContext
    BY <1>1, <2>1 DEF Task
  <2>3. doing' = [doing EXCEPT ![t] = new]
    BY <1>1, <1>4 DEF OnlyDealer, DoingTyped
  <2>4. promised' = HasContext /\ reconnect' = reconnect
    BY <1>4 DEF OnlyDealer
  <2> HIDE DEF new
  <2> QED
    BY <1>1, <2>2, <2>3, <2>4, SetAt
<1> QED
  BY <1>2, <1>3, <1>4

LEMMA ExamineGoesOn ==
  ASSUME IInv, NEW t \in Fetchers, Examine(t), OnlyAp(t) \/ Both(t) \/ OnlyDealer(t)
  PROVE  IInv'
<1>1. DoingTyped /\ t \in Closers /\ t \in Threads /\ doing[t].at = "test"
  BY Members DEF IInv, TypeOK, DoingTyped, Examine, At
<1>2. /\ Alone(t) /\ reconnect' = reconnect /\ promised' \in BOOLEAN
      /\ \/ /\ doing'[t].at = "reset" /\ doing'[t].why = "relogin"
            /\ promised' => device # None /\ context
         \/ doing'[t].at = "close" /\ doing'[t].why = "full" /\ ~promised'
         \/ /\ doing'[t].at = "close" /\ doing'[t].why = "dealer"
            /\ promised' => doing'[t].seed
  BY StrategyMoves
<1>3. UNCHANGED <<ap, deviceVars, context, blob, io, transitions, stop, cancel, crashed, met, counters>>
  BY DEF Examine
<1>4. DevicesHeld'
  BY <1>1, <1>2, <1>3, HeldByOthers DEF IInv, Alone, deviceVars
<1>5. TypeOK'
  BY <1>2, <1>3, <1>4 DEF IInv, TypeOK, Alone, deviceVars, counters
<1>6. /\ \A s \in Closers : s # t => doing'[s] = doing[s]
      /\ \A d \in Devices : ReaderTask(doing'[d])
  BY <1>1, <1>2, OthersStay DEF IInv
<1>7. reconnect = t
  BY <1>1 DEF IInv, MutexHeld, Rebuilding
<1>8. ContextSafe'
  BY <1>2, <1>3, <1>7, Members DEF ContextSafe, Saved, deviceVars
<1>9. FetcherTask(doing'[t]) /\ Rebuilding(t)' /\ ~Bereft(t)'
  BY <1>2 DEF FetcherTask, Rebuilding, Bereft
<1> QED
  BY <1>1, <1>2, <1>3, <1>5, <1>6, <1>7, <1>8, <1>9, FetcherKeeps

LEMMA ExamineKeeps ==
  ASSUME IInv, NEW t \in Fetchers, Examine(t)
  PROVE  IInv'
BY ExamineEnds, ExamineGoesOn DEF Examine

\* connect's last way: a service that waits for credentials, or none.
LEMMA TryZeroconfMoves ==
  ASSUME DoingTyped, NEW t \in Threads, TryZeroconf(t)
  PROVE  /\ Alone(t) /\ cancel' = FALSE
         /\ \/ doing'[t].at = "wait" /\ doing'[t].why = "zeroconf"
            \/ doing'[t].at = "idle" /\ doing'[t].why = "none"
<1>1. CASE GoFor(t, "wait", "zeroconf")
  <2>1. "wait" \in Places /\ "zeroconf" \in Whys
    BY DEF Places, Whys
  <2> QED
    BY <1>1, <2>1, GoForAt DEF TryZeroconf
<1>2. CASE doing' = [doing EXCEPT ![t] = Idle]
  BY <1>2, SetAt, Entries DEF TryZeroconf
<1> QED
  BY <1>1, <1>2 DEF TryZeroconf

\* A login has failed: connect tries the next way ...
LEMMA FailedHostKeeps ==
  ASSUME IInv, NEW t \in Hosts, Failed(t)
  PROVE  IInv'
<1>1. /\ DoingTyped /\ t \in Closers /\ t \in Threads /\ doing[t].at = "failed"
      /\ doing[t].why \in {"cached", "oauth", "zeroconf"} /\ cancel \in BOOLEAN
  BY Members DEF IInv, TypeOK, DoingTyped, Failed, At, Tasks, HostTask
<1>2. /\ Alone(t) /\ UNCHANGED <<reconnect, promised>> /\ cancel' \in {cancel, FALSE}
      /\ \/ doing'[t].at = "close" /\ doing'[t].why = "cached"
         \/ doing'[t].at = "wait" /\ doing'[t].why = "zeroconf"
         \/ doing'[t].at = "idle" /\ doing'[t].why = "none"
  <2>1. CASE doing[t].why = "cached"
    BY <1>1, <2>1, GoAt DEF Failed, Places
  <2>2. CASE doing[t].why = "oauth"
    BY <1>1, <2>2, TryZeroconfMoves DEF Failed
  <2>3. CASE doing[t].why = "zeroconf"
    BY <1>1, <2>3, SetAt, Entries DEF Failed
  <2> QED
    BY <1>1, <2>1, <2>2, <2>3
<1>3. UNCHANGED <<ap, deviceVars, context, blob, io, transitions, stop, crashed, met, counters>>
  BY DEF Failed
<1>4. DevicesHeld'
  BY <1>1, <1>2, <1>3, HeldByOthers DEF IInv, Alone, deviceVars
<1>5. TypeOK'
  <2>1. /\ doing' \in [Threads -> Task] /\ reconnect' \in Fetchers \cup {None}
        /\ promised' \in BOOLEAN /\ cancel' \in BOOLEAN
    BY <1>1, <1>2 DEF IInv, TypeOK, Alone
  <2> QED
    BY <2>1, <1>3, <1>4 DEF IInv, TypeOK, deviceVars, counters
<1>6. /\ \A s \in Closers : s # t => doing'[s] = doing[s]
      /\ \A d \in Devices : ReaderTask(doing'[d])
  BY <1>1, <1>2, OthersStay DEF IInv
<1>7. HostTask(doing'[t])
  BY <1>2 DEF HostTask
<1> QED
  BY <1>2, <1>3, <1>5, <1>6, <1>7, HostKeeps DEF deviceVars

\* ... and ensure_connected falls back to a full rebuild, or fails.
LEMMA FailedFetcherKeeps ==
  ASSUME IInv, NEW t \in Fetchers, Failed(t)
  PROVE  IInv'
<1>1. /\ DoingTyped /\ t \in Closers /\ t \in Threads /\ doing[t].at = "failed"
      /\ doing[t].why \in {"relogin", "rebuild", "full"} /\ promised \in BOOLEAN
  BY Members DEF IInv, TypeOK, DoingTyped, Failed, At, Tasks, FetcherTask
<1>2. reconnect = t
  BY <1>1 DEF IInv, MutexHeld, Rebuilding
<1>3. /\ Alone(t) /\ cancel' = cancel
      /\ \/ /\ doing'[t].at = "close" /\ doing'[t].why = "rebuild"
            /\ doing'[t].seed = HasContext
            /\ UNCHANGED <<reconnect, promised>> /\ doing[t].why = "relogin"
         \/ /\ reconnect' = None /\ promised' = FALSE
            /\ \/ doing'[t].at \in {"ensure", "idle", "run", "returned"}
               \/ doing'[t].at = "reset" /\ doing'[t].why = "retry"
  <2>1. CASE doing[t].why = "relogin"
    <3> DEFINE new == [doing[t] EXCEPT !.at = "close", !.why = "rebuild", !.seed = HasContext]
    <3>1. /\ doing[t] \in Task /\ "close" \in Places /\ "rebuild" \in Whys
          /\ HasContext \in BOOLEAN
      BY <1>1 DEF DoingTyped, Places, Whys, HasContext, IInv, TypeOK
    <3>2. new \in Task /\ new.at = "close" /\ new.why = "rebuild" /\ new.seed = HasContext
      BY <3>1 DEF Task
    <3>3. doing' = [doing EXCEPT ![t] = new] /\ UNCHANGED <<reconnect, cancel, promised>>
      BY <1>1, <2>1 DEF Failed, DoingTyped
    <3> HIDE DEF new
    <3> QED
      BY <1>1, <2>1, <3>2, <3>3, SetAt
  <2>2. CASE doing[t].why \in {"rebuild", "full"}
    BY <1>1, <2>2, FailEnsureMoves DEF Failed
  <2> QED
    BY <1>1, <2>1, <2>2
<1>4. UNCHANGED <<ap, deviceVars, context, blob, io, transitions, stop, crashed, met, counters>>
  BY DEF Failed
<1>5. DevicesHeld'
  BY <1>1, <1>3, <1>4, HeldByOthers DEF IInv, Alone, deviceVars
<1>6. TypeOK'
  <2>1. /\ doing' \in [Threads -> Task] /\ reconnect' \in Fetchers \cup {None}
        /\ promised' \in BOOLEAN /\ cancel' \in BOOLEAN
    BY <1>1, <1>3 DEF IInv, TypeOK, Alone
  <2> QED
    BY <2>1, <1>4, <1>5 DEF IInv, TypeOK, deviceVars, counters
<1>7. /\ \A s \in Closers : s # t => doing'[s] = doing[s]
      /\ \A d \in Devices : ReaderTask(doing'[d])
  BY <1>1, <1>3, OthersStay DEF IInv
<1>8. promised => Saved(doing[t])
  BY <1>2 DEF IInv, ContextSafe
<1>9. ContextSafe'
  BY <1>1, <1>2, <1>3, <1>4, <1>8, Members DEF ContextSafe, Saved, HasContext, deviceVars
<1>10. FetcherTask(doing'[t]) /\ (reconnect' = t <=> Rebuilding(t)') /\ ~Bereft(t)'
  BY <1>2, <1>3, Members DEF FetcherTask, Rebuilding, Bereft
<1> QED
  BY <1>1, <1>2, <1>3, <1>4, <1>6, <1>7, <1>9, <1>10, FetcherKeeps

-----------------------------------------------------------------------------
(* Tearing down keeps the invariant.                                       *)

\* The device's socket is closed, and the device perhaps taken out of spirc.
LEMMA CloseApKeeps ==
  ASSUME IInv, NEW t \in Closers, CloseAp(t)
  PROVE  IInv'
<1>1. /\ DoingTyped /\ t \in Threads /\ doing[t].at = "close" /\ doing[t] \in Task
      /\ device \in Devices \cup {None} /\ context \in BOOLEAN
  BY Members DEF IInv, TypeOK, DoingTyped, CloseAp, At
<1>2. /\ t \in Hosts => doing[t].why \in {"cached", "disconnect"}
      /\ t \in Fetchers => doing[t].why \in {"rebuild", "full", "dealer"}
  BY <1>1 DEF IInv, Tasks, HostTask, FetcherTask
<1>3. /\ Alone(t)
      /\ doing'[t].why = doing[t].why /\ doing'[t].seed = doing[t].seed
      /\ \/ /\ device = None /\ doing'[t].at = Closed(t)
            /\ UNCHANGED <<device, context, wsOpen>>
         \/ /\ device # None /\ doing'[t].at = "join" /\ doing'[t].dev = device
            /\ wsOpen' = FALSE
            /\ \/ doing[t].why = "dealer" /\ device' = None /\ context' = FALSE
               \/ doing[t].why # "dealer" /\ UNCHANGED <<device, context>>
  <2>1. CASE device = None
    <3>1. Closed(t) \in Places
      BY DEF Closed, Places
    <3> QED
      BY <1>1, <2>1, <3>1, GoAt DEF CloseAp, deviceVars
  <2>2. CASE device # None
    <3>1. PICK new \in Task :
            /\ new.at = "join" /\ new.dev = device
            /\ new.why = doing[t].why /\ new.seed = doing[t].seed
            /\ new = With(doing[t], "join", device)
      <4>1. "join" \in Places
        BY DEF Places
      <4> QED
        BY <1>1, <4>1, WithAt
    <3>2. doing' = [doing EXCEPT ![t] = new]
      BY <1>1, <2>2, <3>1 DEF CloseAp, DoingTyped, With
    <3> QED
      BY <1>1, <2>2, <3>1, <3>2, SetAt DEF CloseAp
  <2> QED
    BY <2>1, <2>2
<1>4. UNCHANGED <<ap, blob, locks, stop, cancel, crashed, ghosts, counters>>
  BY DEF CloseAp
<1>5. DevicesHeld'
  <2>1. ASSUME NEW e \in Devices, e # device', doing'[e].at # "none"
        PROVE  \E s \in Closers : Destroys(s, e)'
    <3>1. doing'[e] = doing[e]
      BY <1>3, Members DEF Alone
    <3>2. CASE e = device
      BY <1>3, <2>1, <3>2, Members DEF Destroys
    <3>3. CASE e # device
      <4>1. PICK s \in Closers : Destroys(s, e)
        BY <2>1, <3>1, <3>3 DEF IInv, TypeOK, DevicesHeld
      <4>2. doing'[s] = doing[s]
        BY <1>1, <1>3, <4>1, Members DEF Alone, Destroys
      <4> QED
        BY <4>1, <4>2 DEF Destroys
    <3> QED
      BY <3>2, <3>3
  <2> QED
    BY <2>1 DEF DevicesHeld
<1>6. TypeOK'
  <2>1. /\ doing' \in [Threads -> Task] /\ device' \in Devices \cup {None}
        /\ wsOpen' \in BOOLEAN /\ context' \in BOOLEAN
    BY <1>1, <1>3 DEF Alone, IInv, TypeOK
  <2> QED
    BY <1>4, <1>5, <2>1 DEF IInv, TypeOK, locks, ghosts, counters
<1>7. /\ \A s \in Closers : s # t => doing'[s] = doing[s]
      /\ \A d \in Devices : ReaderTask(doing'[d])
  BY <1>3, OthersStay DEF IInv
<1>8. CASE t \in Hosts
  <2>1. HostTask(doing'[t]) /\ UNCHANGED <<device, context>>
    BY <1>2, <1>3, <1>8 DEF HostTask, Closed
  <2> QED
    BY <1>4, <1>6, <1>7, <1>8, <2>1, HostKeeps DEF locks, ghosts
<1>9. CASE t \in Fetchers /\ reconnect = t
  <2>1. FetcherTask(doing'[t]) /\ Rebuilding(t)' /\ (Bereft(t)' => device' = None)
    BY <1>2, <1>3, <1>9 DEF FetcherTask, Rebuilding, Bereft, Closed
  <2>2. promised => Saved(doing[t])
    BY <1>9 DEF IInv, ContextSafe
  <2>3. doing'[t].at \in {"join", "reset", "start"}
    BY <1>3 DEF Closed
  <2>4. promised => Saved(doing[t])'
    BY <1>1, <1>2, <1>3, <1>9, <2>2, <2>3 DEF Saved
  <2>5. ContextSafe'
    BY <1>4, <1>9, <2>4, Members DEF ContextSafe, locks, ghosts
  <2> QED
    BY <1>1, <1>4, <1>6, <1>7, <1>9, <2>1, <2>3, <2>5, FetcherKeeps DEF locks
<1> QED
  BY <1>1, <1>8, <1>9, Rebuilders DEF Rebuilding

\* The reader has ended, and the device is destroyed.
LEMMA JoinReaderKeeps ==
  ASSUME IInv, NEW t \in Closers, JoinReader(t)
  PROVE  IInv'
<1>1. /\ DoingTyped /\ t \in Threads /\ doing[t].at = "join" /\ doing[t] \in Task
      /\ device \in Devices \cup {None} /\ context \in BOOLEAN /\ promised \in BOOLEAN
      /\ Gone \in Task /\ Gone.at = "none"
  BY Members, OtherEntries DEF IInv, TypeOK, DoingTyped, JoinReader, At
<1>2. PICK d \in Devices \cup {None} : d = doing[t].dev
  BY <1>1 DEF Task
<1>3. /\ t # d /\ (Destroys(t, d) \/ device = d)
      /\ t \in Hosts => doing[t].why \in {"cached", "disconnect"}
      /\ t \in Fetchers => doing[t].why \in {"rebuild", "full", "dealer"}
  BY <1>1, <1>2, Members DEF JoinReader, IInv, Tasks, HostTask, FetcherTask
<1>4. PICK new \in Task :
        /\ new.at = Closed(t) /\ new.why = doing[t].why /\ new.seed = doing[t].seed
        /\ new = With(doing[t], Closed(t), None)
  <2>1. Closed(t) \in Places
    BY DEF Closed, Places
  <2> QED
    BY <1>1, <2>1, WithAt
<1>5. doing' = [doing EXCEPT ![t] = new, ![d] = Gone]
  BY <1>1, <1>2, <1>3, <1>4 DEF JoinReader, DoingTyped, With
<1>6. /\ AloneBut(t, d) /\ doing'[t] = new
      /\ d \in Devices => doing'[d].at = "none"
  BY <1>1, <1>3, <1>4, <1>5, Members DEF DoingTyped, AloneBut
<1>7. /\ UNCHANGED <<ap, wsOpen, blob, locks, stop, cancel, crashed, met, counters>>
      /\ \/ device = d /\ device' = None /\ context' = FALSE
         \/ device # d /\ UNCHANGED <<device, context>>
      /\ promised' = (promised /\ t \notin Hosts)
  BY <1>2 DEF JoinReader
<1>8. promised' \in BOOLEAN /\ (promised' => promised /\ t \notin Hosts)
  BY <1>7, Zenon
<1>9. DevicesHeld'
  <2>1. ASSUME NEW e \in Devices, e # device', doing'[e].at # "none"
        PROVE  \E s \in Closers : Destroys(s, e)'
    <3>1. e # d /\ e # device /\ doing'[e] = doing[e]
      BY <1>6, <1>7, <2>1, Members DEF AloneBut
    <3>2. PICK s \in Closers : Destroys(s, e)
      BY <2>1, <3>1 DEF IInv, TypeOK, DevicesHeld
    <3>3. s # t
      BY <1>2, <3>1, <3>2 DEF Destroys
    <3>4. doing'[s] = doing[s]
      BY <1>2, <1>6, <3>3, Members DEF AloneBut
    <3> QED
      BY <3>2, <3>4 DEF Destroys
  <2> QED
    BY <2>1 DEF DevicesHeld
<1>10. TypeOK'
  <2>1. /\ doing' \in [Threads -> Task] /\ device' \in Devices \cup {None}
        /\ context' \in BOOLEAN
    BY <1>1, <1>6, <1>7 DEF AloneBut
  <2> QED
    BY <1>7, <1>8, <1>9, <2>1 DEF IInv, TypeOK, locks, counters
<1>11. /\ \A s \in Closers : s # t => doing'[s] = doing[s]
       /\ \A e \in Devices : ReaderTask(doing'[e])
  BY <1>6, OthersStayBut DEF IInv, ReaderTask
<1>12. CASE t \in Hosts
  <2>1. HostTask(doing'[t])
    BY <1>3, <1>4, <1>6, <1>12 DEF HostTask, Closed
  <2>2. device = None => device' = None
    BY <1>7
  <2> QED
    BY <1>7, <1>8, <1>10, <1>11, <1>12, <2>1, <2>2, HostKeeps DEF locks
<1>13. CASE t \in Fetchers /\ reconnect = t
  <2>1. FetcherTask(doing'[t]) /\ Rebuilding(t)'
    BY <1>3, <1>4, <1>6, <1>13 DEF FetcherTask, Rebuilding, Closed
  <2>2. Bereft(t)' => device' = None \/ met'
    BY <1>1, <1>3, <1>7, <1>13 DEF IInv, NoDevice, Bereft, Destroys
  <2>3. promised => Saved(doing[t])
    BY <1>13 DEF IInv, ContextSafe
  <2>4. doing'[t].at \in {"reset", "start"}
    BY <1>4, <1>6 DEF Closed
  <2>5. promised' => Saved(doing[t])'
    BY <1>1, <1>3, <1>4, <1>6, <1>8, <1>13, <2>3, <2>4 DEF Saved
  <2>6. ContextSafe'
    BY <1>7, <1>13, <2>5, Members DEF ContextSafe, locks
  <2> QED
    BY <1>1, <1>7, <1>10, <1>11, <1>13, <2>1, <2>2, <2>4, <2>6, FetcherKeeps DEF locks
<1> QED
  BY <1>1, <1>12, <1>13, Rebuilders DEF Rebuilding

\* Another thread has destroyed the device, or does so.
LEMMA JoinTornKeeps ==
  ASSUME IInv, NEW t \in Closers, JoinTorn(t)
  PROVE  IInv'
<1>1. /\ DoingTyped /\ t \in Threads /\ doing[t].at = "join" /\ doing[t] \in Task
      /\ ~Destroys(t, doing[t].dev)
  BY Members DEF IInv, TypeOK, DoingTyped, JoinTorn, At
<1>2. /\ t \in Hosts => doing[t].why \in {"cached", "disconnect"}
      /\ t \in Fetchers => doing[t].why \in {"rebuild", "full"}
  BY <1>1 DEF IInv, Tasks, HostTask, FetcherTask, Destroys
<1>3. /\ Alone(t) /\ crashed' \in BOOLEAN
      /\ doing'[t].why = doing[t].why /\ doing'[t].seed = doing[t].seed
      /\ doing'[t].at \in {"close", "join"}
  <2>1. PICK new \in Task :
          /\ new.at = "close" /\ new.why = doing[t].why /\ new.seed = doing[t].seed
          /\ new = With(doing[t], "close", None)
    BY <1>1, WithAt DEF Places
  <2>2. CASE crashed' = crashed /\ doing' = [doing EXCEPT ![t].at = "close", ![t].dev = None]
    <3>1. doing' = [doing EXCEPT ![t] = new]
      BY <1>1, <2>1, <2>2 DEF DoingTyped, With
    <3> QED
      BY <1>1, <2>1, <2>2, <3>1, SetAt DEF IInv, TypeOK
  <2>3. CASE crashed' = TRUE /\ doing' = doing
    BY <1>1, <2>3 DEF Alone, DoingTyped
  <2> QED
    BY <2>2, <2>3 DEF JoinTorn
<1>4. UNCHANGED <<ap, deviceVars, context, blob, locks, stop, cancel, ghosts, counters>>
  BY DEF JoinTorn
<1>5. DevicesHeld'
  <2>1. ASSUME NEW e \in Devices, e # device, doing'[e].at # "none"
        PROVE  \E s \in Closers : Destroys(s, e)'
    <3>1. doing'[e] = doing[e]
      BY <1>3, Members DEF Alone
    <3>2. PICK s \in Closers : Destroys(s, e)
      BY <2>1, <3>1 DEF IInv, TypeOK, DevicesHeld
    <3>3. s # t
      BY <1>1, <3>2 DEF Destroys
    <3>4. doing'[s] = doing[s]
      BY <1>3, <3>3, Members DEF Alone
    <3> QED
      BY <3>2, <3>4 DEF Destroys
  <2> QED
    BY <1>4, <2>1 DEF DevicesHeld, deviceVars
<1>6. TypeOK'
  BY <1>3, <1>4, <1>5 DEF IInv, TypeOK, Alone, deviceVars, locks, ghosts, counters
<1>7. /\ \A s \in Closers : s # t => doing'[s] = doing[s]
      /\ \A d \in Devices : ReaderTask(doing'[d])
  BY <1>3, OthersStay DEF IInv
<1>8. CASE t \in Hosts
  <2>1. HostTask(doing'[t])
    BY <1>2, <1>3, <1>8 DEF HostTask
  <2> QED
    BY <1>4, <1>6, <1>7, <1>8, <2>1, HostKeeps DEF locks, ghosts, deviceVars
<1>9. CASE t \in Fetchers /\ reconnect = t
  <2>1. FetcherTask(doing'[t]) /\ Rebuilding(t)' /\ ~Bereft(t)'
    BY <1>2, <1>3, <1>9 DEF FetcherTask, Rebuilding, Bereft
  <2>2. ContextSafe'
    BY <1>1, <1>2, <1>3, <1>4, <1>9, Members
    DEF IInv, ContextSafe, Saved, locks, ghosts, deviceVars
  <2> QED
    BY <1>1, <1>3, <1>4, <1>6, <1>7, <1>9, <2>1, <2>2, FetcherKeeps DEF locks
<1> QED
  BY <1>1, <1>8, <1>9, Rebuilders DEF Rebuilding

\* What comes after a reset.
LEMMA AfterResetMoves ==
  ASSUME DoingTyped, NEW t \in Threads, AfterReset(t)
  PROVE  /\ Alone(t)
         /\ \/ /\ doing[t].why \in {"relogin", "rebuild", "full"} /\ cancel' = cancel
               /\ doing'[t].at = "open"
               /\ doing'[t].why = doing[t].why /\ doing'[t].seed = doing[t].seed
            \/ doing[t].why = "retry" /\ doing'[t].at = "ensure" /\ cancel' = cancel
            \/ /\ doing[t].why = "cached" /\ cancel' \in {cancel, FALSE}
               /\ \/ doing'[t].at = "open" /\ doing'[t].why = "oauth"
                  \/ doing'[t].at = "wait" /\ doing'[t].why = "zeroconf"
                  \/ doing'[t].at = "idle" /\ doing'[t].why = "none"
            \/ /\ doing[t].why \notin {"relogin", "rebuild", "full", "retry", "cached"}
               /\ cancel' = cancel
               /\ doing'[t].at = "idle" /\ doing'[t].why = "none"
<1>1. CASE doing[t].why \in {"relogin", "rebuild", "full"}
  BY <1>1, GoAt DEF AfterReset, Places
<1>2. CASE doing[t].why = "retry"
  <2> DEFINE new == [doing[t] EXCEPT !.at = "ensure", !.why = "none", !.tries = 2]
  <2>1. doing[t] \in Task /\ "ensure" \in Places /\ "none" \in Whys /\ 2 \in 0 .. 2
    BY DEF DoingTyped, Places, Whys
  <2>2. new \in Task /\ new.at = "ensure"
    BY <2>1 DEF Task
  <2>3. doing' = [doing EXCEPT ![t] = new] /\ cancel' = cancel
    BY <1>2 DEF AfterReset, DoingTyped
  <2> HIDE DEF new
  <2> QED
    BY <1>2, <2>2, <2>3, SetAt
<1>3. CASE doing[t].why = "cached"
  <2>1. \/ GoFor(t, "open", "oauth") /\ cancel' = cancel
        \/ TryZeroconf(t)
    BY <1>3 DEF AfterReset
  <2> QED
    BY <1>3, <2>1, GoForAt, TryZeroconfMoves DEF Places, Whys
<1>4. CASE doing[t].why \notin {"relogin", "rebuild", "full", "retry", "cached"}
  BY <1>4, SetAt, Entries DEF AfterReset
<1> QED
  BY <1>1, <1>2, <1>3, <1>4

\* The access point is reset by a host,
LEMMA ResetApHostKeeps ==
  ASSUME IInv, NEW t \in Hosts, ResetAp(t)
  PROVE  IInv'
<1>1. /\ DoingTyped /\ t \in Closers /\ t \in Threads /\ doing[t].at = "reset"
      /\ doing[t].why \in {"cached", "disconnect"} /\ cancel \in BOOLEAN
  BY Members DEF IInv, TypeOK, DoingTyped, ResetAp, At, Tasks, HostTask
<1>2. /\ ap' \in [disp : {"none", "live", "dead"}, by : Closers \cup {None}]
      /\ ap'.disp = "none" /\ io = None
      /\ UNCHANGED <<deviceVars, context, blob, locks, stop, crashed, ghosts, counters>>
  BY DEF ResetAp, NoAp
<1>3. Alone(t) /\ cancel' \in BOOLEAN /\ HostTask(doing'[t])
  BY <1>1, AfterResetMoves DEF ResetAp, HostTask
<1>4. DevicesHeld'
  BY <1>1, <1>2, <1>3, HeldByOthers DEF IInv, Alone, deviceVars
<1>5. TypeOK'
  BY <1>2, <1>3, <1>4 DEF IInv, TypeOK, Alone, deviceVars, locks, ghosts, counters
<1>6. /\ \A s \in Closers : s # t => doing'[s] = doing[s]
      /\ \A d \in Devices : ReaderTask(doing'[d])
  BY <1>1, <1>3, OthersStay DEF IInv
<1> QED
  BY <1>2, <1>3, <1>5, <1>6, HostKeeps DEF locks, ghosts, deviceVars

\* by the holder of reconnect_m, or by a fetcher between two attempts.
LEMMA ResetApFetcherKeeps ==
  ASSUME IInv, NEW t \in Fetchers, ResetAp(t)
  PROVE  IInv'
<1>1. /\ DoingTyped /\ t \in Closers /\ t \in Threads /\ doing[t].at = "reset"
      /\ doing[t].why \in {"relogin", "rebuild", "full", "retry"}
  BY Members DEF IInv, TypeOK, DoingTyped, ResetAp, At, Tasks, FetcherTask
<1>2. /\ ap' \in [disp : {"none", "live", "dead"}, by : Closers \cup {None}]
      /\ ap'.disp = "none" /\ io = None
      /\ UNCHANGED <<deviceVars, context, blob, locks, stop, crashed, ghosts, counters>>
  BY DEF ResetAp, NoAp
<1>3. /\ Alone(t) /\ cancel' = cancel
      /\ \/ /\ doing[t].why \in {"relogin", "rebuild", "full"} /\ doing'[t].at = "open"
            /\ doing'[t].why = doing[t].why /\ doing'[t].seed = doing[t].seed
         \/ doing[t].why = "retry" /\ doing'[t].at = "ensure"
  BY <1>1, AfterResetMoves DEF ResetAp
<1>4. DevicesHeld'
  BY <1>1, <1>2, <1>3, HeldByOthers DEF IInv, Alone, deviceVars
<1>5. TypeOK'
  BY <1>2, <1>3, <1>4 DEF IInv, TypeOK, Alone, deviceVars, locks, ghosts, counters
<1>6. /\ \A s \in Closers : s # t => doing'[s] = doing[s]
      /\ \A d \in Devices : ReaderTask(doing'[d])
  BY <1>1, <1>3, OthersStay DEF IInv
<1>7. CASE doing[t].why = "retry"
  <2>1. Tasks' /\ ~Rebuilding(t) /\ ~Rebuilding(t)'
    BY <1>1, <1>3, <1>6, <1>7, Members DEF IInv, Tasks, FetcherTask, Rebuilding
  <2>2. \A u \in Fetchers : /\ io' = u <=> doing'[u].at = "using"
                            /\ doing'[u].at # "using"
    BY <1>1, <1>2, <1>3, <1>6, <1>7, Members DEF IInv, MutexHeld, locks
  <2>3. \A u \in Fetchers : u # t => doing'[u] = doing[u]
    BY <1>6, Members
  <2> QED
    BY <1>2, <1>5, <2>1, <2>2, <2>3, BystandersKeep DEF locks, ghosts, deviceVars
<1>8. CASE doing[t].why # "retry"
  <2>1. reconnect = t
    BY <1>1, <1>8 DEF IInv, MutexHeld, Rebuilding
  <2>2. FetcherTask(doing'[t]) /\ Rebuilding(t)'
    BY <1>3, <1>8 DEF FetcherTask, Rebuilding
  <2>3. Bereft(t)' => device' = None \/ met'
    BY <1>1, <1>2, <1>3, <1>8 DEF IInv, NoDevice, Bereft, ghosts, deviceVars
  <2>4. ContextSafe'
    BY <1>1, <1>2, <1>3, <1>8, <2>1, Members
    DEF IInv, ContextSafe, Saved, locks, ghosts, deviceVars
  <2> QED
    BY <1>1, <1>2, <1>3, <1>5, <1>6, <1>8, <2>1, <2>2, <2>3, <2>4, FetcherKeeps DEF locks
<1> QED
  BY <1>7, <1>8

LEMMA ResetApKeeps ==
  ASSUME IInv, NEW t \in Closers, ResetAp(t)
  PROVE  IInv'
BY ResetApHostKeeps, ResetApFetcherKeeps DEF Closers

-----------------------------------------------------------------------------
(* Fetching keeps the invariant.                                           *)

\* A fetcher goes on that neither reconnects nor is about to.
LEMMA FetchingKeeps ==
  ASSUME IInv, TypeOK', NEW t \in Fetchers, Alone(t), FetcherTask(doing'[t]),
         ~Rebuilding(t), ~Rebuilding(t)',
         UNCHANGED <<ap, device, context, reconnect, promised, met>>,
         \A u \in Fetchers : io' = u <=> doing'[u].at = "using",
         doing'[t].at = "using" => ap.disp # "none"
  PROVE  IInv'
<1>1. /\ \A s \in Closers : s # t => doing'[s] = doing[s]
      /\ \A d \in Devices : ReaderTask(doing'[d])
  BY Members, OthersStay DEF IInv
<1>2. Tasks'
  BY <1>1, Members DEF IInv, Tasks
<1>3. \A u \in Fetchers : u # t => doing'[u] = doing[u]
  BY <1>1, Members
<1>4. \A u \in Fetchers : doing'[u].at = "using" => ap'.disp # "none"
  BY <1>3 DEF IInv, ApKept
<1> QED
  BY <1>2, <1>3, <1>4, BystandersKeep

\* The dispatcher is used, or found dead.
LEMMA UseDispatcherKeeps ==
  ASSUME IInv, NEW t \in Fetchers, UseDispatcher(t)
  PROVE  IInv'
<1>1. DoingTyped /\ t \in Closers /\ t \in Threads /\ doing[t].at = "use" /\ io = None
  BY Members DEF IInv, TypeOK, DoingTyped, UseDispatcher, At
<1>2. /\ Alone(t)
      /\ \/ /\ io' = io
            /\ \/ doing'[t].at \in {"ensure", "idle", "run", "returned"}
               \/ doing'[t].at = "reset" /\ doing'[t].why = "retry"
         \/ doing'[t].at = "using" /\ io' = t /\ ap.disp # "none"
  BY <1>1, GoAt, FailFetchMoves DEF UseDispatcher, ApDead, Places
<1>3. UNCHANGED <<ap, deviceVars, context, blob, reconnect, transitions, stop, cancel, crashed,
                  ghosts, counters>>
  BY DEF UseDispatcher
<1>4. DevicesHeld'
  BY <1>1, <1>2, <1>3, HeldByOthers DEF IInv, Alone, deviceVars
<1>5. TypeOK'
  <2>1. doing' \in [Threads -> Task] /\ io' \in Fetchers \cup {None}
    BY <1>1, <1>2 DEF Alone
  <2> QED
    BY <1>3, <1>4, <2>1 DEF IInv, TypeOK, deviceVars, ghosts, counters
<1>6. FetcherTask(doing'[t]) /\ ~Rebuilding(t) /\ ~Rebuilding(t)'
  BY <1>1, <1>2 DEF FetcherTask, Rebuilding
<1>7. \A u \in Fetchers : io' = u <=> doing'[u].at = "using"
  BY <1>1, <1>2, Members DEF IInv, MutexHeld, Alone
<1> QED
  BY <1>2, <1>3, <1>5, <1>6, <1>7, FetchingKeeps DEF deviceVars, ghosts

\* The answer comes, or none.
LEMMA AnsweredKeeps ==
  ASSUME IInv, NEW t \in Fetchers, Answered(t)
  PROVE  IInv'
<1>1. DoingTyped /\ t \in Closers /\ t \in Threads /\ doing[t].at = "using" /\ io = t
  BY Members DEF IInv, TypeOK, DoingTyped, Answered, At, MutexHeld
<1>2. /\ Alone(t) /\ io' = None
      /\ \/ doing'[t].at \in {"ensure", "idle", "run", "returned"}
         \/ doing'[t].at = "reset" /\ doing'[t].why = "retry"
  BY <1>1, FetchedMoves, FailFetchMoves DEF Answered
<1>3. UNCHANGED <<ap, deviceVars, context, blob, reconnect, transitions, stop, cancel, crashed,
                  ghosts, counters>>
  BY DEF Answered
<1>4. DevicesHeld'
  BY <1>1, <1>2, <1>3, HeldByOthers DEF IInv, Alone, deviceVars
<1>5. TypeOK'
  <2>1. doing' \in [Threads -> Task] /\ io' \in Fetchers \cup {None}
    BY <1>2 DEF Alone
  <2> QED
    BY <1>3, <1>4, <2>1 DEF IInv, TypeOK, deviceVars, ghosts, counters
<1>6. FetcherTask(doing'[t]) /\ ~Rebuilding(t) /\ ~Rebuilding(t)'
  BY <1>1, <1>2 DEF FetcherTask, Rebuilding
<1>7. \A u \in Fetchers : io' = u <=> doing'[u].at = "using"
  BY <1>1, <1>2, Members DEF IInv, MutexHeld, Alone
<1> QED
  BY <1>2, <1>3, <1>5, <1>6, <1>7, FetchingKeeps DEF deviceVars, ghosts

\* A step of a fetcher between two fetches.
LEMMA BetweenFetches ==
  ASSUME IInv, NEW t \in Fetchers, Alone(t), messages' \in 0 .. MaxMessages,
         doing[t].at \in {"idle", "run"}, doing'[t].at \in {"ensure", "returned"},
         UNCHANGED <<ap, deviceVars, context, blob, locks, stop, cancel, crashed, ghosts,
                     commands, faults>>
  PROVE  IInv'
<1>1. DevicesHeld'
  BY Members, HeldByOthers DEF IInv, Alone, deviceVars
<1>2. TypeOK'
  BY <1>1 DEF IInv, TypeOK, Alone, deviceVars, locks, ghosts
<1>3. FetcherTask(doing'[t]) /\ ~Rebuilding(t) /\ ~Rebuilding(t)'
  BY DEF FetcherTask, Rebuilding
<1>4. \A u \in Fetchers : io' = u <=> doing'[u].at = "using"
  BY Members DEF IInv, MutexHeld, Alone, locks
<1> QED
  BY <1>2, <1>3, <1>4, FetchingKeeps DEF deviceVars, ghosts, locks

\* A prefetch begins.
LEMMA PrefetchKeeps ==
  ASSUME IInv, Prefetch
  PROVE  IInv'
<1>1. DoingTyped /\ Helper \in Threads /\ Helper \in Fetchers /\ doing[Helper].at = "idle"
  BY Members DEF IInv, TypeOK, DoingTyped, Prefetch, At
<1>2. Alone(Helper) /\ doing'[Helper].at = "ensure"
  <2>1. PICK x \in Task : x.at = "ensure" /\ x = Fetch("metadata")
    BY FetchEntry
  <2>2. doing' = [doing EXCEPT ![Helper] = x]
    BY <2>1 DEF Prefetch
  <2> QED
    BY <1>1, <2>1, <2>2, SetAt
<1>3. messages' \in 0 .. MaxMessages
  BY SessionAssumption DEF IInv, TypeOK, Prefetch
<1> QED
  BY <1>1, <1>2, <1>3, BetweenFetches DEF Prefetch

\* The player sees stop_flag, or the track is over.
LEMMA PlayerEndsKeeps ==
  ASSUME IInv, PlayerStops \/ TrackEnds
  PROVE  IInv'
<1>1. DoingTyped /\ Player \in Threads /\ Player \in Fetchers /\ doing[Player].at = "run"
  BY Members DEF IInv, TypeOK, DoingTyped, PlayerStops, TrackEnds, At
<1>2. Alone(Player) /\ doing'[Player].at = "returned"
  BY <1>1, ReturnMoves DEF PlayerStops, TrackEnds
<1>3. /\ messages' \in 0 .. MaxMessages
      /\ UNCHANGED <<ap, deviceVars, context, blob, locks, stop, cancel, crashed, ghosts,
                     commands, faults>>
  BY DEF IInv, TypeOK, PlayerStops, TrackEnds, counters
<1> QED
  BY <1>1, <1>2, <1>3, BetweenFetches

-----------------------------------------------------------------------------
(* The application's commands keep the invariant.                          *)

\* A command is given, or connect's service hands over credentials.
LEMMA CommandKeeps ==
  ASSUME IInv, NEW h \in Hosts, Alone(h), HostTask(doing'[h]),
         doing[h].at \notin {"replace", "join"},
         UNCHANGED <<ap, deviceVars, blob, locks, stop, crashed, met, faults, messages>>,
         commands' \in 0 .. MaxCommands, cancel' \in BOOLEAN, context' \in BOOLEAN,
         promised' \in BOOLEAN, promised' => promised /\ (context => context')
  PROVE  IInv'
<1>1. h \in Closers
  BY Members
<1>2. DevicesHeld'
  BY <1>1, HeldByOthers DEF IInv, Alone, deviceVars
<1>3. TypeOK'
  BY <1>2 DEF IInv, TypeOK, Alone, deviceVars, locks
<1>4. /\ \A s \in Closers : s # h => doing'[s] = doing[s]
      /\ \A d \in Devices : ReaderTask(doing'[d])
  BY <1>1, OthersStay DEF IInv
<1> QED
  BY <1>3, <1>4, HostKeeps DEF deviceVars, locks

\* What every command has in common.
LEMMA CommandMoves ==
  ASSUME IInv, NEW h \in Hosts, Command(h)
  PROVE  /\ DoingTyped /\ h \in Threads /\ doing[h].at = "idle"
         /\ commands' \in 0 .. MaxCommands
         /\ UNCHANGED <<ap, deviceVars, blob, locks, stop, crashed, met, faults, messages>>
BY SessionAssumption, Members DEF IInv, TypeOK, DoingTyped, Command, At

\* connect,
LEMMA ConnectKeeps ==
  ASSUME IInv, NEW h \in Hosts, Connect(h)
  PROVE  IInv'
<1>1. /\ DoingTyped /\ h \in Threads /\ doing[h].at = "idle"
      /\ commands' \in 0 .. MaxCommands
      /\ UNCHANGED <<ap, deviceVars, blob, locks, stop, crashed, met, faults, messages>>
  BY CommandMoves DEF Connect
<1>2. /\ context' = context /\ promised' = promised
      /\ context \in BOOLEAN /\ promised \in BOOLEAN
  BY DEF Connect, IInv, TypeOK
<1>3. Alone(h) /\ cancel' = FALSE /\ HostTask(doing'[h])
  <2>1. CASE TryZeroconf(h)
    BY <1>1, <2>1, TryZeroconfMoves DEF HostTask
  <2>2. CASE \E way \in {"cached", "oauth"} : GoFor(h, "open", way) /\ cancel' = FALSE
    <3>1. PICK way \in {"cached", "oauth"} : GoFor(h, "open", way) /\ cancel' = FALSE
      BY <2>2
    <3>2. "open" \in Places /\ way \in Whys
      BY DEF Places, Whys
    <3> QED
      BY <1>1, <3>1, <3>2, GoForAt DEF HostTask
  <2> QED
    BY <2>1, <2>2 DEF Connect
<1> QED
  BY <1>1, <1>2, <1>3, CommandKeeps

\* its wait for credentials,
LEMMA WaitKeeps ==
  ASSUME IInv, NEW h \in Hosts, Wait(h)
  PROVE  IInv'
<1>1. DoingTyped /\ h \in Threads /\ doing[h].at = "wait"
  BY Members DEF IInv, TypeOK, DoingTyped, Wait, At
<1>2. doing[h].why \in {"cached", "oauth", "zeroconf"}
  BY <1>1 DEF IInv, Tasks, HostTask
<1>3. /\ commands' \in 0 .. MaxCommands /\ cancel' \in BOOLEAN
      /\ context' \in BOOLEAN /\ promised' \in BOOLEAN
      /\ context' = context /\ promised' = promised
      /\ UNCHANGED <<ap, deviceVars, blob, locks, stop, crashed, met, faults, messages>>
  BY DEF Wait, IInv, TypeOK, counters, ghosts
<1>4. Alone(h) /\ HostTask(doing'[h])
  BY <1>1, <1>2, GoAt, SetAt, Entries DEF Wait, HostTask, Places
<1> QED
  BY <1>1, <1>3, <1>4, CommandKeeps

\* play_track, stop_track, disconnect.
LEMMA StopsKeep ==
  ASSUME IInv, NEW h \in Hosts, PlayTrack(h) \/ StopTrack(h) \/ Disconnect(h)
  PROVE  IInv'
<1>1. /\ DoingTyped /\ h \in Threads /\ doing[h].at = "idle"
      /\ commands' \in 0 .. MaxCommands
      /\ UNCHANGED <<ap, deviceVars, blob, locks, stop, crashed, met, faults, messages>>
  BY CommandMoves DEF PlayTrack, StopTrack, Disconnect
<1>2. Alone(h) /\ HostTask(doing'[h])
  BY <1>1, GoForAt DEF PlayTrack, StopTrack, Disconnect, HostTask, Places, Whys
<1>3. context \in BOOLEAN /\ promised \in BOOLEAN /\ cancel \in BOOLEAN
  BY DEF IInv, TypeOK
<1>4. /\ cancel' \in BOOLEAN /\ context' \in BOOLEAN /\ promised' \in BOOLEAN
      /\ promised' => promised /\ (context => context')
  <2>1. CASE PlayTrack(h)
    <3>1. cancel' = cancel /\ context' = FALSE /\ promised' = FALSE
      BY <2>1 DEF PlayTrack
    <3> QED
      BY <1>3, <3>1
  <2>2. CASE StopTrack(h) \/ Disconnect(h)
    <3>1. cancel' \in {cancel, TRUE} /\ context' = context /\ promised' = promised
      BY <2>2 DEF StopTrack, Disconnect
    <3> QED
      BY <1>3, <3>1
  <2> QED
    BY <2>1, <2>2
<1> QED
  BY <1>1, <1>2, <1>4, CommandKeeps

-----------------------------------------------------------------------------
(* Halting the player keeps the invariant.                                 *)

\* A device's reader goes on, and only its entry and the locks of the player's
\* transitions change.
LEMMA ReaderKeeps ==
  ASSUME IInv, NEW d \in Devices, Alone(d), ReaderTask(doing'[d]), doing[d].at # "none",
         UNCHANGED <<ap, deviceVars, blob, reconnect, io, cancel, crashed, ghosts, commands,
                     faults>>,
         context' \in BOOLEAN, context => context', stop' \in BOOLEAN,
         transitions' \in Hosts \cup Devices \cup {None}, messages' \in 0 .. MaxMessages
  PROVE  IInv'
<1>1. DevicesHeld'
  BY HeldStill DEF IInv, Alone, deviceVars
<1>2. TypeOK'
  BY <1>1 DEF IInv, TypeOK, Alone, deviceVars, ghosts
<1>3. /\ \A s \in Closers : doing'[s] = doing[s]
      /\ \A e \in Devices : e # d => doing'[e] = doing[e]
  BY Members DEF Alone
<1>4. Tasks'
  BY <1>3, Members DEF IInv, Tasks
<1>5. \A t \in Fetchers : doing'[t] = doing[t]
  BY <1>3, Members
<1>6. \A t \in Fetchers : /\ io' = t <=> doing'[t].at = "using"
                          /\ doing'[t].at = "using" => ap'.disp # "none"
  BY <1>5 DEF IInv, MutexHeld, ApKept
<1> QED
  BY <1>2, <1>4, <1>5, <1>6, BystandersKeep DEF deviceVars, ghosts

\* The flag is raised under transitions_m.
LEMMA HaltKeeps ==
  ASSUME IInv, NEW t \in Hosts \cup Devices, Halt(t)
  PROVE  IInv'
<1>1. DoingTyped /\ t \in Threads /\ doing[t].at = "halt"
  BY Members DEF IInv, TypeOK, DoingTyped, Halt, At
<1>2. Alone(t) /\ doing'[t].at = "await" /\ doing'[t].why = doing[t].why
  BY <1>1, GoAt DEF Halt, Places
<1>3. /\ transitions' = t /\ stop' = TRUE
      /\ UNCHANGED <<ap, deviceVars, context, blob, reconnect, io, cancel, crashed, ghosts,
                     counters>>
  BY DEF Halt
<1>4. CASE t \in Devices
  <2>1. ReaderTask(doing'[t]) /\ doing[t].at # "none"
    BY <1>1, <1>2, <1>4 DEF IInv, Tasks, ReaderTask
  <2>2. context' \in BOOLEAN /\ (context => context') /\ messages' \in 0 .. MaxMessages
    BY <1>3 DEF IInv, TypeOK, counters
  <2> QED
    BY <1>2, <1>3, <1>4, <2>1, <2>2, ReaderKeeps DEF counters
<1>5. CASE t \in Hosts
  <2>1. t \in Closers
    BY <1>5, Members
  <2>2. HostTask(doing'[t])
    BY <1>1, <1>2, <1>5 DEF IInv, Tasks, HostTask
  <2>3. DevicesHeld'
    BY <1>1, <1>2, <1>3, <2>1, HeldByOthers DEF IInv, Alone, deviceVars
  <2>4. TypeOK'
    BY <1>2, <1>3, <1>5, <2>3 DEF IInv, TypeOK, Alone, deviceVars, ghosts, counters
  <2>5. /\ \A s \in Closers : s # t => doing'[s] = doing[s]
        /\ \A d \in Devices : ReaderTask(doing'[d])
    BY <1>2, <2>1, OthersStay DEF IInv
  <2> QED
    BY <1>3, <1>5, <2>2, <2>4, <2>5, HostKeeps DEF deviceVars, ghosts
<1> QED
  BY <1>4, <1>5

\* What a thread that has halted the player goes on with.
HaltedTask(task) ==
  CASE task.why = "disconnect" -> [Idle EXCEPT !.at = "close", !.why = "disconnect"]
    [] task.why = "inactive" -> [Idle EXCEPT !.at = "loop"]
    [] OTHER -> Idle

\* Its fields.
LEMMA HaltedTaskAt ==
  ASSUME NEW task \in Task
  PROVE  /\ HaltedTask(task) \in Task
         /\ task.why = "disconnect" => /\ HaltedTask(task).at = "close"
                                       /\ HaltedTask(task).why = "disconnect"
         /\ task.why = "inactive" => HaltedTask(task).at = "loop"
         /\ task.why \notin {"disconnect", "inactive"} => HaltedTask(task) = Idle
<1>1. Idle \in Task /\ "close" \in Places /\ "loop" \in Places /\ "disconnect" \in Whys
  BY Entries DEF Places, Whys
<1>2. /\ [Idle EXCEPT !.at = "close", !.why = "disconnect"] \in Task
      /\ [Idle EXCEPT !.at = "close", !.why = "disconnect"].at = "close"
      /\ [Idle EXCEPT !.at = "close", !.why = "disconnect"].why = "disconnect"
      /\ [Idle EXCEPT !.at = "loop"] \in Task /\ [Idle EXCEPT !.at = "loop"].at = "loop"
  BY <1>1 DEF Task
<1> QED
  BY <1>1, <1>2 DEF HaltedTask

\* The player has ended: its thread is joined, and perhaps a new one made.
LEMMA HaltedKeeps ==
  ASSUME IInv, NEW t \in Hosts \cup Devices, Halted(t)
  PROVE  IInv'
<1>1. /\ DoingTyped /\ t \in Threads /\ doing[t].at = "await" /\ doing[t] \in Task
      /\ t # Player /\ Player \in Threads /\ Player \in Fetchers /\ Player \in Closers
      /\ doing[Player].at \in {"none", "returned"}
  BY Members DEF IInv, TypeOK, DoingTyped, Halted, At
<1>2. /\ t \in Hosts => doing[t].why \in {"play", "stop", "disconnect"}
      /\ t \in Devices => doing[t].why = "inactive"
  BY <1>1 DEF IInv, Tasks, HostTask, ReaderTask
<1>3. PICK next \in Task :
        /\ next.at \in {"ensure", "none"}
        /\ doing' = [doing EXCEPT ![t] = HaltedTask(doing[t]), ![Player] = next]
  BY OtherEntries, FetchEntry DEF Halted, HaltedTask
<1>4. PICK after \in Task :
        /\ after = HaltedTask(doing[t])
        /\ t \in Hosts => HostTask(after)
        /\ t \in Devices => ReaderTask(after) /\ after.at = "loop"
        /\ after.at \notin {"replace", "join"}
  BY <1>1, <1>2, HaltedTaskAt, Entries DEF HostTask, ReaderTask
<1>5. AloneBut(t, Player) /\ doing'[t] = after /\ doing'[Player] = next
  BY <1>1, <1>3, <1>4 DEF DoingTyped, AloneBut
<1>6. /\ stop' \in BOOLEAN /\ transitions' \in Hosts \cup Devices \cup {None}
      /\ UNCHANGED <<ap, deviceVars, context, blob, reconnect, io, cancel, crashed, ghosts,
                     counters>>
  BY DEF Halted
<1>7. DevicesHeld'
  <2>1. ASSUME NEW e \in Devices, e # device, doing'[e].at # "none"
        PROVE  \E s \in Closers : Destroys(s, e)'
    <3>1. doing[e].at # "none"
      BY <1>1, <1>5, <2>1, Members DEF AloneBut
    <3>2. PICK s \in Closers : Destroys(s, e)
      BY <2>1, <3>1 DEF IInv, TypeOK, DevicesHeld
    <3>3. s # t /\ s # Player
      BY <1>1, <3>2 DEF Destroys
    <3>4. doing'[s] = doing[s]
      BY <1>5, <3>3, Members DEF AloneBut
    <3> QED
      BY <3>2, <3>4 DEF Destroys
  <2> QED
    BY <1>6, <2>1 DEF DevicesHeld, deviceVars
<1>8. TypeOK'
  BY <1>5, <1>6, <1>7 DEF IInv, TypeOK, AloneBut, deviceVars, ghosts, counters
<1>9. Tasks'
  BY <1>1, <1>3, <1>4, <1>5, Members DEF IInv, Tasks, FetcherTask, AloneBut
<1>10. /\ \A u \in Fetchers : u # Player => doing'[u] = doing[u]
       /\ ~Rebuilding(Player) /\ ~Rebuilding(Player)'
  BY <1>1, <1>3, <1>5, Members DEF AloneBut, Rebuilding
<1>11. \A u \in Fetchers : /\ io' = u <=> doing'[u].at = "using"
                           /\ doing'[u].at = "using" => ap'.disp # "none"
  BY <1>1, <1>3, <1>5, <1>6, <1>10 DEF IInv, MutexHeld, ApKept
<1> QED
  BY <1>6, <1>8, <1>9, <1>10, <1>11, BystandersKeep DEF deviceVars, ghosts

-----------------------------------------------------------------------------
(* The device's reader and the faults keep the invariant.                  *)

\* A message comes, or the socket is closed.
LEMMA ReaderLoopKeeps ==
  ASSUME IInv, NEW d \in Devices, TakeContext(d) \/ BecomeInactive(d) \/ ReaderEnds(d)
  PROVE  IInv'
<1>1. DoingTyped /\ d \in Threads /\ doing[d].at = "loop"
  BY Members DEF IInv, TypeOK, DoingTyped, TakeContext, BecomeInactive, ReaderEnds, Message, At
<1>2. Alone(d) /\ ReaderTask(doing'[d])
  <2>1. CASE TakeContext(d)
    BY <1>1, <2>1 DEF TakeContext, Alone, DoingTyped, IInv, Tasks
  <2>2. CASE BecomeInactive(d)
    BY <1>1, <2>2, GoForAt DEF BecomeInactive, ReaderTask, Places, Whys
  <2>3. CASE ReaderEnds(d)
    BY <1>1, <2>3, GoAt DEF ReaderEnds, ReaderTask, Places
  <2> QED
    BY <2>1, <2>2, <2>3
<1>3. /\ UNCHANGED <<ap, deviceVars, blob, reconnect, io, cancel, crashed, ghosts, commands,
                     faults>>
      /\ UNCHANGED <<stop, transitions>> /\ context' \in {context, TRUE}
  BY DEF TakeContext, BecomeInactive, ReaderEnds, Message, locks, counters
<1>4. messages' \in 0 .. MaxMessages
  BY SessionAssumption
  DEF IInv, TypeOK, TakeContext, BecomeInactive, ReaderEnds, Message, counters
<1>5. /\ context' \in BOOLEAN /\ (context => context') /\ stop' \in BOOLEAN
      /\ transitions' \in Hosts \cup Devices \cup {None}
  BY <1>3 DEF IInv, TypeOK
<1> QED
  BY <1>1, <1>2, <1>3, <1>4, <1>5, ReaderKeeps

\* A connection is lost.
LEMMA FaultsKeep ==
  ASSUME IInv, LoseAp \/ LoseDealer
  PROVE  IInv'
<1>1. /\ UNCHANGED <<doing, device, context, blob, locks, stop, cancel, crashed, ghosts,
                     commands, messages>>
      /\ faults < MaxFaults /\ faults' = faults + 1
  BY DEF LoseAp, LoseDealer, Fault, deviceVars
<1>2. /\ ap' \in [disp : {"none", "live", "dead"}, by : Closers \cup {None}]
      /\ ap'.disp = "none" <=> ap.disp = "none"
      /\ wsOpen' \in BOOLEAN
  <2>1. /\ ap \in [disp : {"none", "live", "dead"}, by : Closers \cup {None}]
        /\ wsOpen \in BOOLEAN
    BY DEF IInv, TypeOK
  <2>2. CASE LoseAp
    <3>1. ap.disp = "live" /\ ap' = [ap EXCEPT !.disp = "dead"] /\ wsOpen' = wsOpen
      BY <2>2 DEF LoseAp, deviceVars
    <3> QED
      BY <2>1, <3>1
  <2>3. CASE LoseDealer
    <3>1. ap' = ap /\ wsOpen' = FALSE
      BY <2>3 DEF LoseDealer
    <3> QED
      BY <2>1, <3>1
  <2> QED
    BY <2>2, <2>3
<1>3. DevicesHeld'
  BY <1>1 DEF IInv, TypeOK, DevicesHeld, Destroys
<1>4. TypeOK'
  <2>1. faults' \in 0 .. MaxFaults
    BY <1>1, SessionAssumption DEF IInv, TypeOK
  <2> QED
    BY <1>1, <1>2, <1>3, <2>1 DEF IInv, TypeOK, locks, ghosts
<1>5. Tasks'
  BY <1>1 DEF IInv, Tasks
<1>6. \A t \in Fetchers : /\ io' = t <=> doing'[t].at = "using"
                          /\ doing'[t].at = "using" => ap'.disp # "none"
  BY <1>1, <1>2 DEF IInv, MutexHeld, ApKept, locks
<1> QED
  BY <1>1, <1>2, <1>4, <1>5, <1>6, BystandersKeep DEF locks, ghosts

-----------------------------------------------------------------------------
(* Every step keeps the invariant.                                         *)

\* No action leaves the variables as they are and spoils the invariant.
LEMMA StutterKeeps ==
  ASSUME IInv, UNCHANGED vars
  PROVE  IInv'
<1>1. TypeOK'
  BY DEF IInv, vars, deviceVars, locks, ghosts, counters, TypeOK, DevicesHeld, Destroys
<1>2. MutexHeld' /\ Tasks' /\ ApKept' /\ NoDevice' /\ ContextSafe'
  BY DEF IInv, vars, deviceVars, locks, ghosts, MutexHeld, Rebuilding, Tasks, ApKept,
     NoDevice, Bereft, ContextSafe, Saved
<1> QED
  BY <1>1, <1>2 DEF IInv

\* The invariant holds when the session object is made.
LEMMA InitKeeps == Init => IInv
<1> SUFFICES ASSUME Init PROVE IInv
  OBVIOUS
<1>1. DoingTyped
  BY Entries, OtherEntries DEF Init, DoingTyped
<1>2. /\ \A t \in Threads : doing[t].at \in {"none", "idle"}
      /\ \A h \in Hosts : doing[h].at = "idle" /\ doing[h].why = "none"
      /\ \A d \in Devices : doing[d].at = "none"
  BY Members, Entries, OtherEntries DEF Init
<1>3. TypeOK
  <2>1. /\ device \in Devices \cup {None} /\ wsOpen \in BOOLEAN /\ context \in BOOLEAN
        /\ blob \in BOOLEAN /\ stop \in BOOLEAN /\ cancel \in BOOLEAN /\ crashed \in BOOLEAN
        /\ promised \in BOOLEAN /\ met \in BOOLEAN
    BY DEF Init
  <2>2. /\ ap \in [disp : {"none", "live", "dead"}, by : Closers \cup {None}]
        /\ commands \in 0 .. MaxCommands /\ faults \in 0 .. MaxFaults
        /\ messages \in 0 .. MaxMessages
    BY SessionAssumption DEF Init, NoAp
  <2>3. /\ reconnect \in Fetchers \cup {None} /\ io \in Fetchers \cup {None}
        /\ transitions \in Hosts \cup Devices \cup {None}
    BY DEF Init
  <2>4. DevicesHeld
    BY <1>2 DEF DevicesHeld
  <2> QED
    BY <1>1, <2>1, <2>2, <2>3, <2>4 DEF TypeOK, DoingTyped
<1>4. MutexHeld
  BY <1>2, Members DEF Init, MutexHeld, Rebuilding
<1>5. Tasks
  BY <1>2, Members DEF Tasks, FetcherTask, HostTask, ReaderTask
<1>6. ApKept /\ NoDevice /\ ContextSafe
  BY <1>2, Members DEF Init, ApKept, NoDevice, Bereft, ContextSafe
<1> QED
  BY <1>3, <1>4, <1>5, <1>6 DEF IInv

\* Every step of every thread, and every fault, keeps the invariant.
LEMMA NextKeeps ==
  ASSUME IInv, Next
  PROVE  IInv'
<1>1. ASSUME NEW t \in Closers, Failed(t)
      PROVE  IInv'
  BY <1>1, FailedHostKeeps, FailedFetcherKeeps DEF Closers
<1>2. ASSUME NEW t \in Closers, LogIn(t) \/ TearDown(t)
      PROVE  IInv'
  BY <1>1, <1>2, OpenApKeeps, LoginKeeps, LoginTornKeeps, InitProvidersKeeps, MakeDeviceKeeps,
     ReplaceKeeps, StartSpircKeeps, StartTornKeeps, CloseApKeeps, JoinReaderKeeps,
     JoinTornKeeps, ResetApKeeps
  DEF LogIn, TearDown
<1>3. ASSUME NEW t \in Fetchers, FetchStep(t)
      PROVE  IInv'
  BY <1>3, EnsureConnectedKeeps, ExamineKeeps, RestoreKeeps, UseDispatcherKeeps,
     AnsweredKeeps DEF FetchStep
<1>4. ASSUME NEW t \in Hosts \cup Devices, HaltStep(t)
      PROVE  IInv'
  BY <1>4, HaltKeeps, HaltedKeeps DEF HaltStep
<1>5. ASSUME NEW h \in Hosts, Wait(h) \/ HostCommand(h)
      PROVE  IInv'
  BY <1>5, WaitKeeps, ConnectKeeps, StopsKeep DEF HostCommand
<1>6. CASE \E h \in Hosts : HostStep(h) \/ Wait(h) \/ HostCommand(h)
  BY <1>2, <1>4, <1>5, <1>6 DEF HostStep, Closers
<1>7. CASE \E t \in Fetchers : FetcherStep(t)
  BY <1>2, <1>3, <1>7 DEF FetcherStep, Closers
<1>8. CASE \E d \in Devices : ReaderStep(d)
  BY <1>4, <1>8, ReaderLoopKeeps DEF ReaderStep
<1>9. CASE Prefetch \/ PlayerStops \/ TrackEnds \/ LoseAp \/ LoseDealer
  BY <1>9, PrefetchKeeps, PlayerEndsKeeps, FaultsKeep
<1> QED
  BY <1>6, <1>7, <1>8, <1>9 DEF Next

-----------------------------------------------------------------------------
(* The theorems.                                                           *)

\* Whatever the application calls, also connect while a prefetch of the session
\* before reconnects, and whatever connection is lost, in every order of the
\* steps: the session is in one of the states IInv describes.
THEOREM SessionInductive == Spec => []IInv
<1>1. IInv /\ [Next]_vars => IInv'
  BY NextKeeps, StutterKeeps
<1> QED
  BY <1>1, InitKeeps, PTL DEF Spec

\* Every variable of the session keeps its type, and no device is lost: spirc
\* points to it, or somebody is destroying it.
THEOREM SessionTypeCorrect == Spec => []TypeOK
<1>1. IInv => TypeOK
  BY DEF IInv
<1> QED
  BY <1>1, SessionInductive, PTL

\* A thread that waits for an answer in the dispatcher holds ap_io_m, and
\* reset_ap_only takes it first: no disconnect and no reset takes the
\* dispatcher away.  The login of a reconnect replaces it only when connect,
\* which resets nothing, has logged in since that reconnect's own reset.
THEOREM DispatcherNotDestroyedInUse == Spec => DispatcherInUse
<1> DEFINE Kept ==
      \A t \in Fetchers : doing[t].at = "using" /\ doing'[t].at = "using" =>
        /\ ap'.disp # "none"
        /\ \A u \in Fetchers :
             doing[u].at = "login" /\ doing'[u].at \in {"init", "use"} => met
<1>1. ASSUME IInv, IInv' PROVE Kept
  <2>1. ASSUME NEW t \in Fetchers, doing'[t].at = "using"
        PROVE  ap'.disp # "none"
    BY <1>1, <2>1 DEF IInv, ApKept
  <2>2. ASSUME NEW t \in Fetchers, NEW u \in Fetchers,
               doing[t].at = "using", doing[u].at = "login"
        PROVE  met
    BY <1>1, <2>2 DEF IInv, ApKept
  <2> QED
    BY <2>1, <2>2
<1>2. IInv /\ IInv' => [Kept]_vars
  BY <1>1
<1>3. Spec => [][Kept]_vars
  BY <1>2, SessionInductive, PTL
<1> QED
  BY <1>3 DEF DispatcherInUse

\* init_login5_provider and start_spirc run in a reconnect only without a
\* device, also under a disconnect: the one that referred to the old token
\* providers is gone before they are replaced.  When connect comes between,
\* the device it has made may still be there.
THEOREM ProvidersNotDestroyedInUse == Spec => []ProvidersOutliveDevice
<1>1. ASSUME IInv, NEW t \in Fetchers, doing[t].at \in {"init", "start"}
      PROVE  device = None \/ met
  BY <1>1 DEF IInv, Tasks, FetcherTask, NoDevice, Bereft
<1>2. IInv => ProvidersOutliveDevice
  BY <1>1 DEF ProvidersOutliveDevice
<1> QED
  BY <1>2, SessionInductive, PTL

\* A reconnect that keeps the device keeps its context, and one that replaces
\* the device hands the context over through the seed, whatever else tears the
\* session down or clears the context meanwhile, unless connect makes a device
\* of its own or start_spirc fails.
THEOREM ReconnectKeepsContext == Spec => []ContextKept
<1>1. IInv => ContextKept
  BY DEF IInv, ContextSafe, ContextKept
<1> QED
  BY <1>1, SessionInductive, PTL

=============================================================================
