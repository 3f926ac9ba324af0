--------------------------- MODULE Playback_proofs ---------------------------
(***************************************************************************)
(* PlaybackSafe: with any number of hosts and helpers, playback_thread is  *)
(* replaced only when it holds no thread, by one thread at a time, and     *)
(* stop_flag is up exactly while a transition waits for it.                *)
(*                                                                         *)
(* The inductive invariant Inv says that one thread at most holds          *)
(* transitions_m, that past the join there is no playback thread, and what *)
(* stop_flag means.  Most actions touch neither (Outside); the five of a   *)
(* transition are proved one by one.                                       *)
(*                                                                         *)
(* PlaybackKeepsQueue: no step drops or doubles a track that is due.  The  *)
(* number due is the sum of what queue, threads and player hold of it      *)
(* (DueIs); each action moves at most one track between them.              *)
(***************************************************************************)
EXTENDS Playback, TLAPS, SequenceTheorems, FiniteSetTheorems

OpTyped == op \in [Threads -> OpType]

\* One thread at most holds transitions_m.
OneHolds ==
  \A s, t \in Threads : op[s].at \in Holding /\ op[t].at \in Holding => s = t

\* Between the join and the launch there is no playback thread.
Joined == \A t \in Threads : op[t].at \in {"push", "launch"} => player.at = "none"

Inv == TypeOK /\ OneHolds /\ Joined /\ StopFlag

\* A step of no consequence to transitions_m, to stop_flag and to the join.
Outside ==
  /\ \A t \in Threads : op'[t].at # op[t].at =>
                          op[t].at \notin Holding /\ op'[t].at \notin Holding
  /\ stop' = stop
  /\ player' = player \/ player.at # "none"

-----------------------------------------------------------------------------
(* Assignments to op.                                                      *)

\* What op is after one entry is replaced.
LEMMA BecomeAt ==
  ASSUME OpTyped, NEW t \in Threads, NEW x \in OpType, Become(t, x)
  PROVE  /\ op' \in [Threads -> OpType]
         /\ op'[t] = x
         /\ \A s \in Threads : s # t => op'[s] = op[s]
BY DEF OpTyped, Become

\* What op is after one thread moves to another label.
LEMMA GotoAt ==
  ASSUME OpTyped, NEW t \in Threads, NEW label \in Labels, Goto(t, label)
  PROVE  /\ op' \in [Threads -> OpType]
         /\ op'[t].at = label
         /\ op'[t].uri = op[t].uri
         /\ \A s \in Threads : s # t => op'[s] = op[s]
<1>1. op[t] \in OpType
  BY DEF OpTyped
<1>2. op' = [op EXCEPT ![t] = [op[t] EXCEPT !.at = label]]
  BY <1>1 DEF Goto, OpTyped
<1>3. [op[t] EXCEPT !.at = label] \in OpType
  BY <1>1 DEF OpType
<1>4. [op[t] EXCEPT !.at = label].at = label /\ [op[t] EXCEPT !.at = label].uri = op[t].uri
  BY <1>1 DEF OpType
<1> QED
  BY <1>2, <1>3, <1>4 DEF OpTyped

\* The entries the actions write are entries.
LEMMA Entries ==
  /\ Idle \in OpType
  /\ \A kind \in Kinds, uri \in Tracks \cup {None}, push \in BOOLEAN :
       Start(kind, uri, push) \in OpType /\ Start(kind, uri, push).at = "start"
  /\ Idle.at = "idle"
BY DEF Idle, Start, OpType, Labels, Kinds

-----------------------------------------------------------------------------
(* The invariant under a step outside the transitions.                     *)

LEMMA OutsideKeeps ==
  ASSUME OneHolds, Joined, StopFlag, OpTyped, Outside
  PROVE  OneHolds' /\ Joined' /\ StopFlag'
<1>1. \A t \in Threads : op'[t].at \in Holding => op'[t].at = op[t].at
  BY DEF Outside
<1>2. \A t \in Threads : op[t].at \in Holding => op'[t].at = op[t].at
  BY DEF Outside
<1>3. OneHolds'
  BY <1>1 DEF OneHolds
<1>4. Joined'
  <2> SUFFICES ASSUME NEW t \in Threads, op'[t].at \in {"push", "launch"}
               PROVE  player'.at = "none"
    BY DEF Joined
  <2>1. op[t].at \in {"push", "launch"}
    BY <1>1 DEF Holding
  <2>2. player.at = "none"
    BY <2>1 DEF Joined
  <2> QED
    BY <2>2 DEF Outside
<1>5. StopFlag'
  <2>1. \A t \in Threads : op'[t].at \in {"join", "halt"} <=> op[t].at \in {"join", "halt"}
    BY <1>1, <1>2 DEF Holding
  <2> QED
    BY <2>1, Zenon DEF StopFlag, Outside
<1> QED
  BY <1>3, <1>4, <1>5

\* A thread outside the transitions moves and stays outside.
LEMMA BecomeOutside ==
  ASSUME OpTyped, NEW t \in Threads, NEW x \in OpType, Become(t, x),
         op[t].at \notin Holding, x.at \notin Holding,
         stop' = stop, player' = player \/ player.at # "none"
  PROVE  Outside /\ op' \in [Threads -> OpType]
<1>1. /\ op' \in [Threads -> OpType]
      /\ op'[t] = x
      /\ \A s \in Threads : s # t => op'[s] = op[s]
  BY BecomeAt
<1>2. \A s \in Threads : op'[s].at # op[s].at =>
                           op[s].at \notin Holding /\ op'[s].at \notin Holding
  BY <1>1
<1> QED
  BY <1>1, <1>2 DEF Outside

LEMMA GotoOutside ==
  ASSUME OpTyped, NEW t \in Threads, NEW label \in Labels \ Holding, Goto(t, label),
         op[t].at \notin Holding, stop' = stop, player' = player
  PROVE  Outside /\ op' \in [Threads -> OpType]
<1>1. /\ op' \in [Threads -> OpType]
      /\ op'[t].at = label
      /\ \A s \in Threads : s # t => op'[s] = op[s]
  BY GotoAt
<1>2. \A s \in Threads : op'[s].at # op[s].at =>
                           op[s].at \notin Holding /\ op'[s].at \notin Holding
  BY <1>1
<1> QED
  BY <1>1, <1>2 DEF Outside

\* A step that leaves op alone, from a state with a playback thread.
LEMMA SameOpOutside ==
  ASSUME op' = op, stop' = stop, player' = player \/ player.at # "none"
  PROVE  Outside
BY DEF Outside

\* A command begins: its counter and its ghost keep their types.
LEMMA BeginTyped ==
  ASSUME TypeOK, NEW t \in Threads, Begin(t)
  PROVE  /\ t \in Commander /\ op[t].at = "idle" /\ op[t].at \notin Holding
         /\ commands' \in Nat
         /\ wish' \in {"any", "silence", None} \cup Tracks \cup Commander
BY DEF Begin, TypeOK, Holding

\* The rest of the state, which most actions leave alone.
LEMMA QueueFacts ==
  ASSUME queue \in Seq(Tracks), queue # <<>>
  PROVE  Head(queue) \in Tracks /\ Tail(queue) \in Seq(Tracks)
OBVIOUS

LEMMA HistoryFacts ==
  ASSUME history \in Seq(Tracks), Len(history) <= MaxHistory, history # <<>>
  PROVE  /\ history[Len(history)] \in Tracks
         /\ SubSeq(history, 1, Len(history) - 1) \in Seq(Tracks)
         /\ Len(SubSeq(history, 1, Len(history) - 1)) <= MaxHistory
<1>1. Len(history) \in Nat /\ Len(history) >= 1
  OBVIOUS
<1>2. Len(history) \in 1 .. Len(history)
  BY <1>1
<1>3. Len(history) - 1 \in 0 .. Len(history) /\ Len(history) - 1 + 1 = Len(history)
  BY <1>1
<1>4. MaxHistory \in Nat
  BY PlaybackAssumption
<1>5. history[Len(history)] \in Tracks
  BY <1>2
<1>6. /\ SubSeq(history, 1, Len(history) - 1) \in Seq(Tracks)
      /\ Len(SubSeq(history, 1, Len(history) - 1)) = Len(history) - 1
  BY <1>1, <1>3, SubSeqProperties
<1> QED
  BY <1>1, <1>4, <1>5, <1>6

\* push_history keeps within the cap.
LEMMA CappedFacts ==
  ASSUME history \in Seq(Tracks), Len(history) <= MaxHistory, NEW uri \in Tracks
  PROVE  /\ Capped(Append(history, uri)) \in Seq(Tracks)
         /\ Len(Capped(Append(history, uri))) <= MaxHistory
<1> DEFINE h == Append(history, uri)
<1>1. h \in Seq(Tracks) /\ Len(h) = Len(history) + 1 /\ h # <<>>
  OBVIOUS
<1>2. Len(history) \in Nat /\ MaxHistory \in Nat
  BY PlaybackAssumption
<1> HIDE DEF h
<1>3. Tail(h) \in Seq(Tracks) /\ Len(Tail(h)) = Len(h) - 1
  BY <1>1
<1>4. CASE Len(h) > MaxHistory
  BY <1>1, <1>2, <1>3, <1>4 DEF Capped
<1>5. CASE ~(Len(h) > MaxHistory)
  BY <1>1, <1>2, <1>5 DEF Capped
<1> QED
  BY <1>4, <1>5 DEF h

-----------------------------------------------------------------------------
(* Types, and steps outside the transitions.                               *)

LEMMA TypedOp == TypeOK => OpTyped
BY DEF TypeOK, OpTyped

LEMMA PlayTrackOutside ==
  ASSUME TypeOK, NEW t \in Threads, NEW uri \in Tracks, PlayTrack(t, uri)
  PROVE  TypeOK' /\ Outside
<1>1. /\ Begin(t) /\ queue' = <<>> /\ Become(t, Start("play", uri, TRUE))
      /\ UNCHANGED <<history, current, advancing, stop, player>>
  BY DEF PlayTrack
<1>2. /\ commands' \in Nat /\ op[t].at \notin Holding
      /\ wish' \in {"any", "silence", None} \cup Tracks \cup Commander
  BY <1>1, BeginTyped
<1>3. Start("play", uri, TRUE) \in OpType /\ Start("play", uri, TRUE).at = "start"
  BY Entries DEF Kinds
<1>4. Outside /\ op' \in [Threads -> OpType]
  BY <1>1, <1>2, <1>3, BecomeOutside, TypedOp DEF Holding
<1>5. queue' \in Seq(Tracks)
  BY <1>1
<1> QED
  BY <1>1, <1>2, <1>4, <1>5 DEF TypeOK

LEMMA EnqueueOutside ==
  ASSUME TypeOK, NEW t \in Threads, NEW uri \in Tracks, NEW front \in BOOLEAN,
         Enqueue(t, uri, front)
  PROVE  TypeOK' /\ Outside
<1>1. Begin(t) /\ UNCHANGED <<history, current, advancing, stop, player>>
  BY DEF Enqueue
<1>2. /\ commands' \in Nat /\ op[t].at \notin Holding
      /\ wish' \in {"any", "silence", None} \cup Tracks \cup Commander
  BY <1>1, BeginTyped
<1>3. \/ Become(t, Start("host", uri, TRUE)) /\ queue' = queue
      \/ op' = op /\ queue' = <<uri>> \o queue
      \/ op' = op /\ queue' = Append(queue, uri)
  BY DEF Enqueue
<1>4. Start("host", uri, TRUE) \in OpType /\ Start("host", uri, TRUE).at = "start"
  BY Entries DEF Kinds
<1>5. Outside /\ op' \in [Threads -> OpType]
  <2>0. Become(t, Start("host", uri, TRUE)) \/ op' = op
    BY DEF Enqueue
  <2>1. CASE Become(t, Start("host", uri, TRUE))
    BY <2>1, <1>1, <1>2, <1>4, BecomeOutside, TypedOp DEF Holding
  <2>2. CASE op' = op
    <3>1. Outside
      BY <2>2, <1>1, SameOpOutside
    <3>2. op' \in [Threads -> OpType]
      BY <2>2 DEF TypeOK
    <3> QED
      BY <3>1, <3>2
  <2> QED
    BY <2>0, <2>1, <2>2
<1>6. queue \in Seq(Tracks)
  BY DEF TypeOK
<1>7. <<uri>> \in Seq(Tracks)
  OBVIOUS
<1>8. <<uri>> \o queue \in Seq(Tracks) /\ Append(queue, uri) \in Seq(Tracks)
  BY <1>6, <1>7, ConcatProperties
<1>9. queue' \in {queue, <<uri>> \o queue, Append(queue, uri)}
  BY <1>3
<1>10. queue' \in Seq(Tracks)
  BY <1>6, <1>8, <1>9, Zenon
<1> QED
  BY <1>1, <1>2, <1>5, <1>10 DEF TypeOK

LEMMA ClearQueueOutside ==
  ASSUME TypeOK, NEW t \in Threads, ClearQueue(t)
  PROVE  TypeOK' /\ Outside
<1>1. /\ Begin(t) /\ queue' = <<>>
      /\ UNCHANGED <<history, current, advancing, stop, player, op>>
  BY DEF ClearQueue
<1>2. /\ commands' \in Nat
      /\ wish' \in {"any", "silence", None} \cup Tracks \cup Commander
  BY <1>1, BeginTyped
<1>3. Outside
  BY <1>1, SameOpOutside
<1>4. queue' \in Seq(Tracks)
  BY <1>1
<1> QED
  BY <1>1, <1>2, <1>3, <1>4 DEF TypeOK

LEMMA NextTrackOutside ==
  ASSUME TypeOK, NEW t \in Threads, NextTrack(t)
  PROVE  TypeOK' /\ Outside
<1>1. Begin(t) /\ UNCHANGED <<history, current, advancing, stop, player>>
  BY DEF NextTrack
<1>2. /\ commands' \in Nat /\ op[t].at \notin Holding
      /\ wish' \in {"any", "silence", None} \cup Tracks \cup Commander
  BY <1>1, BeginTyped
<1>3. CASE queue # <<>>
  <2>1. Become(t, Start("host", Head(queue), TRUE)) /\ queue' = Tail(queue)
    BY <1>3 DEF NextTrack
  <2>2. Head(queue) \in Tracks /\ Tail(queue) \in Seq(Tracks)
    BY <1>3, QueueFacts DEF TypeOK
  <2>3. /\ Start("host", Head(queue), TRUE) \in OpType
        /\ Start("host", Head(queue), TRUE).at = "start"
    BY <2>2, Entries DEF Kinds
  <2>4. Outside /\ op' \in [Threads -> OpType]
    BY <1>1, <1>2, <2>1, <2>3, BecomeOutside, TypedOp DEF Holding
  <2> QED
    BY <1>1, <1>2, <2>1, <2>2, <2>4 DEF TypeOK
<1>4. CASE queue = <<>>
  <2>1. Goto(t, "ask") /\ queue' = queue
    BY <1>4 DEF NextTrack
  <2>2. Outside /\ op' \in [Threads -> OpType]
    BY <1>1, <1>2, <2>1, GotoOutside, TypedOp DEF Holding, Labels
  <2> QED
    BY <1>1, <1>2, <2>1, <2>2 DEF TypeOK
<1> QED
  BY <1>3, <1>4

LEMMA AskContextOutside ==
  ASSUME TypeOK, NEW t \in Threads, AskContext(t)
  PROVE  TypeOK' /\ Outside
<1>1. /\ op[t].at = "ask"
      /\ UNCHANGED <<queue, history, current, advancing, stop, player, wish, commands>>
  BY DEF AskContext
<1>2. PICK x \in OpType : Become(t, x) /\ x.at \notin Holding
  <2>1. CASE Become(t, Idle)
    BY <2>1, Entries DEF Holding
  <2>2. CASE \E uri \in Tracks : Become(t, Start("host", uri, TRUE))
    <3>1. PICK uri \in Tracks : Become(t, Start("host", uri, TRUE))
      BY <2>2
    <3>2. Start("host", uri, TRUE) \in OpType /\ Start("host", uri, TRUE).at = "start"
      BY Entries DEF Kinds
    <3> QED
      BY <3>1, <3>2 DEF Holding
  <2> QED
    BY <2>1, <2>2 DEF AskContext
<1>3. Outside /\ op' \in [Threads -> OpType]
  BY <1>1, <1>2, BecomeOutside, TypedOp DEF Holding
<1> QED
  BY <1>1, <1>3 DEF TypeOK

LEMMA PreviousOutside ==
  ASSUME TypeOK, NEW t \in Threads, Previous(t)
  PROVE  TypeOK' /\ Outside
<1> DEFINE kind == IF t = Dealer THEN "advance" ELSE "host"
           uri  == history[Len(history)]
           x    == [Start(kind, uri, FALSE) EXCEPT !.at = "back"]
<1>1. /\ Begin(t) /\ history # <<>> /\ Become(t, x)
      /\ history' = SubSeq(history, 1, Len(history) - 1)
      /\ UNCHANGED <<queue, current, advancing, stop, player>>
  BY DEF Previous
<1>2. /\ commands' \in Nat /\ op[t].at \notin Holding
      /\ wish' \in {"any", "silence", None} \cup Tracks \cup Commander
  BY <1>1, BeginTyped
<1>3. /\ uri \in Tracks
      /\ history' \in Seq(Tracks)
      /\ Len(history') <= MaxHistory
  BY <1>1, HistoryFacts DEF TypeOK
<1>4. kind \in Kinds
  BY DEF Kinds
<1> HIDE DEF kind, uri
<1>5. x \in OpType /\ x.at = "back"
  BY <1>3, <1>4 DEF Start, OpType, Labels
<1> HIDE DEF x
<1>6. Outside /\ op' \in [Threads -> OpType]
  BY <1>1, <1>2, <1>5, BecomeOutside, TypedOp DEF Holding
<1> QED
  BY <1>1, <1>2, <1>3, <1>6 DEF TypeOK

LEMMA PushFrontTyped ==
  ASSUME queue \in Seq(Tracks), current \in Tracks \cup {None}
  PROVE  PushFront(current) \in Seq(Tracks)
<1>1. CASE current = None
  BY <1>1 DEF PushFront
<1>2. CASE current # None
  <2>1. <<current>> \in Seq(Tracks)
    BY <1>2
  <2>2. <<current>> \o queue \in Seq(Tracks)
    BY <2>1, ConcatProperties
  <2> QED
    BY <1>2, <2>2, Zenon DEF PushFront
<1> QED
  BY <1>1, <1>2

LEMMA BackOutside ==
  ASSUME TypeOK, NEW t \in Threads, Back(t)
  PROVE  TypeOK' /\ Outside
<1>1. /\ op[t].at = "back" /\ queue' = PushFront(current)
      /\ UNCHANGED <<history, current, stop, player, wish, commands>>
  BY DEF Back
<1>2. queue' \in Seq(Tracks)
  BY <1>1, PushFrontTyped DEF TypeOK
<1>3. op \in [Threads -> OpType] /\ op[t] \in OpType /\ op[t].uri \in Tracks \cup {None}
  BY DEF TypeOK, OpType
<1>4. Outside /\ op' \in [Threads -> OpType] /\ advancing' \in BOOLEAN
  <2>1. CASE t = Dealer
    <3> DEFINE x == Start("advance", op[t].uri, FALSE)
    <3>1. PICK h \in Helpers : /\ op[h].at = "idle"
                               /\ op' = [op EXCEPT ![t] = Idle, ![h] = x]
                               /\ advancing' = TRUE
      BY <2>1 DEF Back
    <3>2. x \in OpType /\ x.at = "start"
      BY <1>3, Entries DEF Kinds
    <3>3. Idle \in OpType /\ Idle.at = "idle"
      BY Entries
    <3> HIDE DEF x
    <3>4. h \in Threads
      BY DEF Threads
    <3>5. /\ op' \in [Threads -> OpType]
          /\ \A s \in Threads : op'[s] = IF s = h THEN x ELSE IF s = t THEN Idle ELSE op[s]
      BY <1>3, <3>1, <3>2, <3>3, <3>4
    <3>6. \A s \in Threads : op'[s].at # op[s].at =>
                               op[s].at \notin Holding /\ op'[s].at \notin Holding
      BY <1>1, <3>1, <3>2, <3>3, <3>5 DEF Holding
    <3>7. Outside
      BY <1>1, <3>6 DEF Outside
    <3> QED
      BY <3>1, <3>5, <3>7
  <2>2. CASE t # Dealer
    <3>1. Goto(t, "start") /\ advancing' = advancing
      BY <2>2 DEF Back
    <3>2. Outside /\ op' \in [Threads -> OpType]
      BY <1>1, <3>1, GotoOutside, TypedOp DEF Holding, Labels
    <3> QED
      BY <3>1, <3>2 DEF TypeOK
  <2> QED
    BY <2>1, <2>2
<1> QED
  BY <1>1, <1>2, <1>4 DEF TypeOK

LEMMA StopTrackOutside ==
  ASSUME TypeOK, NEW t \in Threads, StopTrack(t)
  PROVE  TypeOK' /\ Outside
<1>1. /\ Begin(t) /\ Goto(t, "stop")
      /\ UNCHANGED <<queue, history, current, advancing, stop, player>>
  BY DEF StopTrack
<1>2. /\ commands' \in Nat /\ op[t].at \notin Holding
      /\ wish' \in {"any", "silence", None} \cup Tracks \cup Commander
  BY <1>1, BeginTyped
<1>3. Outside /\ op' \in [Threads -> OpType]
  BY <1>1, <1>2, GotoOutside, TypedOp DEF Holding, Labels
<1> QED
  BY <1>1, <1>2, <1>3 DEF TypeOK

LEMMA DealerIsThread == Dealer \in Threads
BY DEF Threads

LEMMA OnTransferOutside ==
  ASSUME TypeOK, NEW uri \in Tracks, OnTransfer(uri)
  PROVE  TypeOK' /\ Outside
<1> DEFINE x == [Start("transfer", uri, TRUE) EXCEPT !.at = "transfer"]
<1>1. Begin(Dealer) /\ UNCHANGED <<queue, history, current, advancing, stop, player>>
  BY DEF OnTransfer
<1>2. PICK h \in Helpers : op[h].at = "idle" /\ Become(h, x)
  BY DEF OnTransfer
<1>3. /\ commands' \in Nat
      /\ wish' \in {"any", "silence", None} \cup Tracks \cup Commander
  BY <1>1, BeginTyped, DealerIsThread
<1>4. x \in OpType /\ x.at = "transfer"
  BY DEF Start, OpType, Labels, Kinds
<1> HIDE DEF x
<1>5. h \in Threads
  BY DEF Threads
<1>6. Outside /\ op' \in [Threads -> OpType]
  BY <1>1, <1>2, <1>4, <1>5, BecomeOutside, TypedOp DEF Holding
<1> QED
  BY <1>1, <1>3, <1>6 DEF TypeOK

LEMMA TransferOutside ==
  ASSUME TypeOK, NEW t \in Threads, Transfer(t)
  PROVE  TypeOK' /\ Outside
<1>1. /\ op[t].at = "transfer"
      /\ UNCHANGED <<queue, history, current, advancing, stop, player, wish, commands>>
  BY DEF Transfer
<1>2. Become(t, Idle) \/ Goto(t, "start")
  BY DEF Transfer
<1>3. Outside /\ op' \in [Threads -> OpType]
  <2>1. CASE Become(t, Idle)
    BY <1>1, <2>1, Entries, BecomeOutside, TypedOp DEF Holding
  <2>2. CASE Goto(t, "start")
    BY <1>1, <2>2, GotoOutside, TypedOp DEF Holding, Labels
  <2> QED
    BY <1>2, <2>1, <2>2
<1> QED
  BY <1>1, <1>3 DEF TypeOK

LEMMA OnSkipNextOutside ==
  ASSUME TypeOK, OnSkipNext
  PROVE  TypeOK' /\ Outside
<1> DEFINE x == Start("advance", Head(queue), TRUE)
<1>1. /\ Begin(Dealer) /\ queue # <<>> /\ queue' = Tail(queue) /\ advancing' = TRUE
      /\ UNCHANGED <<history, current, stop, player>>
  BY DEF OnSkipNext
<1>2. PICK h \in Helpers : op[h].at = "idle" /\ Become(h, x)
  BY DEF OnSkipNext
<1>3. /\ commands' \in Nat
      /\ wish' \in {"any", "silence", None} \cup Tracks \cup Commander
  BY <1>1, BeginTyped, DealerIsThread
<1>4. Head(queue) \in Tracks /\ queue' \in Seq(Tracks)
  BY <1>1, QueueFacts DEF TypeOK
<1>5. x \in OpType /\ x.at = "start"
  BY <1>4, Entries DEF Kinds
<1> HIDE DEF x
<1>6. h \in Threads
  BY DEF Threads
<1>7. Outside /\ op' \in [Threads -> OpType]
  BY <1>1, <1>2, <1>5, <1>6, BecomeOutside, TypedOp DEF Holding
<1> QED
  BY <1>1, <1>3, <1>4, <1>7 DEF TypeOK

LEMMA FinishOutside ==
  ASSUME TypeOK, NEW h \in Threads, Finish(h)
  PROVE  TypeOK' /\ Outside
<1>1. /\ op[h].at = "finish" /\ Become(h, Idle)
      /\ advancing' = (advancing /\ op[h].kind = "transfer")
      /\ UNCHANGED <<queue, history, current, stop, player, wish, commands>>
  BY DEF Finish
<1>2. Outside /\ op' \in [Threads -> OpType]
  BY <1>1, Entries, BecomeOutside, TypedOp DEF Holding
<1>3. advancing' \in BOOLEAN
  BY <1>1, Zenon
<1> QED
  BY <1>1, <1>2, <1>3 DEF TypeOK

-----------------------------------------------------------------------------
(* The playback thread: it never touches transitions_m.                    *)

\* What TypeOK says of player.
PlayerType == [at : {"none", "run", "pop", "ask", "advance", "returned"},
               uri : Tracks \cup {None}, next : Tracks \cup {None}]

LEMMA MoveTyped ==
  ASSUME TypeOK, Move("returned") \/ Move("pop") \/ Move("ask")
  PROVE  player' \in PlayerType
<1>1. player \in PlayerType
  BY DEF TypeOK, PlayerType
<1>2. PICK label \in {"returned", "pop", "ask"} : player' = [player EXCEPT !.at = label]
  BY DEF Move
<1> QED
  BY <1>1, <1>2 DEF PlayerType

LEMMA PopTyped ==
  ASSUME TypeOK, NEW uri \in Tracks,
         player' = [player EXCEPT !.at = "advance", !.next = uri]
  PROVE  player' \in PlayerType
<1>1. player \in PlayerType
  BY DEF TypeOK, PlayerType
<1> QED
  BY <1>1 DEF PlayerType

LEMMA QuitOutside ==
  ASSUME TypeOK, Quit
  PROVE  TypeOK' /\ Outside
<1>1. /\ player.at = "run" /\ Move("returned")
      /\ UNCHANGED <<queue, history, current, advancing, stop, op, wish, commands>>
  BY DEF Quit
<1>2. Outside
  BY <1>1, SameOpOutside
<1>3. player' \in PlayerType
  BY <1>1, MoveTyped
<1> QED
  BY <1>1, <1>2, <1>3 DEF TypeOK, PlayerType

LEMMA EndOfTrackOutside ==
  ASSUME TypeOK, NEW unplayable \in BOOLEAN, EndOfTrack(unplayable)
  PROVE  TypeOK' /\ Outside
<1>1. /\ player.at = "run" /\ Move("pop")
      /\ wish' = IF wish \in Commander THEN wish ELSE "any"
      /\ UNCHANGED <<queue, history, current, advancing, stop, op, commands>>
  BY DEF EndOfTrack
<1>2. Outside
  BY <1>1, SameOpOutside
<1>3. player' \in PlayerType
  BY <1>1, MoveTyped
<1>4. wish' \in {"any", "silence", None} \cup Tracks \cup Commander
  BY <1>1 DEF TypeOK
<1> QED
  BY <1>1, <1>2, <1>3, <1>4 DEF TypeOK, PlayerType

LEMMA PopQueueOutside ==
  ASSUME TypeOK, PopQueue
  PROVE  TypeOK' /\ Outside
<1>1. /\ player.at = "pop"
      /\ UNCHANGED <<history, current, advancing, stop, op, wish, commands>>
  BY DEF PopQueue
<1>2. Outside
  BY <1>1, SameOpOutside
<1>3. player' \in PlayerType /\ queue' \in Seq(Tracks)
  <2>1. CASE queue # <<>>
    <3>1. /\ player' = [player EXCEPT !.at = "advance", !.next = Head(queue)]
          /\ queue' = Tail(queue)
      BY <2>1 DEF PopQueue
    <3>2. Head(queue) \in Tracks /\ Tail(queue) \in Seq(Tracks)
      BY <2>1, QueueFacts DEF TypeOK
    <3>3. player' \in PlayerType
      BY <3>1, <3>2, PopTyped
    <3> QED
      BY <3>1, <3>2, <3>3
  <2>2. CASE queue = <<>>
    <3>1. Move("ask") /\ queue' = queue
      BY <2>2 DEF PopQueue
    <3>2. player' \in PlayerType
      BY <3>1, MoveTyped
    <3> QED
      BY <3>1, <3>2 DEF TypeOK
  <2> QED
    BY <2>1, <2>2
<1> QED
  BY <1>1, <1>2, <1>3 DEF TypeOK, PlayerType

LEMMA AdvanceContextOutside ==
  ASSUME TypeOK, AdvanceContext
  PROVE  TypeOK' /\ Outside
<1>1. /\ player.at = "ask"
      /\ UNCHANGED <<queue, history, current, advancing, stop, op, wish, commands>>
  BY DEF AdvanceContext
<1>2. Outside
  BY <1>1, SameOpOutside
<1>3. player' \in PlayerType
  BY MoveTyped, PopTyped DEF AdvanceContext
<1> QED
  BY <1>1, <1>2, <1>3 DEF TypeOK, PlayerType

LEMMA SpawnAdvanceOutside ==
  ASSUME TypeOK, SpawnAdvance
  PROVE  TypeOK' /\ Outside
<1> DEFINE x == Start("advance", player.next, TRUE)
<1>1. /\ player.at = "advance" /\ advancing' = TRUE
      /\ player' = [player EXCEPT !.at = "returned", !.next = None]
      /\ UNCHANGED <<queue, history, current, stop, wish, commands>>
  BY DEF SpawnAdvance
<1>2. PICK h \in Helpers : op[h].at = "idle" /\ Become(h, x)
  BY DEF SpawnAdvance
<1>3. player \in PlayerType /\ player.next \in Tracks \cup {None}
  BY DEF TypeOK, PlayerType
<1>4. player' \in PlayerType
  BY <1>1, <1>3 DEF PlayerType
<1>5. x \in OpType /\ x.at = "start"
  BY <1>3, Entries DEF Kinds
<1> HIDE DEF x
<1>6. h \in Threads
  BY DEF Threads
<1>7. Outside /\ op' \in [Threads -> OpType]
  BY <1>1, <1>2, <1>5, <1>6, BecomeOutside, TypedOp DEF Holding
<1> QED
  BY <1>1, <1>4, <1>7 DEF TypeOK, PlayerType

-----------------------------------------------------------------------------
(* The transitions, which hold transitions_m.                              *)

Safe == OneHolds /\ Joined /\ StopFlag

\* With t holding the mutex, or nobody, all depends on where t goes.
LEMMA OnlyMover ==
  ASSUME OpTyped, NEW t \in Threads,
         \A s \in Threads : s # t => op[s].at \notin Holding,
         \A s \in Threads : s # t => op'[s] = op[s],
         op'[t].at \in {"push", "launch"} => player'.at = "none",
         stop' <=> op'[t].at \in {"join", "halt"}
  PROVE  Safe'
<1>1. \A s \in Threads : op'[s].at \in Holding => s = t
  OBVIOUS
<1>2. OneHolds'
  BY <1>1 DEF OneHolds
<1>3. Joined'
  BY <1>1 DEF Joined, Holding
<1>4. StopFlag'
  <2>1. \A s \in Threads : op'[s].at \in {"join", "halt"} => s = t
    BY <1>1 DEF Holding
  <2> QED
    BY <2>1, Zenon DEF StopFlag
<1> QED
  BY <1>2, <1>3, <1>4 DEF Safe

LEMMA OthersFree ==
  ASSUME OneHolds, NEW t \in Threads, op[t].at \in Holding
  PROVE  \A s \in Threads : s # t => op[s].at \notin Holding
BY DEF OneHolds

LEMMA LockKeeps ==
  ASSUME Inv, NEW t \in Threads, Lock(t)
  PROVE  Inv'
<1> DEFINE label == IF op[t].at = "start" THEN "join" ELSE "halt"
<1>1. /\ Free /\ Goto(t, label) /\ stop' = TRUE
      /\ UNCHANGED <<queue, history, current, advancing, player, wish, commands>>
  BY DEF Lock
<1>2. label \in {"join", "halt"}
  OBVIOUS
<1>3. OpTyped
  BY TypedOp DEF Inv
<1> HIDE DEF label
<1>4. /\ op' \in [Threads -> OpType] /\ op'[t].at = label
      /\ \A s \in Threads : s # t => op'[s] = op[s]
  BY <1>1, <1>2, <1>3, GotoAt DEF Labels
<1>5. \A s \in Threads : op[s].at \notin Holding
  BY <1>1 DEF Free
<1>6. Safe'
  BY <1>1, <1>2, <1>3, <1>4, <1>5, OnlyMover
<1>7. TypeOK'
  BY <1>1, <1>4 DEF Inv, TypeOK
<1> QED
  BY <1>6, <1>7 DEF Inv, Safe

\* The state after playback_thread has been joined.
LEMMA NoPlayerTyped ==
  ASSUME player' = [at |-> "none", uri |-> None, next |-> None]
  PROVE  player' \in PlayerType /\ player'.at = "none"
BY DEF PlayerType

LEMMA JoinKeeps ==
  ASSUME Inv, NEW t \in Threads, Join(t)
  PROVE  Inv'
<1>1. /\ op[t].at = "join" /\ Goto(t, "push") /\ stop' = FALSE
      /\ player' = [at |-> "none", uri |-> None, next |-> None]
      /\ UNCHANGED <<queue, history, current, advancing, wish, commands>>
  BY DEF Join
<1>2. OpTyped
  BY TypedOp DEF Inv
<1>3. /\ op' \in [Threads -> OpType] /\ op'[t].at = "push"
      /\ \A s \in Threads : s # t => op'[s] = op[s]
  BY <1>1, <1>2, GotoAt DEF Labels
<1>4. \A s \in Threads : s # t => op[s].at \notin Holding
  BY <1>1, OthersFree DEF Inv, Holding
<1>5. player' \in PlayerType /\ player'.at = "none"
  BY <1>1, NoPlayerTyped
<1>6. Safe'
  BY <1>1, <1>2, <1>3, <1>4, <1>5, OnlyMover
<1>7. TypeOK'
  BY <1>1, <1>3, <1>5 DEF Inv, TypeOK, PlayerType
<1> QED
  BY <1>6, <1>7 DEF Inv, Safe

\* A thread past the join sees stop_flag down.
LEMMA StopDown ==
  ASSUME OneHolds, StopFlag, NEW t \in Threads, op[t].at \in {"push", "launch"}
  PROVE  ~stop
<1>1. \A s \in Threads : op[s].at \notin {"join", "halt"}
  BY DEF OneHolds, Holding
<1> QED
  BY <1>1, Zenon DEF StopFlag

LEMMA PushKeeps ==
  ASSUME Inv, NEW t \in Threads, Push(t)
  PROVE  Inv'
<1>1. /\ op[t].at = "push" /\ Goto(t, "launch")
      /\ UNCHANGED <<queue, current, advancing, stop, player, wish, commands>>
  BY DEF Push
<1>2. OpTyped
  BY TypedOp DEF Inv
<1>3. /\ op' \in [Threads -> OpType] /\ op'[t].at = "launch"
      /\ \A s \in Threads : s # t => op'[s] = op[s]
  BY <1>1, <1>2, GotoAt DEF Labels
<1>4. \A s \in Threads : s # t => op[s].at \notin Holding
  BY <1>1, OthersFree DEF Inv, Holding
<1>5. ~stop /\ player.at = "none"
  BY <1>1, StopDown DEF Inv, Joined
<1>6. Safe'
  BY <1>1, <1>2, <1>3, <1>4, <1>5, OnlyMover
<1>7. history' \in Seq(Tracks) /\ Len(history') <= MaxHistory
  <2>1. history \in Seq(Tracks) /\ Len(history) <= MaxHistory
    BY DEF Inv, TypeOK
  <2>2. CASE op[t].push /\ current \notin {None, op[t].uri}
    <3>1. current \in Tracks
      BY <2>2 DEF Inv, TypeOK
    <3>2. history' = Capped(Append(history, current))
      BY <2>2 DEF Push
    <3> QED
      BY <2>1, <3>1, <3>2, CappedFacts
  <2>3. CASE ~(op[t].push /\ current \notin {None, op[t].uri})
    <3>1. history' = history
      BY <2>3, Zenon DEF Push
    <3> QED
      BY <2>1, <3>1
  <2> QED
    BY <2>2, <2>3
<1>8. TypeOK'
  BY <1>1, <1>3, <1>7 DEF Inv, TypeOK
<1> QED
  BY <1>6, <1>8 DEF Inv, Safe

LEMMA HaltKeeps ==
  ASSUME Inv, NEW t \in Threads, Halt(t)
  PROVE  Inv'
<1>1. /\ op[t].at = "halt" /\ Become(t, Idle) /\ stop' = FALSE
      /\ player' = [at |-> "none", uri |-> None, next |-> None]
      /\ Wished(t, "silence")
      /\ UNCHANGED <<queue, history, current, advancing, commands>>
  BY DEF Halt
<1>2. OpTyped
  BY TypedOp DEF Inv
<1>3. /\ op' \in [Threads -> OpType] /\ op'[t].at = "idle"
      /\ \A s \in Threads : s # t => op'[s] = op[s]
  BY <1>1, <1>2, BecomeAt, Entries
<1>4. \A s \in Threads : s # t => op[s].at \notin Holding
  BY <1>1, OthersFree DEF Inv, Holding
<1>5. player' \in PlayerType /\ player'.at = "none"
  BY <1>1, NoPlayerTyped
<1>6. Safe'
  BY <1>1, <1>2, <1>3, <1>4, <1>5, OnlyMover
<1>7. wish' \in {"any", "silence", None} \cup Tracks \cup Commander
  BY <1>1 DEF Wished, Inv, TypeOK
<1>8. TypeOK'
  BY <1>1, <1>3, <1>5, <1>7 DEF Inv, TypeOK, PlayerType
<1> QED
  BY <1>6, <1>8 DEF Inv, Safe

LEMMA LaunchKeeps ==
  ASSUME Inv, NEW t \in Threads, Launch(t)
  PROVE  Inv'
<1>1. /\ op[t].at = "launch" /\ current' = op[t].uri
      /\ player' = [at |-> "run", uri |-> op[t].uri, next |-> None]
      /\ Goto(t, "finish") \/ Become(t, Idle)
      /\ UNCHANGED <<queue, history, advancing, stop, commands>>
  BY DEF Launch
<1>2. OpTyped /\ op[t].uri \in Tracks \cup {None}
  BY TypedOp DEF Inv, OpTyped, OpType
<1>3. /\ op' \in [Threads -> OpType] /\ op'[t].at \in {"finish", "idle"}
      /\ \A s \in Threads : s # t => op'[s] = op[s]
  <2>1. CASE Goto(t, "finish")
    BY <1>2, <2>1, GotoAt DEF Labels
  <2>2. CASE Become(t, Idle)
    BY <1>2, <2>2, BecomeAt, Entries
  <2> QED
    BY <1>1, <2>1, <2>2
<1>4. \A s \in Threads : s # t => op[s].at \notin Holding
  BY <1>1, OthersFree DEF Inv, Holding
<1>5. ~stop
  BY <1>1, StopDown DEF Inv
<1>6. Safe'
  BY <1>1, <1>2, <1>3, <1>4, <1>5, OnlyMover
<1>7. player' \in PlayerType
  BY <1>1, <1>2 DEF PlayerType
<1>8. wish' \in {"any", "silence", None} \cup Tracks \cup Commander
  <2>1. CASE wish' = wish
    BY <2>1 DEF Inv, TypeOK
  <2>2. CASE Wished(t, op[t].uri)
    BY <1>2, <2>2 DEF Wished, Inv, TypeOK
  <2> QED
    BY <2>1, <2>2 DEF Launch
<1>9. TypeOK'
  BY <1>1, <1>2, <1>3, <1>7, <1>8 DEF Inv, TypeOK, PlayerType
<1> QED
  BY <1>6, <1>9 DEF Inv, Safe

-----------------------------------------------------------------------------
(* The theorem.                                                            *)

LEMMA InitInv == Init => Inv
<1> SUFFICES ASSUME Init PROVE Inv
  OBVIOUS
<1>1. op = [t \in Threads |-> Idle]
  BY DEF Init
<1>2. \A t \in Threads : op[t] = Idle
  BY <1>1
<1>3. \A t \in Threads : op[t].at = "idle"
  BY <1>2, Entries
<1>4. op \in [Threads -> OpType]
  BY <1>1, Entries
<1>5. OneHolds /\ Joined
  BY <1>3 DEF OneHolds, Joined, Holding
<1>6. StopFlag
  <2>1. ~stop /\ ~\E t \in Threads : op[t].at \in {"join", "halt"}
    BY <1>3 DEF Init
  <2> QED
    BY <2>1, Zenon DEF StopFlag
<1>7. player \in PlayerType
  BY DEF Init, PlayerType
<1>8. /\ queue \in Seq(Tracks) /\ history \in Seq(Tracks)
      /\ Len(history) <= MaxHistory
  BY PlaybackAssumption DEF Init
<1>9. /\ current \in Tracks \cup {None} /\ advancing \in BOOLEAN /\ stop \in BOOLEAN
      /\ wish \in {"any", "silence", None} \cup Tracks \cup Commander
      /\ commands \in Nat
  BY DEF Init
<1> QED
  BY <1>4, <1>5, <1>6, <1>7, <1>8, <1>9 DEF Inv, TypeOK, PlayerType

\* A step outside the transitions keeps the invariant.
LEMMA QuietKeeps ==
  ASSUME Inv, TypeOK' /\ Outside
  PROVE  Inv'
BY OutsideKeeps, TypedOp DEF Inv

LEMMA NextInv == Inv /\ [Next]_vars => Inv'
<1> SUFFICES ASSUME Inv, [Next]_vars PROVE Inv'
  OBVIOUS
<1>0. TypeOK
  BY DEF Inv
<1>1. ASSUME NEW t \in Commander, Command(t) PROVE Inv'
  <2>0. t \in Threads
    BY DEF Commander, Threads
  <2>1. ASSUME NEW uri \in Tracks, PlayTrack(t, uri) PROVE Inv'
    BY <1>0, <2>0, <2>1, PlayTrackOutside, QuietKeeps
  <2>2. ASSUME NEW uri \in Tracks, NEW front \in BOOLEAN, Enqueue(t, uri, front)
        PROVE  Inv'
    BY <1>0, <2>0, <2>2, EnqueueOutside, QuietKeeps
  <2>3. CASE ClearQueue(t)
    BY <1>0, <2>0, <2>3, ClearQueueOutside, QuietKeeps
  <2>4. CASE NextTrack(t)
    BY <1>0, <2>0, <2>4, NextTrackOutside, QuietKeeps
  <2>5. CASE Previous(t)
    BY <1>0, <2>0, <2>5, PreviousOutside, QuietKeeps
  <2>6. CASE StopTrack(t)
    BY <1>0, <2>0, <2>6, StopTrackOutside, QuietKeeps
  <2> QED
    BY <1>1, <2>1, <2>2, <2>3, <2>4, <2>5, <2>6 DEF Command
<1>2. CASE CloudCommand
  BY <1>0, <1>2, OnSkipNextOutside, OnTransferOutside, QuietKeeps DEF CloudCommand
<1>3. ASSUME NEW t \in Threads, Lock(t) \/ Advance(t) PROVE Inv'
  <2>1. CASE Lock(t)
    BY <2>1, LockKeeps
  <2>2. CASE AskContext(t)
    BY <1>0, <2>2, AskContextOutside, QuietKeeps
  <2>3. CASE Back(t)
    BY <1>0, <2>3, BackOutside, QuietKeeps
  <2>4. CASE Transfer(t)
    BY <1>0, <2>4, TransferOutside, QuietKeeps
  <2>5. CASE Join(t)
    BY <2>5, JoinKeeps
  <2>6. CASE Push(t)
    BY <2>6, PushKeeps
  <2>7. CASE Launch(t)
    BY <2>7, LaunchKeeps
  <2>8. CASE Halt(t)
    BY <2>8, HaltKeeps
  <2>9. CASE Finish(t)
    BY <1>0, <2>9, FinishOutside, QuietKeeps
  <2> QED
    BY <1>3, <2>1, <2>2, <2>3, <2>4, <2>5, <2>6, <2>7, <2>8, <2>9 DEF Advance
<1>4. CASE PlayerStep
  <2>1. CASE Quit
    BY <1>0, <2>1, QuitOutside, QuietKeeps
  <2>2. ASSUME NEW unplayable \in BOOLEAN, EndOfTrack(unplayable) PROVE Inv'
    BY <1>0, <2>2, EndOfTrackOutside, QuietKeeps
  <2>3. CASE PopQueue
    BY <1>0, <2>3, PopQueueOutside, QuietKeeps
  <2>4. CASE AdvanceContext
    BY <1>0, <2>4, AdvanceContextOutside, QuietKeeps
  <2>5. CASE SpawnAdvance
    BY <1>0, <2>5, SpawnAdvanceOutside, QuietKeeps
  <2> QED
    BY <1>4, <2>1, <2>2, <2>3, <2>4, <2>5 DEF PlayerStep
<1>5. CASE UNCHANGED vars
  <2>1. /\ op' = op /\ stop' = stop /\ player' = player
        /\ UNCHANGED <<queue, history, current, advancing, wish, commands>>
    BY <1>5 DEF vars
  <2>2. Outside
    BY <2>1, SameOpOutside
  <2>3. TypeOK'
    BY <1>0, <2>1 DEF TypeOK
  <2> QED
    BY <2>2, <2>3, QuietKeeps
<1> QED
  BY <1>1, <1>2, <1>3, <1>4, <1>5 DEF Next

\* The invariant gives the two properties.
LEMMA InvSafe == Inv => TypeOK /\ LaunchSafe /\ StopFlag
<1> SUFFICES ASSUME Inv PROVE LaunchSafe
  BY DEF Inv
<1>1. SUFFICES ASSUME NEW t \in Threads, op[t].at \in {"push", "launch"}
               PROVE  ~Joinable /\ \A s \in Threads \ {t} : op[s].at \notin Holding
  BY DEF LaunchSafe
<1>2. ~Joinable
  BY <1>1 DEF Inv, Joined, Joinable
<1>3. \A s \in Threads \ {t} : op[s].at \notin Holding
  BY <1>1, OthersFree DEF Inv, Holding
<1> QED
  BY <1>2, <1>3

\* For every set of tracks, hosts and helpers: start_playback assigns to
\* playback_thread only when it holds no thread, and alone; stop_flag is up
\* exactly while a transition waits for the playback thread.
THEOREM PlaybackSafe == Spec => [](TypeOK /\ LaunchSafe /\ StopFlag)
<1>1. Spec => []Inv
  BY InitInv, NextInv, PTL DEF Spec
<1> QED
  BY <1>1, InvSafe, PTL

\* A stop is neither lost before the join nor left over for the next track.
THEOREM PlaybackStops == Spec => []StopFlag
BY PlaybackSafe, PTL

\* Queue, history and the places of all threads keep their types.
THEOREM PlaybackTypes == Spec => []TypeOK
BY PlaybackSafe, PTL

-----------------------------------------------------------------------------
(* Counting what is due.                                                   *)

Bearing == {"transfer", "start", "join", "push", "launch", "back"}

\* A thread is on its way to starting uri.
Bears(x, uri) == x.uri = uri /\ x.at \in Bearing

\* The three parts of Due: the queue, the threads and the player.
Queued(q, uri) == Cardinality({i \in DOMAIN q : q[i] = uri})
Borne(f, uri) == Cardinality({t \in Threads : Bears(f[t], uri)})
Popped(p, uri) == IF p.at = "advance" /\ p.next = uri THEN 1 ELSE 0

\* What one thread and one place of the queue contribute.
Load(x, uri) == IF Bears(x, uri) THEN 1 ELSE 0
Same(new, uri) == IF new = uri THEN 1 ELSE 0

LEMMA DueIs ==
  ASSUME NEW uri
  PROVE  /\ Due(uri) = Queued(queue, uri) + Borne(op, uri) + Popped(player, uri)
         /\ Due(uri)' = Queued(queue', uri) + Borne(op', uri) + Popped(player', uri)
BY DEF Due, Queued, Borne, Popped, Bears, Bearing

LEMMA LoadType ==
  ASSUME NEW x, NEW uri
  PROVE  Load(x, uri) \in {0, 1} /\ Same(x, uri) \in {0, 1}
BY DEF Load, Same

LEMMA ThreadsFinite == IsFiniteSet(Threads)
<1>1. IsFiniteSet(Hosts) /\ IsFiniteSet(Helpers) /\ IsFiniteSet({Dealer})
  BY PlaybackAssumption, FS_Singleton
<1>2. IsFiniteSet(Hosts \cup {Dealer})
  BY <1>1, FS_Union
<1> QED
  BY <1>1, <1>2, FS_Union DEF Threads

LEMMA BorneType ==
  ASSUME NEW f, NEW uri
  PROVE  /\ IsFiniteSet({t \in Threads : Bears(f[t], uri)})
         /\ Borne(f, uri) \in Nat
<1>1. {t \in Threads : Bears(f[t], uri)} \in SUBSET Threads
  OBVIOUS
<1>2. IsFiniteSet({t \in Threads : Bears(f[t], uri)})
  BY <1>1, ThreadsFinite, FS_Subset
<1> QED
  BY <1>2, FS_CardinalityType DEF Borne

\* One thread moves: the count changes by what that thread bears.
LEMMA BorneMoves ==
  ASSUME NEW t \in Threads, \A s \in Threads : s # t => op'[s] = op[s], NEW uri
  PROVE  Borne(op', uri) + Load(op[t], uri) = Borne(op, uri) + Load(op'[t], uri)
<1> DEFINE S == {s \in Threads : Bears(op[s], uri)}
           T == {s \in Threads : Bears(op'[s], uri)}
           R == S \ {t}
<1>1. IsFiniteSet(S) /\ IsFiniteSet(T) /\ R = T \ {t}
  BY BorneType
<1>2. (t \in S <=> Bears(op[t], uri)) /\ (t \in T <=> Bears(op'[t], uri))
  OBVIOUS
<1>3. Borne(op, uri) = Cardinality(S) /\ Borne(op', uri) = Cardinality(T)
  BY DEF Borne
<1> HIDE DEF S, T
<1>4. Cardinality(S) \in Nat /\ Cardinality(T) \in Nat
  BY <1>1, FS_CardinalityType
<1>5. /\ Cardinality(R) = IF t \in S THEN Cardinality(S) - 1 ELSE Cardinality(S)
      /\ Cardinality(R) = IF t \in T THEN Cardinality(T) - 1 ELSE Cardinality(T)
  BY <1>1, FS_RemoveElement
<1> QED
  BY <1>2, <1>3, <1>4, <1>5 DEF Load

LEMMA QueuedType ==
  ASSUME NEW q \in Seq(Tracks), NEW uri
  PROVE  /\ IsFiniteSet({i \in DOMAIN q : q[i] = uri})
         /\ Queued(q, uri) \in Nat
<1>1. IsFiniteSet(DOMAIN q)
  <2>1. DOMAIN q = 1..Len(q) /\ Len(q) \in Nat
    OBVIOUS
  <2> QED
    BY <2>1, FS_Interval
<1>2. {i \in DOMAIN q : q[i] = uri} \in SUBSET DOMAIN q
  OBVIOUS
<1>3. IsFiniteSet({i \in DOMAIN q : q[i] = uri})
  BY <1>1, <1>2, FS_Subset
<1> QED
  BY <1>3, FS_CardinalityType DEF Queued

\* The head of the queue is taken off ...
LEMMA QueuedTail ==
  ASSUME NEW q \in Seq(Tracks), q # <<>>, NEW uri
  PROVE  Queued(Tail(q), uri) + Same(Head(q), uri) = Queued(q, uri)
<1> DEFINE S == {i \in DOMAIN q : q[i] = uri}
           T == {i \in DOMAIN Tail(q) : Tail(q)[i] = uri}
           R == S \ {1}
<1>1. PICK n \in Nat \ {0} : DOMAIN q = 1..n /\ Len(q) = n
  OBVIOUS
<1>2. /\ Tail(q) \in Seq(Tracks) /\ DOMAIN Tail(q) = 1..(n - 1)
      /\ \A i \in 1..(n - 1) : Tail(q)[i] = q[i + 1]
      /\ Head(q) = q[1]
  BY <1>1
<1>3. S = {i \in 1..n : q[i] = uri} /\ T = {i \in 1..(n - 1) : q[i + 1] = uri}
  BY <1>1, <1>2
<1>4. IsFiniteSet(S) /\ IsFiniteSet(T)
  BY <1>2, QueuedType
<1>5. Queued(q, uri) = Cardinality(S) /\ Queued(Tail(q), uri) = Cardinality(T)
  BY DEF Queued
<1> HIDE DEF S, T
<1>6. Cardinality(R) = Cardinality(T)
  <2> DEFINE f == [i \in T |-> i + 1]
  <2>1. \A i \in T : f[i] \in R
    BY <1>3
  <2>2. \A i, j \in T : f[i] = f[j] => i = j
    BY <1>3
  <2>3. \A k \in R : k - 1 \in T /\ f[k - 1] = k
    BY <1>3
  <2>4. f \in [T -> R]
    BY <2>1
  <2> HIDE DEF f
  <2>5. f \in Bijection(T, R)
    BY <2>2, <2>3, <2>4 DEF Bijection, Injection, Surjection, IsInjective
  <2>6. ExistsBijection(T, R)
    BY <2>5 DEF ExistsBijection
  <2> QED
    BY <2>6, <1>4, FS_Bijection
<1>7. 1 \in S <=> Head(q) = uri
  BY <1>2, <1>3
<1>8. Cardinality(S) \in Nat /\ Cardinality(T) \in Nat
  BY <1>4, FS_CardinalityType
<1>9. Cardinality(R) = IF 1 \in S THEN Cardinality(S) - 1 ELSE Cardinality(S)
  BY <1>4, FS_RemoveElement
<1> QED
  BY <1>5, <1>6, <1>7, <1>8, <1>9 DEF Same

\* ... a track is put in front ...
LEMMA QueuedFront ==
  ASSUME NEW q \in Seq(Tracks), NEW new \in Tracks, NEW uri
  PROVE  Queued(<<new>> \o q, uri) = Queued(q, uri) + Same(new, uri)
<1>1. PICK p : p = <<new>> \o q
  OBVIOUS
<1>2. <<new>> \in Seq(Tracks)
  OBVIOUS
<1>3. p \in Seq(Tracks) /\ p # <<>> /\ Head(p) = new /\ Tail(p) = q
  BY <1>1
<1>4. Queued(q, uri) + Same(new, uri) = Queued(p, uri)
  BY <1>3, QueuedTail
<1> QED
  BY <1>1, <1>4

\* ... or behind.
LEMMA QueuedBehind ==
  ASSUME NEW q \in Seq(Tracks), NEW new \in Tracks, NEW uri
  PROVE  Queued(Append(q, new), uri) >= Queued(q, uri)
<1> DEFINE S == {i \in DOMAIN q : q[i] = uri}
           T == {i \in DOMAIN Append(q, new) : Append(q, new)[i] = uri}
<1>1. Append(q, new) \in Seq(Tracks)
  OBVIOUS
<1>2. IsFiniteSet(T) /\ Queued(Append(q, new), uri) \in Nat /\ Queued(q, uri) \in Nat
  BY <1>1, QueuedType
<1>3. S \in SUBSET T
  OBVIOUS
<1>4. Cardinality(S) <= Cardinality(T)
  BY <1>2, <1>3, FS_Subset
<1> QED
  BY <1>2, <1>4 DEF Queued

LEMMA QueuedNone == ASSUME NEW uri PROVE Queued(<<>>, uri) = 0
<1>1. {i \in DOMAIN <<>> : <<>>[i] = uri} = {}
  OBVIOUS
<1> QED
  BY <1>1, FS_EmptySet DEF Queued

-----------------------------------------------------------------------------
(* QueueKept, action by action.                                            *)

\* What QueueKept says of one step and one track.
Kept(uri) ==
  /\ Due(uri)' < Due(uri) =>
       \/ current' = uri /\ player'.at = "run" /\ ~Joinable
       \/ queue' = <<>> /\ commands' > commands
       \/ current = uri /\ \E t \in Threads : op[t].at = "transfer"
  /\ Due(uri)' > Due(uri) =>
       \/ commands' > commands
       \/ player.at = "ask"
       \/ \E t \in Threads : op[t].at \in {"ask", "back"}

\* The three parts of Due are numbers.
LEMMA Parts ==
  ASSUME TypeOK, NEW uri
  PROVE  /\ Queued(queue, uri) \in Nat
         /\ Popped(player, uri) \in Nat /\ Popped(player', uri) \in Nat
BY QueuedType DEF TypeOK, Popped

\* What the threads bear when one takes up something else ...
LEMMA BecomeBorne ==
  ASSUME TypeOK, NEW t \in Threads, NEW x \in OpType, Become(t, x), NEW uri
  PROVE  /\ Borne(op, uri) \in Nat /\ Borne(op', uri) \in Nat
         /\ Borne(op', uri) + Load(op[t], uri) = Borne(op, uri) + Load(x, uri)
<1>1. op'[t] = x /\ \A s \in Threads : s # t => op'[s] = op[s]
  BY BecomeAt, TypedOp
<1>2. Borne(op', uri) + Load(op[t], uri) = Borne(op, uri) + Load(op'[t], uri)
  BY <1>1, BorneMoves
<1>3. Borne(op, uri) \in Nat /\ Borne(op', uri) \in Nat
  BY BorneType
<1> QED
  BY <1>1, <1>2, <1>3

\* ... and when one goes on with what it bears.
LEMMA GotoBorne ==
  ASSUME TypeOK, NEW t \in Threads, NEW label \in Labels, Goto(t, label),
         op[t].at \in Bearing => label \in Bearing, NEW uri
  PROVE  /\ Borne(op, uri) \in Nat /\ Borne(op', uri) \in Nat
         /\ Borne(op', uri) >= Borne(op, uri)
         /\ op[t].at \in Bearing \/ label \notin Bearing => Borne(op', uri) = Borne(op, uri)
<1>1. /\ op'[t].at = label /\ op'[t].uri = op[t].uri
      /\ \A s \in Threads : s # t => op'[s] = op[s]
  BY GotoAt, TypedOp
<1>2. Borne(op', uri) + Load(op[t], uri) = Borne(op, uri) + Load(op'[t], uri)
  BY <1>1, BorneMoves
<1>3. Borne(op, uri) \in Nat /\ Borne(op', uri) \in Nat
  BY BorneType
<1> QED
  BY <1>1, <1>2, <1>3 DEF Load, Bears

\* A thread at rest bears nothing; one that begins, what it begins with.
LEMMA AtRest ==
  ASSUME NEW x, x.at \notin Bearing, NEW uri
  PROVE  Load(x, uri) = 0
BY DEF Load, Bears

LEMMA Beginner ==
  ASSUME NEW kind, NEW new, NEW push, NEW uri
  PROVE  Load(Start(kind, new, push), uri) = Same(new, uri)
BY DEF Load, Same, Bears, Bearing, Start

\* A step of a command that takes nothing away.
LEMMA Commanded ==
  ASSUME TypeOK, NEW t \in Threads, Begin(t), NEW uri, ~(Due(uri)' < Due(uri))
  PROVE  Kept(uri)
<1>1. commands' > commands
  BY DEF Begin, TypeOK
<1> QED
  BY <1>1 DEF Kept

\* A step that leaves the numbers alone.
LEMMA Unmoved ==
  ASSUME NEW uri, Due(uri)' = Due(uri), Due(uri) \in Nat
  PROVE  Kept(uri)
BY DEF Kept

\* The queue is emptied by a command.
LEMMA Cleared ==
  ASSUME TypeOK, NEW t \in Threads, Begin(t), queue' = <<>>, NEW uri
  PROVE  Kept(uri)
<1>1. commands' > commands
  BY DEF Begin, TypeOK
<1> QED
  BY <1>1 DEF Kept

\* A thread goes on, the queue stays, and the player has nothing or keeps it.
LEMMA GoesOnKept ==
  ASSUME TypeOK, NEW t \in Threads, NEW label \in Labels, Goto(t, label),
         op[t].at \in Bearing <=> label \in Bearing, queue' = queue, NEW uri,
         Popped(player', uri) = Popped(player, uri)
  PROVE  Kept(uri) /\ ~(Due(uri)' < Due(uri))
<1>1. Borne(op, uri) \in Nat /\ Borne(op', uri) = Borne(op, uri)
  BY GotoBorne
<1>2. Due(uri)' = Due(uri) /\ Due(uri) \in Nat
  BY <1>1, DueIs, Parts
<1> QED
  BY <1>2, Unmoved

LEMMA EnqueueKept ==
  ASSUME TypeOK, NEW t \in Threads, NEW new \in Tracks, NEW front \in BOOLEAN,
         Enqueue(t, new, front), NEW uri
  PROVE  Kept(uri)
<1>1. Begin(t) /\ player' = player /\ op[t].at = "idle"
  BY DEF Enqueue, Begin
<1>2. \/ Become(t, Start("host", new, TRUE)) /\ queue' = queue
      \/ op' = op /\ queue' = <<new>> \o queue
      \/ op' = op /\ queue' = Append(queue, new)
  BY DEF Enqueue
<1>3. Queued(queue, uri) \in Nat /\ Popped(player, uri) \in Nat
  BY Parts
<1>4. Borne(op, uri) \in Nat
  BY BorneType
<1>5. Queued(queue', uri) \in Nat /\ Queued(queue', uri) >= Queued(queue, uri)
  <2>1. queue \in Seq(Tracks)
    BY DEF TypeOK
  <2>2. Queued(<<new>> \o queue, uri) = Queued(queue, uri) + Same(new, uri)
    BY <2>1, QueuedFront
  <2>3. Queued(Append(queue, new), uri) >= Queued(queue, uri)
    BY <2>1, QueuedBehind
  <2>4. Append(queue, new) \in Seq(Tracks)
    BY <2>1
  <2>5. Queued(Append(queue, new), uri) \in Nat
    BY <2>4, QueuedType
  <2>6. Same(new, uri) \in {0, 1}
    BY LoadType
  <2>7. CASE queue' = queue
    BY <1>3, <2>7
  <2>8. CASE queue' = <<new>> \o queue
    BY <1>3, <2>2, <2>6, <2>8
  <2>9. CASE queue' = Append(queue, new)
    BY <2>3, <2>5, <2>9
  <2> QED
    BY <1>2, <2>7, <2>8, <2>9
<1>6. Borne(op', uri) \in Nat /\ Borne(op', uri) >= Borne(op, uri)
  <2>1. CASE Become(t, Start("host", new, TRUE))
    <3>1. PICK x \in OpType : Become(t, x)
      BY <2>1, Entries DEF Kinds
    <3>2. Load(op[t], uri) = 0 /\ Load(x, uri) \in {0, 1}
      BY <1>1, AtRest, LoadType DEF Bearing
    <3>3. /\ Borne(op', uri) \in Nat
          /\ Borne(op', uri) + Load(op[t], uri) = Borne(op, uri) + Load(x, uri)
      BY <3>1, BecomeBorne
    <3> QED
      BY <1>4, <3>2, <3>3
  <2>2. CASE op' = op
    BY <1>4, <2>2
  <2> QED
    BY <1>2, <2>1, <2>2
<1>7. ~(Due(uri)' < Due(uri))
  BY <1>1, <1>3, <1>4, <1>5, <1>6, DueIs
<1> QED
  BY <1>1, <1>7, Commanded

\* The head of the queue passes to a thread that was at rest.
LEMMA HandedOver ==
  ASSUME TypeOK, NEW t \in Threads, op[t].at = "idle", queue # <<>>, queue' = Tail(queue),
         NEW kind \in Kinds, Become(t, Start(kind, Head(queue), TRUE)), player' = player,
         NEW uri
  PROVE  Due(uri)' = Due(uri) /\ Due(uri) \in Nat
<1>1. queue \in Seq(Tracks) /\ Head(queue) \in Tracks /\ Tail(queue) \in Seq(Tracks)
  BY QueueFacts DEF TypeOK
<1> DEFINE new == Head(queue)
           x   == Start(kind, new, TRUE)
<1>2. x \in OpType /\ Become(t, x)
  BY <1>1, Entries
<1>3. Load(op[t], uri) = 0
  BY AtRest DEF Bearing
<1>4. Load(x, uri) = Same(new, uri)
  BY Beginner
<1>5. Queued(queue', uri) + Same(new, uri) = Queued(queue, uri)
  BY <1>1, QueuedTail
<1>6. Queued(queue', uri) \in Nat /\ Same(new, uri) \in {0, 1}
  BY <1>1, QueuedType, LoadType
<1> HIDE DEF x, new
<1>7. /\ Borne(op, uri) \in Nat /\ Borne(op', uri) \in Nat
      /\ Borne(op', uri) + Load(op[t], uri) = Borne(op, uri) + Load(x, uri)
  BY <1>2, BecomeBorne
<1> QED
  BY <1>3, <1>4, <1>5, <1>6, <1>7, DueIs, Parts

LEMMA NextTrackKept ==
  ASSUME TypeOK, NEW t \in Threads, NextTrack(t), NEW uri
  PROVE  Kept(uri)
<1>1. Begin(t) /\ player' = player /\ op[t].at = "idle"
  BY DEF NextTrack, Begin
<1>2. ~(Due(uri)' < Due(uri))
  <2>1. CASE queue # <<>>
    <3>1. Become(t, Start("host", Head(queue), TRUE)) /\ queue' = Tail(queue)
      BY <2>1 DEF NextTrack
    <3>2. PICK kind \in Kinds : Become(t, Start(kind, Head(queue), TRUE))
      BY <3>1 DEF Kinds
    <3>3. Due(uri)' = Due(uri) /\ Due(uri) \in Nat
      BY <1>1, <2>1, <3>1, <3>2, HandedOver
    <3> QED
      BY <3>3
  <2>2. CASE queue = <<>>
    <3>1. Goto(t, "ask") /\ queue' = queue
      BY <2>2 DEF NextTrack
    <3> QED
      BY <1>1, <3>1, GoesOnKept DEF Labels, Bearing
  <2> QED
    BY <2>1, <2>2
<1> QED
  BY <1>1, <1>2, Commanded

\* A thread at rest takes up a track, by command or from the context.
LEMMA TakesUp ==
  ASSUME TypeOK, NEW t \in Threads, op[t].at \notin Bearing, NEW x \in OpType, Become(t, x),
         queue' = queue, player' = player, NEW uri
  PROVE  ~(Due(uri)' < Due(uri))
<1>1. /\ Borne(op, uri) \in Nat /\ Borne(op', uri) \in Nat
      /\ Borne(op', uri) + Load(op[t], uri) = Borne(op, uri) + Load(x, uri)
  BY BecomeBorne
<1>2. Load(op[t], uri) = 0 /\ Load(x, uri) \in {0, 1}
  BY AtRest, LoadType
<1> QED
  BY <1>1, <1>2, DueIs, Parts

LEMMA AskContextKept ==
  ASSUME TypeOK, NEW t \in Threads, AskContext(t), NEW uri
  PROVE  Kept(uri)
<1>1. op[t].at = "ask" /\ queue' = queue /\ player' = player
  BY DEF AskContext
<1>2. PICK x \in OpType : Become(t, x)
  <2>1. CASE Become(t, Idle)
    BY <2>1, Entries
  <2>2. CASE \E new \in Tracks : Become(t, Start("host", new, TRUE))
    BY <2>2, Entries DEF Kinds
  <2> QED
    BY <2>1, <2>2 DEF AskContext
<1>3. ~(Due(uri)' < Due(uri))
  BY <1>1, <1>2, TakesUp DEF Bearing
<1> QED
  BY <1>1, <1>3 DEF Kept

LEMMA PreviousKept ==
  ASSUME TypeOK, NEW t \in Threads, Previous(t), NEW uri
  PROVE  Kept(uri)
<1> DEFINE kind == IF t = Dealer THEN "advance" ELSE "host"
           last == history[Len(history)]
           x    == [Start(kind, last, FALSE) EXCEPT !.at = "back"]
<1>1. /\ Begin(t) /\ op[t].at = "idle" /\ history # <<>> /\ Become(t, x)
      /\ queue' = queue /\ player' = player
  BY DEF Previous, Begin
<1>2. last \in Tracks /\ kind \in Kinds
  BY <1>1, HistoryFacts DEF TypeOK, Kinds
<1> HIDE DEF kind, last
<1>3. x \in OpType
  BY <1>2 DEF Start, OpType, Labels
<1> HIDE DEF x
<1>4. ~(Due(uri)' < Due(uri))
  BY <1>1, <1>3, TakesUp DEF Bearing
<1> QED
  BY <1>1, <1>4, Commanded

LEMMA StopTrackKept ==
  ASSUME TypeOK, NEW t \in Threads, StopTrack(t), NEW uri
  PROVE  Kept(uri)
<1>1. /\ Begin(t) /\ op[t].at = "idle" /\ Goto(t, "stop")
      /\ queue' = queue /\ player' = player
  BY DEF StopTrack, Begin
<1> QED
  BY <1>1, GoesOnKept DEF Labels, Bearing

LEMMA OnTransferKept ==
  ASSUME TypeOK, NEW new \in Tracks, OnTransfer(new), NEW uri
  PROVE  Kept(uri)
<1> DEFINE x == [Start("transfer", new, TRUE) EXCEPT !.at = "transfer"]
<1>1. Begin(Dealer) /\ queue' = queue /\ player' = player
  BY DEF OnTransfer
<1>2. PICK h \in Helpers : op[h].at = "idle" /\ Become(h, x)
  BY DEF OnTransfer
<1>3. x \in OpType
  BY DEF Start, OpType, Labels, Kinds
<1> HIDE DEF x
<1>4. h \in Threads
  BY DEF Threads
<1>5. ~(Due(uri)' < Due(uri))
  BY <1>1, <1>2, <1>3, <1>4, TakesUp DEF Bearing
<1> QED
  BY <1>1, <1>5, DealerIsThread, Commanded

LEMMA OnSkipNextKept ==
  ASSUME TypeOK, OnSkipNext, NEW uri
  PROVE  Kept(uri)
<1>1. Begin(Dealer) /\ queue # <<>> /\ queue' = Tail(queue) /\ player' = player
  BY DEF OnSkipNext
<1>2. PICK h \in Helpers : op[h].at = "idle" /\ Become(h, Start("advance", Head(queue), TRUE))
  BY DEF OnSkipNext
<1>3. h \in Threads
  BY DEF Threads
<1>4. Due(uri)' = Due(uri) /\ Due(uri) \in Nat
  BY <1>1, <1>2, <1>3, HandedOver DEF Kinds
<1> QED
  BY <1>4, Unmoved

\* What one thread bears is taken over by another that was at rest.
LEMMA BearerChanges ==
  ASSUME NEW t \in Threads, NEW h \in Threads, t # h, NEW uri,
         op[h].at \notin Bearing, op'[t].at \notin Bearing,
         op'[h].uri = op[t].uri, op'[h].at \in Bearing, op[t].at \in Bearing,
         \A s \in Threads \ {t, h} : op'[s] = op[s]
  PROVE  Borne(op', uri) = Borne(op, uri)
<1> DEFINE S == {s \in Threads : Bears(op[s], uri)}
           T == {s \in Threads : Bears(op'[s], uri)}
<1>1. CASE op[t].uri = uri
  <2>1. /\ t \in S /\ h \notin S /\ t \notin T /\ h \in T
        /\ \A s \in Threads \ {t, h} : s \in S <=> s \in T
    BY <1>1 DEF Bears
  <2>2. T = (S \ {t}) \cup {h} /\ h \notin S \ {t}
    BY <2>1
  <2>3. Borne(op, uri) = Cardinality(S) /\ Borne(op', uri) = Cardinality(T)
    BY DEF Borne
  <2>4. IsFiniteSet(S)
    BY BorneType
  <2> HIDE DEF S, T
  <2>5. /\ IsFiniteSet(S \ {t}) /\ Cardinality(S) \in Nat
        /\ Cardinality(S \ {t}) = Cardinality(S) - 1
    BY <2>1, <2>4, FS_RemoveElement, FS_CardinalityType
  <2>6. Cardinality(T) = Cardinality(S \ {t}) + 1
    BY <2>2, <2>5, FS_AddElement
  <2> QED
    BY <2>3, <2>5, <2>6
<1>2. CASE op[t].uri # uri
  <2>1. \A s \in Threads : Bears(op[s], uri) <=> Bears(op'[s], uri)
    BY <1>2 DEF Bears
  <2>2. S = T
    BY <2>1
  <2> QED
    BY <2>2 DEF Borne
<1> QED
  BY <1>1, <1>2

LEMMA BackKept ==
  ASSUME TypeOK, NEW t \in Threads, Back(t), NEW uri
  PROVE  Kept(uri)
<1>1. op[t].at = "back" /\ queue' = PushFront(current) /\ player' = player
  BY DEF Back
<1>2. op \in [Threads -> OpType] /\ op[t] \in OpType /\ op[t].uri \in Tracks \cup {None}
  BY DEF TypeOK, OpType
<1>3. Queued(queue', uri) \in Nat /\ Queued(queue', uri) >= Queued(queue, uri)
  <2>1. queue \in Seq(Tracks) /\ Queued(queue, uri) \in Nat
    BY Parts DEF TypeOK
  <2>2. CASE current = None
    <3>1. queue' = queue
      BY <1>1, <2>2 DEF PushFront
    <3> QED
      BY <2>1, <3>1
  <2>3. CASE current # None
    <3>1. current \in Tracks /\ queue' = <<current>> \o queue
      BY <1>1, <2>3, Zenon DEF PushFront, TypeOK
    <3>2. Queued(<<current>> \o queue, uri) = Queued(queue, uri) + Same(current, uri)
      BY <2>1, <3>1, QueuedFront
    <3>3. Same(current, uri) \in {0, 1}
      BY LoadType
    <3> QED
      BY <2>1, <3>1, <3>2, <3>3
  <2> QED
    BY <2>2, <2>3
<1>4. /\ Borne(op, uri) \in Nat /\ Borne(op', uri) \in Nat
      /\ Borne(op', uri) >= Borne(op, uri)
  <2>1. CASE t = Dealer
    <3> DEFINE x == Start("advance", op[t].uri, FALSE)
    <3>1. PICK h \in Helpers : /\ op[h].at = "idle"
                               /\ op' = [op EXCEPT ![t] = Idle, ![h] = x]
      BY <2>1 DEF Back
    <3>2. h \in Threads /\ h # t
      BY <2>1, PlaybackAssumption DEF Threads
    <3>3. x.uri = op[t].uri /\ x.at = "start" /\ Idle.at = "idle"
      BY DEF Start, Idle
    <3> HIDE DEF x
    <3>4. /\ op'[h] = x /\ op'[t] = Idle
          /\ \A s \in Threads \ {t, h} : op'[s] = op[s]
      BY <1>2, <3>1, <3>2
    <3>5. /\ op'[h].uri = op[t].uri /\ op'[h].at \in Bearing /\ op[t].at \in Bearing
          /\ op'[t].at \notin Bearing /\ op[h].at \notin Bearing
      BY <1>1, <3>1, <3>3, <3>4 DEF Bearing
    <3>6. Borne(op', uri) = Borne(op, uri)
      BY <3>2, <3>4, <3>5, BearerChanges
    <3>7. Borne(op, uri) \in Nat
      BY BorneType
    <3> QED
      BY <3>6, <3>7
  <2>2. CASE t # Dealer
    <3>1. Goto(t, "start")
      BY <2>2 DEF Back
    <3> QED
      BY <1>1, <3>1, GotoBorne DEF Labels, Bearing
  <2> QED
    BY <2>1, <2>2
<1>5. ~(Due(uri)' < Due(uri))
  BY <1>1, <1>3, <1>4, DueIs, Parts
<1> QED
  BY <1>1, <1>5 DEF Kept

LEMMA TransferKept ==
  ASSUME TypeOK, NEW t \in Threads, Transfer(t), NEW uri
  PROVE  Kept(uri)
<1>1. op[t].at = "transfer" /\ queue' = queue /\ player' = player
  BY DEF Transfer
<1>2. CASE op[t].uri = current /\ Joinable /\ ~stop
  <2>1. Become(t, Idle)
    BY <1>2 DEF Transfer
  <2>2. /\ Borne(op, uri) \in Nat /\ Borne(op', uri) \in Nat
        /\ Borne(op', uri) + Load(op[t], uri) = Borne(op, uri) + Load(Idle, uri)
    BY <2>1, BecomeBorne, Entries
  <2>3. Load(Idle, uri) = 0 /\ Load(op[t], uri) \in {0, 1}
    BY AtRest, Entries, LoadType DEF Bearing
  <2>4. ~(Due(uri)' > Due(uri))
    BY <1>1, <2>2, <2>3, DueIs, Parts
  <2>5. Due(uri)' < Due(uri) => current = uri
    <3>1. SUFFICES ASSUME current # uri PROVE Due(uri)' = Due(uri) /\ Due(uri) \in Nat
      OBVIOUS
    <3>2. Load(op[t], uri) = 0
      BY <1>2, <3>1 DEF Load, Bears
    <3> QED
      BY <1>1, <2>2, <2>3, <3>2, DueIs, Parts
  <2> QED
    BY <1>1, <2>4, <2>5 DEF Kept
<1>3. CASE ~(op[t].uri = current /\ Joinable /\ ~stop)
  <2>1. Goto(t, "start")
    BY <1>3, Zenon DEF Transfer
  <2> QED
    BY <1>1, <2>1, GoesOnKept DEF Labels, Bearing
<1> QED
  BY <1>2, <1>3

LEMMA LockKept ==
  ASSUME TypeOK, NEW t \in Threads, Lock(t), NEW uri
  PROVE  Kept(uri)
<1>1. queue' = queue /\ player' = player
  BY DEF Lock
<1>2. CASE op[t].at = "start"
  <2>1. Goto(t, "join")
    BY <1>2 DEF Lock
  <2> QED
    BY <1>1, <1>2, <2>1, GoesOnKept DEF Labels, Bearing
<1>3. CASE op[t].at = "stop"
  <2>1. Goto(t, "halt")
    BY <1>3 DEF Lock
  <2> QED
    BY <1>1, <1>3, <2>1, GoesOnKept DEF Labels, Bearing
<1> QED
  BY <1>2, <1>3 DEF Lock

\* The joined playback thread has popped nothing.
LEMMA JoinedPopped ==
  ASSUME player.at \in {"none", "returned"},
         player' = [at |-> "none", uri |-> None, next |-> None], NEW uri
  PROVE  Popped(player', uri) = 0 /\ Popped(player, uri) = 0
BY DEF Popped

LEMMA JoinKept ==
  ASSUME TypeOK, NEW t \in Threads, Join(t), NEW uri
  PROVE  Kept(uri)
<1>1. /\ op[t].at = "join" /\ Goto(t, "push") /\ queue' = queue
      /\ player.at \in {"none", "returned"}
      /\ player' = [at |-> "none", uri |-> None, next |-> None]
  BY DEF Join
<1>2. Popped(player', uri) = Popped(player, uri)
  BY <1>1, JoinedPopped
<1> QED
  BY <1>1, <1>2, GoesOnKept DEF Labels, Bearing

LEMMA PushKept ==
  ASSUME TypeOK, NEW t \in Threads, Push(t), NEW uri
  PROVE  Kept(uri)
<1>1. op[t].at = "push" /\ Goto(t, "launch") /\ queue' = queue /\ player' = player
  BY DEF Push
<1> QED
  BY <1>1, GoesOnKept DEF Labels, Bearing

LEMMA RestKept ==
  ASSUME TypeOK, NEW t \in Threads, op[t].at \notin Bearing, Become(t, Idle),
         queue' = queue, NEW uri, Popped(player', uri) = Popped(player, uri)
  PROVE  Kept(uri)
<1>1. Idle \in OpType /\ Load(Idle, uri) = 0 /\ Load(op[t], uri) = 0
  BY AtRest, Entries DEF Bearing
<1>2. Borne(op, uri) \in Nat /\ Borne(op', uri) = Borne(op, uri)
  BY <1>1, BecomeBorne
<1>3. Due(uri)' = Due(uri) /\ Due(uri) \in Nat
  BY <1>2, DueIs, Parts
<1> QED
  BY <1>3, Unmoved

LEMMA HaltKept ==
  ASSUME TypeOK, NEW t \in Threads, Halt(t), NEW uri
  PROVE  Kept(uri)
<1>1. /\ op[t].at = "halt" /\ Become(t, Idle) /\ queue' = queue
      /\ player.at \in {"none", "returned"}
      /\ player' = [at |-> "none", uri |-> None, next |-> None]
  BY DEF Halt
<1>2. Popped(player', uri) = Popped(player, uri)
  BY <1>1, JoinedPopped
<1> QED
  BY <1>1, <1>2, RestKept DEF Bearing

LEMMA FinishKept ==
  ASSUME TypeOK, NEW h \in Threads, Finish(h), NEW uri
  PROVE  Kept(uri)
<1>1. op[h].at = "finish" /\ Become(h, Idle) /\ queue' = queue /\ player' = player
  BY DEF Finish
<1> QED
  BY <1>1, RestKept DEF Bearing

\* A launch takes the track from the thread; that it had one to give, and that
\* no playback thread was there, is the invariant's.
LEMMA LaunchKept ==
  ASSUME Inv, NEW t \in Threads, Launch(t), NEW uri
  PROVE  Kept(uri)
<1>0. TypeOK
  BY DEF Inv
<1>1. /\ op[t].at = "launch" /\ current' = op[t].uri /\ queue' = queue
      /\ player' = [at |-> "run", uri |-> op[t].uri, next |-> None]
      /\ Goto(t, "finish") \/ Become(t, Idle)
  BY DEF Launch
<1>2. player.at = "none" /\ ~Joinable
  BY <1>1 DEF Inv, Joined, Joinable
<1>3. player'.at = "run" /\ Popped(player', uri) = 0 /\ Popped(player, uri) = 0
  BY <1>1, <1>2 DEF Popped
<1>4. op'[t].at \notin Bearing /\ \A s \in Threads : s # t => op'[s] = op[s]
  <2>1. CASE Goto(t, "finish")
    BY <1>0, <2>1, GotoAt, TypedOp DEF Labels, Bearing
  <2>2. CASE Become(t, Idle)
    BY <1>0, <2>2, BecomeAt, Entries, TypedOp DEF Bearing
  <2> QED
    BY <1>1, <2>1, <2>2
<1>5. Borne(op', uri) + Load(op[t], uri) = Borne(op, uri) + Load(op'[t], uri)
  BY <1>4, BorneMoves
<1>6. /\ Borne(op, uri) \in Nat /\ Borne(op', uri) \in Nat
      /\ Load(op'[t], uri) = 0 /\ Load(op[t], uri) \in {0, 1}
  BY <1>4, BorneType, AtRest, LoadType
<1>7. Queued(queue', uri) = Queued(queue, uri) /\ Queued(queue, uri) \in Nat
  BY <1>0, <1>1, Parts
<1>8. CASE op[t].uri = uri
  <2>1. ~(Due(uri)' > Due(uri))
    BY <1>3, <1>5, <1>6, <1>7, DueIs
  <2> QED
    BY <1>1, <1>2, <1>3, <1>8, <2>1 DEF Kept
<1>9. CASE op[t].uri # uri
  <2>1. Load(op[t], uri) = 0
    BY <1>9 DEF Load, Bears
  <2>2. Due(uri)' = Due(uri) /\ Due(uri) \in Nat
    BY <2>1, <1>3, <1>5, <1>6, <1>7, DueIs
  <2> QED
    BY <2>2, Unmoved
<1> QED
  BY <1>8, <1>9

\* The playback thread moves on with nothing popped before and after.
LEMMA PlayerMoves ==
  ASSUME TypeOK, Move("returned") \/ Move("pop") \/ Move("ask"), player.at # "advance",
         queue' = queue, op' = op, NEW uri
  PROVE  Kept(uri)
<1>1. PICK label \in {"returned", "pop", "ask"} : player' = [player EXCEPT !.at = label]
  BY DEF Move
<1>2. player'.at # "advance"
  BY <1>1 DEF TypeOK
<1>3. Popped(player', uri) = 0 /\ Popped(player, uri) = 0
  BY <1>2 DEF Popped
<1>4. Borne(op, uri) \in Nat
  BY BorneType
<1>5. Due(uri)' = Due(uri) /\ Due(uri) \in Nat
  BY <1>3, <1>4, DueIs, Parts
<1> QED
  BY <1>5, Unmoved

LEMMA QuitKept ==
  ASSUME TypeOK, Quit, NEW uri
  PROVE  Kept(uri)
<1>1. player.at = "run" /\ Move("returned") /\ queue' = queue /\ op' = op
  BY DEF Quit
<1> QED
  BY <1>1, PlayerMoves

LEMMA EndOfTrackKept ==
  ASSUME TypeOK, NEW unplayable \in BOOLEAN, EndOfTrack(unplayable), NEW uri
  PROVE  Kept(uri)
<1>1. player.at = "run" /\ Move("pop") /\ queue' = queue /\ op' = op
  BY DEF EndOfTrack
<1> QED
  BY <1>1, PlayerMoves

\* What the playback thread has popped after it took a track.
LEMMA TakenPopped ==
  ASSUME TypeOK, player.at # "advance", NEW new,
         player' = [player EXCEPT !.at = "advance", !.next = new], NEW uri
  PROVE  Popped(player', uri) = Same(new, uri) /\ Popped(player, uri) = 0
<1>1. player'.at = "advance" /\ player'.next = new
  BY DEF TypeOK
<1> QED
  BY <1>1 DEF Popped, Same

LEMMA PopQueueKept ==
  ASSUME TypeOK, PopQueue, NEW uri
  PROVE  Kept(uri)
<1>1. player.at = "pop" /\ op' = op
  BY DEF PopQueue
<1>2. CASE queue # <<>>
  <2> DEFINE new == Head(queue)
  <2>1. /\ player' = [player EXCEPT !.at = "advance", !.next = new]
        /\ queue' = Tail(queue)
    BY <1>2 DEF PopQueue
  <2>2. queue \in Seq(Tracks) /\ Tail(queue) \in Seq(Tracks)
    BY <1>2, QueueFacts DEF TypeOK
  <2>3. Queued(queue', uri) + Same(new, uri) = Queued(queue, uri)
    BY <1>2, <2>1, <2>2, QueuedTail
  <2>4. Queued(queue', uri) \in Nat /\ Same(new, uri) \in {0, 1}
    BY <2>1, <2>2, QueuedType, LoadType
  <2> HIDE DEF new
  <2>5. Popped(player', uri) = Same(new, uri) /\ Popped(player, uri) = 0
    BY <1>1, <2>1, TakenPopped
  <2>6. Borne(op, uri) \in Nat
    BY BorneType
  <2>7. Due(uri)' = Due(uri) /\ Due(uri) \in Nat
    BY <1>1, <2>3, <2>4, <2>5, <2>6, DueIs
  <2> QED
    BY <2>7, Unmoved
<1>3. CASE queue = <<>>
  <2>1. Move("ask") /\ queue' = queue
    BY <1>3 DEF PopQueue
  <2> QED
    BY <1>1, <2>1, PlayerMoves
<1> QED
  BY <1>2, <1>3

LEMMA AdvanceContextKept ==
  ASSUME TypeOK, AdvanceContext, NEW uri
  PROVE  Kept(uri)
<1>1. player.at = "ask" /\ queue' = queue /\ op' = op
  BY DEF AdvanceContext
<1>2. Popped(player', uri) \in Nat /\ Popped(player, uri) = 0
  BY <1>1, Parts DEF Popped
<1>3. Borne(op, uri) \in Nat
  BY BorneType
<1>4. ~(Due(uri)' < Due(uri))
  BY <1>1, <1>2, <1>3, DueIs, Parts
<1> QED
  BY <1>1, <1>4 DEF Kept

LEMMA SpawnAdvanceKept ==
  ASSUME TypeOK, SpawnAdvance, NEW uri
  PROVE  Kept(uri)
<1> DEFINE x == Start("advance", player.next, TRUE)
<1>1. /\ player.at = "advance" /\ queue' = queue
      /\ player' = [player EXCEPT !.at = "returned", !.next = None]
  BY DEF SpawnAdvance
<1>2. PICK h \in Helpers : op[h].at = "idle" /\ Become(h, x)
  BY DEF SpawnAdvance
<1>3. player \in PlayerType /\ player.next \in Tracks \cup {None} /\ h \in Threads
  BY DEF TypeOK, PlayerType, Threads
<1>4. x \in OpType
  BY <1>3, Entries DEF Kinds
<1>5. Load(x, uri) = Same(player.next, uri) /\ Load(op[h], uri) = 0
  <2>1. Load(x, uri) = Same(player.next, uri)
    BY Beginner
  <2>2. Load(op[h], uri) = 0
    BY <1>2, AtRest DEF Bearing
  <2> QED
    BY <2>1, <2>2
<1> HIDE DEF x
<1>6. player'.at = "returned"
  BY <1>1, <1>3 DEF PlayerType
<1>7. Popped(player, uri) = Same(player.next, uri) /\ Popped(player', uri) = 0
  BY <1>1, <1>6 DEF Popped, Same
<1>8. /\ Borne(op, uri) \in Nat /\ Borne(op', uri) \in Nat
      /\ Borne(op', uri) + Load(op[h], uri) = Borne(op, uri) + Load(x, uri)
  BY <1>2, <1>3, <1>4, BecomeBorne
<1>9. Due(uri)' = Due(uri) /\ Due(uri) \in Nat
  BY <1>1, <1>5, <1>7, <1>8, LoadType, DueIs, Parts
<1> QED
  BY <1>9, Unmoved

LEMMA StepKept ==
  ASSUME Inv, Next, NEW uri
  PROVE  Kept(uri)
<1>0. TypeOK
  BY DEF Inv
<1>1. ASSUME NEW t \in Commander, Command(t) PROVE Kept(uri)
  <2>0. t \in Threads
    BY DEF Commander, Threads
  <2>1. ASSUME NEW new \in Tracks, PlayTrack(t, new) PROVE Kept(uri)
    BY <1>0, <2>0, <2>1, Cleared DEF PlayTrack
  <2>2. ASSUME NEW new \in Tracks, NEW front \in BOOLEAN, Enqueue(t, new, front)
        PROVE  Kept(uri)
    BY <1>0, <2>0, <2>2, EnqueueKept
  <2>3. CASE ClearQueue(t)
    BY <1>0, <2>0, <2>3, Cleared DEF ClearQueue
  <2>4. CASE NextTrack(t)
    BY <1>0, <2>0, <2>4, NextTrackKept
  <2>5. CASE Previous(t)
    BY <1>0, <2>0, <2>5, PreviousKept
  <2>6. CASE StopTrack(t)
    BY <1>0, <2>0, <2>6, StopTrackKept
  <2> QED
    BY <1>1, <2>1, <2>2, <2>3, <2>4, <2>5, <2>6 DEF Command
<1>2. CASE CloudCommand
  BY <1>0, <1>2, OnSkipNextKept, OnTransferKept DEF CloudCommand
<1>3. ASSUME NEW t \in Threads, Lock(t) \/ Advance(t) PROVE Kept(uri)
  BY <1>0, <1>3, LockKept, AskContextKept, BackKept, TransferKept, JoinKept, PushKept,
     LaunchKept, HaltKept, FinishKept DEF Advance
<1>4. CASE PlayerStep
  BY <1>0, <1>4, QuitKept, EndOfTrackKept, PopQueueKept, AdvanceContextKept,
     SpawnAdvanceKept DEF PlayerStep
<1> QED
  BY <1>1, <1>2, <1>3, <1>4 DEF Next

\* For every set of tracks, hosts and helpers, and whatever the length of the
\* queue: between the queue, the threads and the player no track is dropped or
\* doubled, except as a command or the context asks for.
THEOREM PlaybackKeepsQueue == Spec => QueueKept
<1> DEFINE A == \A uri \in Tracks : Kept(uri)
<1>1. Inv /\ [Next]_vars => [A]_vars
  BY StepKept
<1>2. Spec => []Inv
  BY InitInv, NextInv, PTL DEF Spec
<1> QED
  BY <1>1, <1>2, PTL DEF Spec, QueueKept, Kept
=============================================================================
