----------------------------- MODULE Dispatcher -----------------------------
(***************************************************************************)
(* The post-handshake packet pump of the access-point (AP) connection,     *)
(* src/dispatcher.cpp: blocking callers (mercury_get and                   *)
(* audio_key_request_ex) and one reader thread (run_loop) that correlates  *)
(* the AP's answers with them.                                             *)
(*                                                                         *)
(* A request is <<kind, seq>>.  Its entry in mercury_ / akey_ is its       *)
(* membership in table[kind]; its MercuryPending / AudioKeyPending object  *)
(* is pen[r] and outlives the entry (shared_ptr).  A mutex that is held    *)
(* across another acquisition is a predicate on the program counters       *)
(* (PenHeld, TableHeld, SendHeld); one that is not is a guard of a single  *)
(* step.                                                                   *)
(***************************************************************************)
EXTENDS Integers, FiniteSets

CONSTANTS
  Callers,  \* threads that call into the dispatcher
  MaxCalls, \* bound on the calls that get a sequence number
  NoReq     \* "no request"

ASSUME DispatcherAssumption == NoReq \notin {"mercury", "akey"} \X Nat

Kinds    == {"mercury", "akey"}
Requests == Kinds \X Nat

VARIABLES
  alive,    \* Dispatcher::alive_
  running,  \* Dispatcher::running_; cleared by stop(), after the socket is closed
  link,     \* the TCP connection: "up", or "down" once recv and send may fail
  next,     \* mercury_seq_ and akey_seq_
  table,    \* the keys of mercury_ and akey_
  pen,      \* the pending objects: done, and whether they carry a usable answer
  sent,     \* requests that reached the AP
  pc,       \* program counter of each caller
  req,      \* the request of each caller
  outcome,  \* how the last call of each caller returned
  rpc,      \* program counter of the reader
  rreq,     \* the pending object the reader holds a pointer to
  todo      \* entries its failure sweep has not visited

callerVars == <<next, pc, req, outcome, sent>>
readerVars == <<alive, rpc, rreq, todo>>
vars == <<alive, running, link, next, table, pen, sent, pc, req, outcome,
          rpc, rreq, todo>>

Busy == {"register", "send", "unsend", "lock", "waiting", "expire"}
Sweep(k) == IF k = "mercury" THEN "sweep mercury" ELSE "sweep akey"
Failures == {"dead", "send failed", "timeout", "rejected"}

\* heard: every frame of the AP's answer has been taken off the wire.  It is
\* the one ghost field: the code keeps the answer itself.
PenType == [done : BOOLEAN, ok : BOOLEAN, heard : BOOLEAN]

\* Every variable keeps its kind of value, and sequence numbers are naturals.
TypeOK ==
  /\ alive \in BOOLEAN /\ running \in BOOLEAN /\ link \in {"up", "down"}
  /\ next \in [Kinds -> Nat]
  /\ table \in [Kinds -> SUBSET Requests]
  /\ DOMAIN pen \subseteq Requests
  /\ pen \in [DOMAIN pen -> PenType]
  /\ sent \in SUBSET Requests
  /\ pc \in [Callers -> Busy \cup {"idle"}]
  /\ req \in [Callers -> Requests \cup {NoReq}]
  /\ outcome \in [Callers -> Failures \cup {"none", "reply"}]
  /\ rpc \in {"loop", "recv", "signal", "erase", "fail", "ended"}
             \cup {Sweep(k) : k \in Kinds}
  /\ rreq \in Requests \cup {NoReq}
  /\ todo \in SUBSET Requests

\* Mutant: both counters are advanced before use, from one below.
FirstSeqBelow == [k \in Kinds |-> IF k = "mercury" THEN 0 ELSE -1]

FirstSeq == [k \in Kinds |-> IF k = "mercury" THEN 1 ELSE 0]

FreshPen == [done |-> FALSE, ok |-> FALSE, heard |-> FALSE]

Init ==
  /\ alive = TRUE /\ running = TRUE /\ link = "up"
  /\ next = FirstSeq
  /\ table = [k \in Kinds |-> {}]
  /\ pen = [r \in {} |-> FreshPen]
  /\ sent = {}
  /\ pc = [c \in Callers |-> "idle"]
  /\ req = [c \in Callers |-> NoReq]
  /\ outcome = [c \in Callers |-> "none"]
  /\ rpc = "loop" /\ rreq = NoReq /\ todo = {}

-----------------------------------------------------------------------------
(* Mutexes held across another acquisition.                                *)

\* pen->m: kept by a caller whose wait_for timed out while it goes for the table.
PenHeld(r) == \E c \in Callers : pc[c] = "expire" /\ req[c] = r

\* mercury_m_ / akey_m_: kept by the reader during its whole failure sweep.
TableHeld(k) == rpc = Sweep(k)

\* send_m_: kept by a caller whose send failed while it goes for the table.
SendHeld == \E c \in Callers : pc[c] = "unsend"

-----------------------------------------------------------------------------
(* Callers.                                                                *)

Goto(c, label) == pc' = [pc EXCEPT ![c] = label]

Return(c, result) ==
  /\ Goto(c, "idle")
  /\ req' = [req EXCEPT ![c] = NoReq]
  /\ outcome' = [outcome EXCEPT ![c] = result]

\* The test of alive_ on entry.  A stopped dispatcher is no longer reachable.
Call(c) ==
  /\ running
  /\ pc[c] = "idle"
  /\ (next["mercury"] - 1) + next["akey"]
       + Cardinality({d \in Callers : pc[d] = "register"}) < MaxCalls
  /\ IF alive
       THEN /\ Goto(c, "register")
            /\ outcome' = [outcome EXCEPT ![c] = "none"]
            /\ UNCHANGED req
       ELSE Return(c, "dead")
  /\ UNCHANGED <<readerVars, running, link, next, table, pen, sent>>

\* Both kinds of call open the same way; only now do they part.
Register(c, k) ==
  LET r == <<k, next[k]>>
  IN /\ pc[c] = "register"
     /\ ~TableHeld(k)
     /\ next' = [next EXCEPT ![k] = @ + 1]
     /\ table' = [table EXCEPT ![k] = @ \cup {r}]
     /\ pen' = [p \in DOMAIN pen \cup {r} |-> IF p = r THEN FreshPen ELSE pen[p]]
     /\ req' = [req EXCEPT ![c] = r]
     /\ Goto(c, "send")
     /\ UNCHANGED <<readerVars, running, link, sent, outcome>>

SendOk(c) ==
  /\ pc[c] = "send"
  /\ ~SendHeld
  /\ sent' = sent \cup {req[c]}
  /\ Goto(c, "lock")
  /\ UNCHANGED <<readerVars, running, link, next, table, pen, req, outcome>>

\* codec_.send failed: send_m_ stays locked until the entry is erased.
SendFail(c) ==
  /\ pc[c] = "send"
  /\ ~SendHeld
  /\ link = "down"
  /\ Goto(c, "unsend")
  /\ UNCHANGED <<readerVars, running, link, next, table, pen, sent, req, outcome>>

Forget(r) == table' = [table EXCEPT ![r[1]] = @ \ {r}]

Unsend(c) ==
  /\ pc[c] = "unsend"
  /\ ~TableHeld(req[c][1])
  /\ Forget(req[c])
  /\ Return(c, "send failed")
  /\ UNCHANGED <<readerVars, running, link, next, pen, sent>>

\* Locking pen->m and the first evaluation of wait_for's predicate.
Block(c) ==
  /\ pc[c] = "lock"
  /\ ~PenHeld(req[c])
  /\ ~pen[req[c]].done
  /\ Goto(c, "waiting")
  /\ UNCHANGED <<readerVars, running, link, next, table, pen, sent, req, outcome>>

Collect(c) ==
  /\ pc[c] \in {"lock", "waiting"}
  /\ ~PenHeld(req[c])
  /\ pen[req[c]].done
  /\ Return(c, IF pen[req[c]].ok THEN "reply" ELSE "rejected")
  /\ UNCHANGED <<readerVars, running, link, next, table, pen, sent>>

\* Mutant: wait in place of wait_for.
TimeoutNever(c) == FALSE /\ pc[c] = "waiting" /\ UNCHANGED vars

\* wait_for gave up: pen->m is locked again, the predicate still false.
Timeout(c) ==
  /\ pc[c] = "waiting"
  /\ ~PenHeld(req[c])
  /\ ~pen[req[c]].done
  /\ Goto(c, "expire")
  /\ UNCHANGED <<readerVars, running, link, next, table, pen, sent, req, outcome>>

\* Mutant: the timed-out call leaves its entry behind.
ExpireKeepsEntry(c) ==
  /\ pc[c] = "expire"
  /\ ~TableHeld(req[c][1])
  /\ Return(c, "timeout")
  /\ UNCHANGED <<readerVars, running, link, next, table, pen, sent>>

Expire(c) ==
  /\ pc[c] = "expire"
  /\ ~TableHeld(req[c][1])
  /\ Forget(req[c])
  /\ Return(c, "timeout")
  /\ UNCHANGED <<readerVars, running, link, next, pen, sent>>

-----------------------------------------------------------------------------
(* The reader thread.                                                      *)

\* The loop test, and the empty critical section on send_m_ before recv.
ReaderLoop ==
  /\ rpc = "loop"
  /\ IF running THEN ~SendHeld /\ rpc' = "recv" ELSE rpc' = "ended"
  /\ UNCHANGED <<callerVars, alive, running, link, table, pen, rreq, todo>>

\* A frame that changes no request: PONG_ACK and the like, a mercury event
\* nobody asked for, a non-final mercury frame (MercuryAssembly).
IgnoreFrame ==
  /\ rpc = "recv"
  /\ rpc' = "loop"
  /\ UNCHANGED <<callerVars, alive, running, link, table, pen, rreq, todo>>

\* PING is answered with PONG under send_m_; a failed PONG is not noticed.
AnswerPing ==
  /\ rpc = "recv"
  /\ ~SendHeld
  /\ rpc' = "loop"
  /\ UNCHANGED <<callerVars, alive, running, link, table, pen, rreq, todo>>

\* The last frame of a mercury response.  status is the decoded status_code;
\* a negative one makes mercury_get return false.
MercuryFinal(r, status) ==
  /\ rpc = "recv"
  /\ r[1] = "mercury"
  /\ ~TableHeld("mercury")
  /\ IF r \in table["mercury"]
       THEN /\ rreq' = r
            /\ pen' = [pen EXCEPT ![r].ok = status, ![r].heard = TRUE]
            /\ rpc' = "signal"
       ELSE /\ rpc' = "loop"
            /\ UNCHANGED <<rreq, pen>>
  /\ UNCHANGED <<callerVars, alive, running, link, table, todo>>

\* AES_KEY or AES_KEY_ERROR: the entry goes before the waiter is told.
AudioKeyFrame(r, ok) ==
  /\ rpc = "recv"
  /\ r[1] = "akey"
  /\ ~TableHeld("akey")
  /\ IF r \in table["akey"]
       THEN /\ Forget(r)
            /\ rreq' = r
            /\ pen' = [pen EXCEPT ![r].ok = ok, ![r].heard = TRUE]
            /\ rpc' = "signal"
       ELSE /\ rpc' = "loop"
            /\ UNCHANGED <<rreq, pen, table>>
  /\ UNCHANGED <<callerVars, alive, running, link, todo>>

\* done = true under pen->m.
Signal ==
  /\ rpc = "signal"
  /\ ~PenHeld(rreq)
  /\ pen' = [pen EXCEPT ![rreq].done = TRUE]
  /\ IF rreq[1] = "mercury"
       THEN rpc' = "erase" /\ UNCHANGED rreq
       ELSE rpc' = "loop" /\ rreq' = NoReq
  /\ UNCHANGED <<callerVars, alive, running, link, table, todo>>

\* mercury_.erase(seq), after the waiter has been told.
Erase ==
  /\ rpc = "erase"
  /\ ~TableHeld("mercury")
  /\ Forget(rreq)
  /\ rreq' = NoReq
  /\ rpc' = "loop"
  /\ UNCHANGED <<callerVars, alive, running, link, pen, todo>>

\* recv failed: alive_ is cleared before the sweep locks mercury_m_.
RecvFail ==
  /\ rpc = "recv"
  /\ link = "down"
  /\ alive' = FALSE
  /\ rpc' = "fail"
  /\ UNCHANGED <<callerVars, running, link, table, pen, rreq, todo>>

\* Lock one table: mercury_ first, akey_ once mercury_ is done.
SweepTable(k) ==
  /\ rpc = IF k = "mercury" THEN "fail" ELSE Sweep("mercury")
  /\ todo = {}
  /\ rpc' = Sweep(k)
  /\ todo' = table[k]
  /\ UNCHANGED <<callerVars, alive, running, link, table, pen, rreq>>

\* Mutant: the sweep sets done but not status_code = -1.
SweepOneAsSuccess ==
  /\ \E k \in Kinds : TableHeld(k)
  /\ \E r \in todo :
       /\ ~PenHeld(r)
       /\ pen' = [pen EXCEPT ![r].done = TRUE, ![r].ok = TRUE]
       /\ todo' = todo \ {r}
  /\ UNCHANGED <<callerVars, alive, running, link, table, rpc, rreq>>

\* One pending object, in key order and under its own mutex: done, no answer.
SweepOne ==
  /\ \E k \in Kinds : TableHeld(k)
  /\ \E r \in todo :
       /\ \A s \in todo : r[2] <= s[2]
       /\ ~PenHeld(r)
       /\ pen' = [pen EXCEPT ![r].done = TRUE, ![r].ok = FALSE]
       /\ todo' = todo \ {r}
  /\ UNCHANGED <<callerVars, alive, running, link, table, rpc, rreq>>

SweepEnd ==
  /\ rpc = Sweep("akey")
  /\ todo = {}
  /\ rpc' = "ended"
  /\ UNCHANGED <<callerVars, alive, running, link, table, pen, rreq, todo>>

-----------------------------------------------------------------------------
(* The connection and its owner.                                           *)

LinkDrops ==
  /\ link = "up"
  /\ link' = "down"
  /\ UNCHANGED <<callerVars, readerVars, running, table, pen>>

\* Mutant: stop() without closing the socket first.
StopOpenSocket ==
  /\ running
  /\ \A c \in Callers : pc[c] = "idle"
  /\ running' = FALSE
  /\ UNCHANGED <<callerVars, readerVars, link, table, pen>>

\* Session::reset_ap_only: with ap_io_m held (so no call is in progress) the
\* socket is closed, then stop() clears running_ and joins the reader.
Stop ==
  /\ running
  /\ \A c \in Callers : pc[c] = "idle"
  /\ running' = FALSE
  /\ link' = "down"
  /\ UNCHANGED <<callerVars, readerVars, table, pen>>

CallerStep(c) ==
  \/ \E k \in Kinds : Register(c, k)
  \/ SendOk(c) \/ SendFail(c) \/ Unsend(c)
  \/ Block(c) \/ Collect(c) \/ Timeout(c) \/ Expire(c)

ReaderStep ==
  \/ ReaderLoop \/ IgnoreFrame \/ AnswerPing
  \/ \E r \in sent, ok \in BOOLEAN : MercuryFinal(r, ok) \/ AudioKeyFrame(r, ok)
  \/ Signal \/ Erase \/ RecvFail
  \/ \E k \in Kinds : SweepTable(k)
  \/ SweepOne \/ SweepEnd

Next ==
  \/ \E c \in Callers : Call(c)
  \/ \E c \in Callers : CallerStep(c)
  \/ ReaderStep
  \/ LinkDrops
  \/ Stop

Spec == Init /\ [][Next]_vars

\* Every started call runs on: mutexes are released by others and a wait ends
\* by its timeout at the latest.  The reader's bookkeeping runs on, and a recv
\* on a broken socket fails in the end; the AP is never obliged to answer.
ReaderFairness ==
  /\ WF_vars(ReaderLoop) /\ WF_vars(Signal) /\ WF_vars(Erase)
  /\ SF_vars(RecvFail)
  /\ WF_vars(\E k \in Kinds : SweepTable(k)) /\ WF_vars(SweepOne) /\ WF_vars(SweepEnd)

FairSpec ==
  /\ Spec
  /\ \A c \in Callers : SF_vars(CallerStep(c))
  /\ ReaderFairness

-----------------------------------------------------------------------------
(* What a caller may rely on.                                              *)

InFlight(c) == pc[c] \in {"send", "unsend", "lock", "waiting", "expire"}

\* The reader is between taking r's answer off the wire and its last touch of r.
Serving(r) == rpc \in {"signal", "erase"} /\ rreq = r

\* Two calls in progress never wait on the same sequence number, so that an
\* answer has one addressee (the counters under mercury_m_ and akey_m_).
PrivateRequests ==
  \A c, d \in Callers : InFlight(c) /\ InFlight(d) /\ req[c] = req[d] => c = d

\* As long as the reader lives, a call that still lacks its answer can be
\* found by it: its entry is in the table, or the reader is about to signal it.
Reachable ==
  \A c \in Callers :
    (pc[c] \in {"send", "lock", "waiting"} /\ alive /\ ~pen[req[c]].done)
      => req[c] \in table[req[c][1]] \/ Serving(req[c])

\* An entry never outlives its call: it has a caller in progress, or the reader
\* is just about to erase it, or the failure sweep has left it in a dead table.
NoLeak ==
  \A k \in Kinds : \A r \in table[k] :
    \/ \E c \in Callers : InFlight(c) /\ req[c] = r
    \/ Serving(r)
    \/ ~alive

\* A caller that holds its pending object for good while the reader holds that
\* caller's table for good: pen->m before mercury_m_ here, after it there.
LockCycle ==
  \E c \in Callers : pc[c] = "expire" /\ TableHeld(req[c][1]) /\ req[c] \in todo

\* dispatcher.h:51 and :54: a call "Blocks up to timeout_ms ... Returns false on
\* timeout/error", so it returns.
CallsReturn == \A c \in Callers : pc[c] \in Busy ~> pc[c] = "idle"

\* The lock cycle is the only way in which a call can fail to return.
CallsReturnOrCycle ==
  \A c \in Callers : pc[c] \in Busy ~> (pc[c] = "idle" \/ LockCycle)

\* session.cpp:735: closing the socket first lets stop() join the reader.
StopEnds == ~running ~> rpc = "ended"

\* The abstract exchange: what is left of the dispatcher when the tables, the
\* mutexes and the reader are forgotten.
Exchange == INSTANCE Exchange WITH
  asking   <- [c \in Callers |-> pc[c] # "idle"],
  answered <- [c \in Callers |-> InFlight(c) /\ pen[req[c]].heard],
  outcome  <- outcome

ImplementsExchange == Exchange!Spec
=============================================================================
