-------------------------- MODULE Dispatcher_proofs --------------------------
(***************************************************************************)
(* Proofs about Dispatcher for any set of callers and any bound.  The      *)
(* inductive invariant says where a request may be: its number is below    *)
(* the counter, its pending object exists before its entry does, and an    *)
(* entry whose waiter has been told is the one the reader is erasing.      *)
(***************************************************************************)
EXTENDS Dispatcher, TLAPS

\* Every number in use has been drawn from its counter.
Drawn ==
  /\ \A r \in DOMAIN pen : r[2] < next[r[1]]
  /\ \A k \in Kinds : \A r \in table[k] : r \in DOMAIN pen /\ r[1] = k
  /\ \A c \in Callers : InFlight(c) => req[c] \in DOMAIN pen
  /\ rpc \in {"signal", "erase"} => rreq \in DOMAIN pen
  /\ sent \subseteq DOMAIN pen
  /\ todo \subseteq DOMAIN pen

\* What the reader is doing bounds what a pending object may say.
Told ==
  /\ alive => rpc \notin {"fail", Sweep("mercury"), Sweep("akey")}
  /\ rpc = "erase" => pen[rreq].done
  /\ rpc = "signal" /\ rreq[1] = "akey" => rreq \notin table["akey"]
  /\ \A r \in DOMAIN pen :
       alive /\ pen[r].done => r \notin table[r[1]] \/ (rpc = "erase" /\ rreq = r)
  /\ \A r \in DOMAIN pen : pen[r].ok => pen[r].heard

IInv == TypeOK /\ Drawn /\ Told /\ PrivateRequests /\ Reachable /\ NoLeak

LEMMA InitIInv == Init => IInv
BY DEF Init, IInv, TypeOK, Drawn, Told, PrivateRequests, Reachable, NoLeak, InFlight,
       Serving, Busy, Failures, FirstSeq, Sweep, Kinds, Requests

\* The shape of a request.
LEMMA RequestShape ==
  /\ \A r \in Requests : r[1] \in Kinds /\ r[2] \in Nat
  /\ \A k \in Kinds, n \in Nat :
       <<k, n>> \in Requests /\ <<k, n>>[1] = k /\ <<k, n>>[2] = n
  /\ NoReq \notin Requests
BY DispatcherAssumption DEF Requests, Kinds

USE DEF Busy, Failures, InFlight, Serving

\* A call that goes from one place of the code to another keeps its request.
LEMMA MoveOn ==
  ASSUME IInv, NEW c \in Callers, NEW l \in {"unsend", "lock", "waiting", "expire"},
         pc[c] \in {"send", "lock", "waiting"}, Goto(c, l),
         sent' \in {sent, sent \cup {req[c]}},
         UNCHANGED <<readerVars, running, link, next, table, pen, req, outcome>>
  PROVE  IInv'
<1> USE DEF IInv
<1>0. pc' = [pc EXCEPT ![c] = l] /\ UNCHANGED <<alive, rpc, rreq, todo>>
  BY DEF Goto, readerVars
<1>1. \A d \in Callers : pc'[d] = IF d = c THEN l ELSE pc[d]
  BY <1>0 DEF TypeOK
<1>2. \A d \in Callers : InFlight(d)' <=> InFlight(d)
  BY <1>1
<1>3. TypeOK'
  <2>1. req[c] \in Requests
    BY DEF TypeOK, Drawn
  <2>2. sent' \in SUBSET Requests
    BY <2>1 DEF TypeOK
  <2>3. pc' \in [Callers -> Busy \cup {"idle"}]
    BY <1>0 DEF TypeOK
  <2> QED BY <1>0, <2>2, <2>3 DEF TypeOK
<1>4. Drawn'
  BY <1>0, <1>2 DEF Drawn
<1>5. Told'
  BY <1>0 DEF Told
<1>6. PrivateRequests'
  BY <1>2 DEF PrivateRequests
<1>7. Reachable'
  BY <1>0, <1>1 DEF Reachable
<1>8. NoLeak'
  BY <1>0, <1>2 DEF NoLeak
<1> QED BY <1>3, <1>4, <1>5, <1>6, <1>7, <1>8

\* A call that gives up takes its entry along, and only its own.
LEMMA GiveUp ==
  ASSUME IInv, NEW c \in Callers, NEW result \in Failures,
         pc[c] \in {"unsend", "expire"}, Forget(req[c]), Return(c, result),
         UNCHANGED <<readerVars, running, link, next, pen, sent>>
  PROVE  IInv'
<1> USE DEF IInv
<1>0. /\ pc' = [pc EXCEPT ![c] = "idle"] /\ req' = [req EXCEPT ![c] = NoReq]
      /\ outcome' = [outcome EXCEPT ![c] = result]
      /\ table' = [table EXCEPT ![req[c][1]] = @ \ {req[c]}]
      /\ UNCHANGED <<alive, rpc, rreq, todo, pen, next, sent, running, link>>
  BY DEF Goto, Return, Forget, readerVars
<1>1. req[c] \in DOMAIN pen /\ req[c] \in Requests /\ req[c][1] \in Kinds
  BY RequestShape DEF TypeOK, Drawn
<1>2. \A k \in Kinds :
        table'[k] = IF k = req[c][1] THEN table[k] \ {req[c]} ELSE table[k]
  BY <1>0, <1>1 DEF TypeOK
<1>3. \A k \in Kinds : \A r : r \in table'[k] <=> r \in table[k] /\ r # req[c]
  <2>1. \A k \in Kinds : req[c] \in table[k] => k = req[c][1]
    BY DEF Drawn
  <2> QED BY <1>2, <2>1
<1>4. \A d \in Callers : /\ pc'[d] = IF d = c THEN "idle" ELSE pc[d]
                         /\ req'[d] = IF d = c THEN NoReq ELSE req[d]
  BY <1>0 DEF TypeOK
<1>5. \A d \in Callers : InFlight(d)' <=> InFlight(d) /\ d # c
  BY <1>4
<1>6. TypeOK'
  <2>1. table' \in [Kinds -> SUBSET Requests]
    BY <1>0, <1>1 DEF TypeOK
  <2>2. /\ pc' \in [Callers -> Busy \cup {"idle"}]
        /\ req' \in [Callers -> Requests \cup {NoReq}]
        /\ outcome' \in [Callers -> Failures \cup {"none", "reply"}]
    BY <1>0 DEF TypeOK
  <2> QED BY <1>0, <2>1, <2>2 DEF TypeOK
<1>7. Drawn'
  BY <1>0, <1>3, <1>4, <1>5, ZenonT(30) DEF Drawn
<1>8. Told'
  <2>1. "akey" \in Kinds /\ \A r \in DOMAIN pen : r[1] \in Kinds
    BY RequestShape DEF Kinds, TypeOK
  <2> QED BY <1>0, <1>3, <2>1 DEF Told
<1>9. PrivateRequests'
  BY <1>4, <1>5, ZenonT(30) DEF PrivateRequests
<1>10. Reachable'
  <2> SUFFICES ASSUME NEW d \in Callers, pc'[d] \in {"send", "lock", "waiting"},
                      alive', ~pen'[req'[d]].done
               PROVE  req'[d] \in table'[req'[d][1]] \/ Serving(req[d])'
    BY DEF Reachable
  <2>1. /\ d # c /\ req'[d] = req[d] /\ InFlight(d)
        /\ pc[d] \in {"send", "lock", "waiting"}
    BY <1>4
  <2>2. req[d] # req[c]
    BY <2>1 DEF PrivateRequests
  <2>3. req[d][1] \in Kinds
    BY <2>1, RequestShape DEF Drawn, TypeOK
  <2>4. req[d] \in table[req[d][1]] \/ Serving(req[d])
    BY <1>0, <2>1 DEF Reachable
  <2> QED BY <1>0, <1>3, <2>1, <2>2, <2>3, <2>4
<1>11. NoLeak'
  <2> SUFFICES ASSUME NEW k \in Kinds, NEW r \in table'[k], alive, ~Serving(r)
               PROVE  \E d \in Callers : InFlight(d)' /\ req'[d] = r
    BY <1>0 DEF NoLeak
  <2>1. r \in table[k] /\ r # req[c]
    BY <1>3
  <2>2. PICK d \in Callers : InFlight(d) /\ req[d] = r
    BY <2>1 DEF NoLeak
  <2> QED BY <1>4, <1>5, <2>1, <2>2
<1> QED BY <1>6, <1>7, <1>8, <1>9, <1>10, <1>11

LEMMA CallStep == ASSUME IInv, NEW c \in Callers, Call(c) PROVE IInv'
<1> USE DEF IInv
<1>0. UNCHANGED <<alive, rpc, rreq, todo, running, link, next, table, pen, sent>>
  BY DEF Call, readerVars
<1>1. /\ pc[c] = "idle" /\ pc' \in {[pc EXCEPT ![c] = "register"], [pc EXCEPT ![c] = "idle"]}
      /\ req' \in {req, [req EXCEPT ![c] = NoReq]}
      /\ outcome' \in {[outcome EXCEPT ![c] = "none"], [outcome EXCEPT ![c] = "dead"]}
  BY DEF Call, Goto, Return
<1>2. \A d \in Callers : /\ pc'[d] = IF d = c THEN pc'[c] ELSE pc[d]
                         /\ d # c => req'[d] = req[d]
                         /\ pc'[c] \in {"idle", "register"}
  BY <1>1 DEF TypeOK
<1>3. \A d \in Callers : (InFlight(d)' <=> InFlight(d)) /\ (InFlight(d) => d # c)
  BY <1>1, <1>2
<1>4. TypeOK'
  BY <1>0, <1>1, ZenonT(30) DEF TypeOK
<1>5. Drawn'
  BY <1>0, <1>2, <1>3 DEF Drawn
<1>6. Told'
  BY <1>0 DEF Told
<1>7. PrivateRequests'
  BY <1>2, <1>3 DEF PrivateRequests
<1>8. Reachable'
  BY <1>0, <1>2 DEF Reachable
<1>9. NoLeak'
  BY <1>0, <1>2, <1>3 DEF NoLeak
<1> QED BY <1>4, <1>5, <1>6, <1>7, <1>8, <1>9

LEMMA RegisterStep ==
  ASSUME IInv, NEW c \in Callers, NEW k \in Kinds, Register(c, k) PROVE IInv'
<1> DEFINE r == <<k, next[k]>>
<1> USE DEF IInv
<1>1. /\ pc[c] = "register"
      /\ next' = [next EXCEPT ![k] = @ + 1]
      /\ table' = [table EXCEPT ![k] = @ \cup {r}]
      /\ DOMAIN pen' = DOMAIN pen \cup {r}
      /\ \A p \in DOMAIN pen' : pen'[p] = IF p = r THEN FreshPen ELSE pen[p]
      /\ pen' = [p \in DOMAIN pen' |-> IF p = r THEN FreshPen ELSE pen[p]]
      /\ req' = [req EXCEPT ![c] = r]
      /\ pc' = [pc EXCEPT ![c] = "send"]
      /\ UNCHANGED <<alive, rpc, rreq, todo, running, link, sent, outcome>>
  BY DEF Register, Goto, readerVars
<1> HIDE DEF r
<1>0. next[k] \in Nat /\ next[k] + 1 \in Nat /\ next[k] < next[k] + 1
  <2>1. next[k] \in Nat
    BY DEF TypeOK
  <2> QED BY <2>1
<1>2. r \in Requests /\ r[1] = k /\ r[2] = next[k]
  BY <1>0, RequestShape DEF r
<1>12. r \notin DOMAIN pen
  <2> SUFFICES ASSUME r \in DOMAIN pen PROVE FALSE
    OBVIOUS
  <2>1. next[k] < next[k]
    BY <1>2 DEF Drawn
  <2> QED BY <1>0, <2>1
<1>3. \A d \in Callers : /\ pc'[d] = IF d = c THEN "send" ELSE pc[d]
                         /\ req'[d] = IF d = c THEN r ELSE req[d]
  BY <1>1 DEF TypeOK
<1>4. \A j \in Kinds : /\ table'[j] = IF j = k THEN table[j] \cup {r} ELSE table[j]
                       /\ next'[j] = IF j = k THEN next[j] + 1 ELSE next[j]
  BY <1>1 DEF TypeOK
<1>5. FreshPen \in PenType /\ ~FreshPen.done /\ ~FreshPen.ok
  BY DEF FreshPen, PenType
<1>6. TypeOK'
  <2>1. DOMAIN pen' \subseteq Requests
    BY <1>1, <1>2 DEF TypeOK
  <2>2. pen' \in [DOMAIN pen' -> PenType]
    BY <1>1, <1>5 DEF TypeOK
  <2>3. next' \in [Kinds -> Nat]
    BY <1>0, <1>1 DEF TypeOK
  <2>4. table' \in [Kinds -> SUBSET Requests]
    BY <1>1, <1>2 DEF TypeOK
  <2>5. /\ pc' \in [Callers -> Busy \cup {"idle"}]
        /\ req' \in [Callers -> Requests \cup {NoReq}]
    BY <1>1, <1>2 DEF TypeOK
  <2> QED BY <1>1, <2>1, <2>2, <2>3, <2>4, <2>5 DEF TypeOK
<1>7. Drawn'
  <2>1. \A p \in DOMAIN pen' : p[2] < next'[p[1]]
    <3> SUFFICES ASSUME NEW p \in DOMAIN pen' PROVE p[2] < next'[p[1]]
      OBVIOUS
    <3>1. CASE p = r
      <4>1. next'[k] = next[k] + 1 /\ next[k] < next[k] + 1
        BY <1>0, <1>4
      <4> QED BY <1>2, <3>1, <4>1
    <3>2. CASE p # r
      <4>1. p \in DOMAIN pen /\ p[1] \in Kinds /\ p[2] \in Nat
        BY <1>1, <3>2, RequestShape DEF TypeOK
      <4>2. next[p[1]] \in Nat
        BY <4>1 DEF TypeOK
      <4>3. p[2] < next[p[1]]
        BY <4>1 DEF Drawn
      <4>4. next'[p[1]] = next[p[1]] \/ next'[p[1]] = next[p[1]] + 1
        BY <1>4, <4>1
      <4> QED BY <4>1, <4>2, <4>3, <4>4
    <3> QED BY <3>1, <3>2
  <2>2. \A j \in Kinds : \A p \in table'[j] : p \in DOMAIN pen' /\ p[1] = j
    BY <1>1, <1>2, <1>4 DEF Drawn
  <2>3. \A d \in Callers : InFlight(d)' => req'[d] \in DOMAIN pen'
    BY <1>1, <1>3 DEF Drawn
  <2> QED BY <1>1, <2>1, <2>2, <2>3 DEF Drawn
<1>8. Told'
  <2>1. \A p \in DOMAIN pen' :
          alive' /\ pen'[p].done => p \notin table'[p[1]] \/ (rpc' = "erase" /\ rreq' = p)
    <3> SUFFICES ASSUME NEW p \in DOMAIN pen', alive', pen'[p].done
                 PROVE  p \notin table'[p[1]] \/ (rpc' = "erase" /\ rreq' = p)
      OBVIOUS
    <3>1. p # r /\ p \in DOMAIN pen /\ pen'[p] = pen[p]
      BY <1>1, <1>5
    <3>2. p[1] \in Kinds
      BY <3>1, RequestShape DEF TypeOK
    <3> QED BY <1>1, <1>4, <3>1, <3>2 DEF Told
  <2>2. \A p \in DOMAIN pen' : pen'[p].ok => pen'[p].heard
    BY <1>1, <1>5 DEF Told
  <2>3. rpc \in {"signal", "erase"} => rreq # r
    BY <1>12 DEF Drawn
  <2>6. rpc = "erase" => rreq \in DOMAIN pen /\ pen[rreq].done
    BY DEF Told, Drawn
  <2>4. rpc = "erase" => pen'[rreq].done
    BY <1>1, <2>3, <2>6
  <2>5. rpc = "signal" /\ rreq[1] = "akey" => rreq \notin table'["akey"]
    BY <1>4, <2>3 DEF Told, Kinds
  <2> QED BY <1>1, <2>1, <2>2, <2>4, <2>5 DEF Told
<1>9. PrivateRequests'
  <2>1. \A d \in Callers : InFlight(d)' <=> InFlight(d) \/ d = c
    BY <1>3
  <2>2. \A d \in Callers : InFlight(d) /\ d # c => req'[d] # r /\ req'[d] = req[d]
    BY <1>3, <1>12 DEF Drawn
  <2> QED BY <1>3, <2>1, <2>2 DEF PrivateRequests
<1>10. Reachable'
  <2> SUFFICES ASSUME NEW d \in Callers, pc'[d] \in {"send", "lock", "waiting"},
                      alive', ~pen'[req'[d]].done
               PROVE  req'[d] \in table'[req'[d][1]] \/ Serving(req[d])'
    BY DEF Reachable
  <2>1. CASE d = c
    <3>1. req'[d] = r /\ r \in table'[k]
      BY <1>3, <1>4, <2>1
    <3> QED BY <1>2, <3>1
  <2>2. CASE d # c
    <3>0. pc[d] \in {"send", "lock", "waiting"} /\ req'[d] = req[d]
      BY <1>3, <2>2
    <3>1. req[d] \in DOMAIN pen /\ req[d] # r
      BY <1>12, <3>0 DEF Drawn
    <3>2. req[d][1] \in Kinds
      BY <3>1, RequestShape DEF TypeOK
    <3> QED BY <1>1, <1>4, <3>0, <3>1, <3>2 DEF Reachable
  <2> QED BY <2>1, <2>2
<1>11. NoLeak'
  <2> SUFFICES ASSUME NEW j \in Kinds, NEW p \in table'[j], alive, ~Serving(p)
               PROVE  \E d \in Callers : InFlight(d)' /\ req'[d] = p
    BY <1>1 DEF NoLeak
  <2>1. CASE p = r
    BY <1>3, <2>1
  <2>2. CASE p # r
    <3>1. PICK d \in Callers : InFlight(d) /\ req[d] = p
      BY <1>4, <2>2, ZenonT(30) DEF NoLeak
    <3>2. d # c
      BY <1>1, <3>1
    <3> QED BY <1>3, <3>1, <3>2
  <2> QED BY <2>1, <2>2
<1> QED BY <1>6, <1>7, <1>8, <1>9, <1>10, <1>11

\* A collected request has no entry any more, or one that is about to go.
LEMMA CollectStep == ASSUME IInv, NEW c \in Callers, Collect(c) PROVE IInv'
<1> USE DEF IInv
<1>0. /\ pc[c] \in {"lock", "waiting"} /\ pen[req[c]].done
      /\ pc' = [pc EXCEPT ![c] = "idle"] /\ req' = [req EXCEPT ![c] = NoReq]
      /\ outcome' \in {[outcome EXCEPT ![c] = "reply"], [outcome EXCEPT ![c] = "rejected"]}
      /\ UNCHANGED <<alive, rpc, rreq, todo, running, link, next, table, pen, sent>>
  BY DEF Collect, Goto, Return, readerVars
<1>1. \A d \in Callers : /\ pc'[d] = IF d = c THEN "idle" ELSE pc[d]
                         /\ req'[d] = IF d = c THEN NoReq ELSE req[d]
  BY <1>0 DEF TypeOK
<1>2. \A d \in Callers : InFlight(d)' <=> InFlight(d) /\ d # c
  BY <1>1
<1>3. TypeOK'
  BY <1>0 DEF TypeOK
<1>4. Drawn'
  BY <1>0, <1>1, <1>2 DEF Drawn
<1>5. Told'
  BY <1>0 DEF Told
<1>6. PrivateRequests'
  BY <1>1, <1>2 DEF PrivateRequests
<1>7. Reachable'
  BY <1>0, <1>1 DEF Reachable
<1>8. NoLeak'
  <2> SUFFICES ASSUME NEW k \in Kinds, NEW r \in table[k], alive, ~Serving(r)
               PROVE  \E d \in Callers : InFlight(d)' /\ req'[d] = r
    BY <1>0 DEF NoLeak
  <2>1. PICK d \in Callers : InFlight(d) /\ req[d] = r
    BY DEF NoLeak
  <2>2. d # c
    BY <1>0, <2>1 DEF Told, Drawn
  <2> QED BY <1>1, <1>2, <2>1, <2>2
<1> QED BY <1>3, <1>4, <1>5, <1>6, <1>7, <1>8

-----------------------------------------------------------------------------
(* The reader.                                                             *)

\* The three ways in which the reader writes to a pending object.
LEMMA PenSignalled ==
  ASSUME NEW x \in PenType, NEW y, y = [x EXCEPT !.done = TRUE]
  PROVE  y \in PenType /\ y.done = TRUE /\ y.ok = x.ok /\ y.heard = x.heard
BY DEF PenType

LEMMA PenSwept ==
  ASSUME NEW x \in PenType, NEW y, y = [x EXCEPT !.done = TRUE, !.ok = FALSE]
  PROVE  y \in PenType /\ y.ok = FALSE
BY DEF PenType

LEMMA PenFilled ==
  ASSUME NEW x \in PenType, NEW b \in BOOLEAN, NEW y,
         y = [x EXCEPT !.ok = b, !.heard = TRUE]
  PROVE  y \in PenType /\ y.heard = TRUE /\ y.done = x.done
BY DEF PenType

\* A step that leaves tables, pending objects and callers alone.
LEMMA ReaderIdles ==
  ASSUME IInv,
         \/ ReaderLoop \/ IgnoreFrame \/ AnswerPing \/ RecvFail \/ SweepEnd
         \/ LinkDrops \/ Stop
  PROVE  IInv'
<1> USE DEF IInv
<1>1. /\ UNCHANGED <<next, table, pen, sent, pc, req, outcome, rreq, todo>>
      /\ alive' \in BOOLEAN /\ (alive' => alive)
      /\ running' \in {running, FALSE} /\ link' \in {link, "down"}
      /\ rpc' = rpc \/ rpc' \in {"recv", "ended", "loop"} \/ (rpc' = "fail" /\ ~alive')
      /\ rpc \in {"signal", "erase"} \/ rpc' \in {"signal", "erase"} => rpc' = rpc
  <2> USE DEF callerVars, readerVars, TypeOK
  <2>1. CASE ReaderLoop
    BY <2>1 DEF ReaderLoop
  <2>2. CASE IgnoreFrame
    BY <2>2 DEF IgnoreFrame
  <2>6. CASE AnswerPing
    BY <2>6 DEF AnswerPing
  <2>3. CASE RecvFail
    BY <2>3 DEF RecvFail
  <2>4. CASE SweepEnd
    BY <2>4 DEF SweepEnd, Sweep
  <2>5. CASE LinkDrops
    BY <2>5 DEF LinkDrops
  <2>7. CASE Stop
    BY <2>7 DEF Stop
  <2> QED BY <2>1, <2>2, <2>3, <2>4, <2>5, <2>6, <2>7
<1>2. TypeOK'
  BY <1>1 DEF TypeOK
<1>3. Drawn'
  BY <1>1 DEF Drawn
<1>4. Told'
  <2>1. alive' => rpc' \notin {"fail", Sweep("mercury"), Sweep("akey")}
    BY <1>1 DEF Told, Sweep
  <2> QED BY <1>1, <2>1 DEF Told
<1>5. PrivateRequests'
  BY <1>1 DEF PrivateRequests
<1>6. Reachable'
  BY <1>1 DEF Reachable
<1>7. NoLeak'
  BY <1>1 DEF NoLeak
<1> QED BY <1>2, <1>3, <1>4, <1>5, <1>6, <1>7

LEMMA SweepTableStep == ASSUME IInv, NEW k \in Kinds, SweepTable(k) PROVE IInv'
<1> USE DEF IInv
<1>1. /\ UNCHANGED <<alive, running, link, next, table, pen, sent, pc, req, outcome, rreq>>
      /\ todo' = table[k] /\ rpc' = Sweep(k)
      /\ rpc \in {"fail", Sweep("mercury")}
  BY DEF SweepTable, callerVars
<1>2. ~alive /\ rpc' \notin {"signal", "erase"}
  BY <1>1 DEF Told, Sweep
<1>3. TypeOK'
  BY <1>1 DEF TypeOK
<1>4. Drawn'
  BY <1>1, <1>2 DEF Drawn
<1>5. Told'
  BY <1>1, <1>2 DEF Told
<1>6. PrivateRequests'
  BY <1>1 DEF PrivateRequests
<1>7. Reachable' /\ NoLeak'
  BY <1>1, <1>2 DEF Reachable, NoLeak
<1> QED BY <1>3, <1>4, <1>5, <1>6, <1>7

LEMMA SweepOneStep == ASSUME IInv, SweepOne PROVE IInv'
<1> USE DEF IInv
<1>1. PICK r \in todo :
        /\ pen' = [pen EXCEPT ![r].done = TRUE, ![r].ok = FALSE]
        /\ todo' = todo \ {r}
  BY DEF SweepOne
<1>2. /\ UNCHANGED <<alive, running, link, next, table, sent, pc, req, outcome, rpc, rreq>>
      /\ rpc \in {Sweep("mercury"), Sweep("akey")}
  BY DEF SweepOne, callerVars, TableHeld, Kinds
<1>3. ~alive /\ rpc \notin {"signal", "erase"}
  BY <1>2 DEF Told, Sweep
<1>4. /\ DOMAIN pen' = DOMAIN pen
      /\ \A p \in DOMAIN pen : p # r => pen'[p] = pen[p]
      /\ r \in DOMAIN pen => pen'[r] = [pen[r] EXCEPT !.done = TRUE, !.ok = FALSE]
  BY <1>1
<1>5. r \in DOMAIN pen
  BY DEF Drawn
<1>6. TypeOK'
  <2>1. pen' \in [DOMAIN pen' -> PenType]
    <3>1. pen[r] \in PenType
      BY <1>5 DEF TypeOK
    <3>2. pen'[r] \in PenType
      BY <1>4, <1>5, <3>1, PenSwept
    <3> QED BY <1>1, <1>4, <1>5, <3>2 DEF TypeOK
  <2>2. todo' \in SUBSET Requests
    BY <1>1 DEF TypeOK
  <2> QED BY <1>2, <1>4, <2>1, <2>2 DEF TypeOK
<1>7. Drawn'
  BY <1>1, <1>2, <1>4 DEF Drawn
<1>8. Told'
  <2>1. \A p \in DOMAIN pen' : pen'[p].ok => pen'[p].heard
    <3>1. pen[r] \in PenType
      BY <1>5 DEF TypeOK
    <3>2. ~pen'[r].ok
      BY <1>4, <1>5, <3>1, PenSwept
    <3> QED BY <1>4, <3>2 DEF Told
  <2> QED BY <1>2, <1>3, <2>1 DEF Told
<1>9. PrivateRequests'
  BY <1>2 DEF PrivateRequests
<1>10. Reachable' /\ NoLeak'
  BY <1>2, <1>3 DEF Reachable, NoLeak
<1> QED BY <1>6, <1>7, <1>8, <1>9, <1>10

\* A frame that fills the pending object r and lets the reader hold on to it.
LEMMA Fill ==
  ASSUME IInv, NEW r \in DOMAIN pen, NEW ok \in BOOLEAN,
         pen' = [pen EXCEPT ![r].ok = ok, ![r].heard = TRUE],
         rpc = "recv", rpc' = "signal", rreq' = r,
         table' \in [Kinds -> SUBSET Requests],
         r \in table[r[1]],
         \A k \in Kinds : table'[k] \subseteq table[k],
         \A k \in Kinds : table[k] \subseteq table'[k] \cup {r},
         r[1] = "akey" => r \notin table'["akey"],
         UNCHANGED <<callerVars, alive, running, link, todo>>
  PROVE  IInv'
<1> USE DEF IInv
<1>1. UNCHANGED <<next, sent, pc, req, outcome, alive, running, link, todo>>
  BY DEF callerVars
<1>2. /\ DOMAIN pen' = DOMAIN pen
      /\ \A p \in DOMAIN pen : p # r => pen'[p] = pen[p]
      /\ pen'[r] = [pen[r] EXCEPT !.ok = ok, !.heard = TRUE]
  OBVIOUS
<1>11. pen[r] \in PenType
  BY DEF TypeOK
<1>3. pen'[r] \in PenType /\ pen'[r].heard /\ pen'[r].done = pen[r].done
  BY <1>2, <1>11, PenFilled
<1>4. \A p \in DOMAIN pen : pen'[p].done = pen[p].done
  BY <1>2, <1>3
<1>5. TypeOK'
  <2>1. pen' \in [DOMAIN pen' -> PenType]
    BY <1>2, <1>3 DEF TypeOK
  <2>2. rreq' \in Requests /\ DOMAIN pen' \subseteq Requests
    BY <1>2 DEF TypeOK
  <2> QED BY <1>1, <2>1, <2>2 DEF TypeOK
<1>6. Drawn'
  BY <1>1, <1>2 DEF Drawn
<1>7. Told'
  <2>1. \A p \in DOMAIN pen : p[1] \in Kinds
    BY RequestShape DEF TypeOK
  <2>2. \A p \in DOMAIN pen' :
          alive' /\ pen'[p].done => p \notin table'[p[1]] \/ (rpc' = "erase" /\ rreq' = p)
    BY <1>1, <1>2, <1>4, <2>1 DEF Told
  <2>3. \A p \in DOMAIN pen' : pen'[p].ok => pen'[p].heard
    BY <1>2, <1>3 DEF Told
  <2> QED BY <2>2, <2>3 DEF Told, Sweep
<1>8. PrivateRequests'
  BY <1>1 DEF PrivateRequests
<1>9. Reachable'
  <2> SUFFICES ASSUME NEW d \in Callers, pc[d] \in {"send", "lock", "waiting"},
                      alive, ~pen'[req[d]].done
               PROVE  req[d] \in table'[req[d][1]] \/ req[d] = r
    BY <1>1 DEF Reachable
  <2>1. req[d] \in DOMAIN pen /\ req[d][1] \in Kinds
    BY RequestShape DEF Drawn, TypeOK
  <2>2. req[d] \in table[req[d][1]]
    BY <1>4, <2>1 DEF Reachable
  <2> QED BY <2>1, <2>2
<1>10. NoLeak'
  BY <1>1 DEF NoLeak
<1> QED BY <1>5, <1>6, <1>7, <1>8, <1>9, <1>10

LEMMA MercuryFinalStep ==
  ASSUME IInv, NEW r \in sent, NEW ok \in BOOLEAN, MercuryFinal(r, ok) PROVE IInv'
<1>1. CASE r \in table["mercury"]
  <2>1. r \in DOMAIN pen /\ r[1] = "mercury" /\ "mercury" \in Kinds
        /\ table \in [Kinds -> SUBSET Requests]
    BY DEF IInv, Drawn, TypeOK, MercuryFinal, Kinds
  <2>2. /\ rpc = "recv" /\ rpc' = "signal" /\ rreq' = r /\ table' = table
        /\ pen' = [pen EXCEPT ![r].ok = ok, ![r].heard = TRUE]
        /\ UNCHANGED <<callerVars, alive, running, link, todo>>
    BY <1>1 DEF MercuryFinal
  <2> QED BY <1>1, <2>1, <2>2, Fill
<1>2. CASE r \notin table["mercury"]
  <2>1. rpc = "recv" /\ IgnoreFrame
    BY <1>2 DEF MercuryFinal, IgnoreFrame
  <2> QED BY <2>1, ReaderIdles
<1> QED BY <1>1, <1>2

LEMMA AudioKeyFrameStep ==
  ASSUME IInv, NEW r \in sent, NEW ok \in BOOLEAN, AudioKeyFrame(r, ok) PROVE IInv'
<1>1. CASE r \in table["akey"]
  <2>1. r \in DOMAIN pen /\ r[1] = "akey" /\ "akey" \in Kinds
        /\ table \in [Kinds -> SUBSET Requests]
    BY DEF IInv, Drawn, TypeOK, AudioKeyFrame, Kinds
  <2>2. /\ rpc = "recv" /\ rpc' = "signal" /\ rreq' = r
        /\ table' = [table EXCEPT !["akey"] = @ \ {r}]
        /\ pen' = [pen EXCEPT ![r].ok = ok, ![r].heard = TRUE]
        /\ UNCHANGED <<callerVars, alive, running, link, todo>>
    BY <1>1, <2>1 DEF AudioKeyFrame, Forget
  <2>3. /\ table' \in [Kinds -> SUBSET Requests]
        /\ \A k \in Kinds : table'[k] \subseteq table[k]
        /\ \A k \in Kinds : table[k] \subseteq table'[k] \cup {r}
        /\ r \notin table'["akey"]
    BY <2>1, <2>2
  <2> QED BY <1>1, <2>1, <2>2, <2>3, Fill
<1>2. CASE r \notin table["akey"]
  <2>1. rpc = "recv" /\ IgnoreFrame
    BY <1>2 DEF AudioKeyFrame, IgnoreFrame
  <2> QED BY <2>1, ReaderIdles
<1> QED BY <1>1, <1>2

LEMMA SignalStep == ASSUME IInv, Signal PROVE IInv'
<1> USE DEF IInv
<1>1. /\ rpc = "signal" /\ pen' = [pen EXCEPT ![rreq].done = TRUE]
      /\ \/ rreq[1] = "mercury" /\ rpc' = "erase" /\ rreq' = rreq
         \/ rreq[1] # "mercury" /\ rpc' = "loop" /\ rreq' = NoReq
      /\ UNCHANGED <<next, sent, pc, req, outcome, alive, running, link, table, todo>>
  BY DEF Signal, callerVars
<1>2. rreq \in DOMAIN pen /\ rreq \in Requests /\ rreq[1] \in {"mercury", "akey"}
  BY <1>1, RequestShape DEF Drawn, TypeOK, Kinds
<1>3. /\ DOMAIN pen' = DOMAIN pen
      /\ \A p \in DOMAIN pen : p # rreq => pen'[p] = pen[p]
      /\ pen'[rreq] = [pen[rreq] EXCEPT !.done = TRUE]
  BY <1>1, <1>2
<1>11. pen[rreq] \in PenType
  BY <1>2 DEF TypeOK
<1>12. /\ pen'[rreq].done /\ pen'[rreq] \in PenType
       /\ pen'[rreq].ok = pen[rreq].ok /\ pen'[rreq].heard = pen[rreq].heard
  BY <1>2, <1>3, <1>11, PenSignalled
<1>4. /\ pen'[rreq].done /\ pen'[rreq] \in PenType
      /\ \A p \in DOMAIN pen : pen'[p].ok = pen[p].ok /\ pen'[p].heard = pen[p].heard
  BY <1>3, <1>12
<1>5. TypeOK'
  <2>1. pen' \in [DOMAIN pen' -> PenType]
    BY <1>1, <1>3, <1>4 DEF TypeOK
  <2> QED BY <1>1, <1>2, <1>3, <2>1 DEF TypeOK
<1>6. Drawn'
  BY <1>1, <1>2, <1>3 DEF Drawn
<1>7. Told'
  <2>1. rreq[1] = "akey" => rreq \notin table["akey"]
    BY <1>1 DEF Told
  <2>2. \A p \in DOMAIN pen' :
          alive' /\ pen'[p].done => p \notin table'[p[1]] \/ (rpc' = "erase" /\ rreq' = p)
    BY <1>1, <1>2, <1>3, <2>1 DEF Told
  <2>3. rpc' = "erase" => pen'[rreq'].done
    BY <1>1, <1>4
  <2>4. \A p \in DOMAIN pen' : pen'[p].ok => pen'[p].heard
    BY <1>3, <1>4 DEF Told
  <2> QED BY <1>1, <2>2, <2>3, <2>4 DEF Told, Sweep
<1>8. PrivateRequests'
  BY <1>1 DEF PrivateRequests
<1>9. Reachable'
  <2> SUFFICES ASSUME NEW d \in Callers, pc[d] \in {"send", "lock", "waiting"},
                      alive, ~pen'[req[d]].done
               PROVE  req[d] \in table[req[d][1]]
    BY <1>1 DEF Reachable
  <2>1. req[d] # rreq /\ req[d] \in DOMAIN pen
    BY <1>4 DEF Drawn
  <2> QED BY <1>3, <2>1 DEF Reachable
<1>10. NoLeak'
  <2>1. rreq[1] = "akey" => \A k \in Kinds : rreq \notin table[k]
    BY <1>1 DEF Told, Drawn
  <2> QED BY <1>1, <1>2, <2>1 DEF NoLeak
<1> QED BY <1>5, <1>6, <1>7, <1>8, <1>9, <1>10

LEMMA EraseStep == ASSUME IInv, Erase PROVE IInv'
<1> USE DEF IInv
<1>1. /\ rpc = "erase" /\ rpc' = "loop" /\ rreq' = NoReq
      /\ table' = [table EXCEPT ![rreq[1]] = @ \ {rreq}]
      /\ UNCHANGED <<next, sent, pc, req, outcome, alive, running, link, pen, todo>>
  BY DEF Erase, Forget, callerVars
<1>2. rreq \in DOMAIN pen /\ rreq \in Requests /\ rreq[1] \in Kinds /\ pen[rreq].done
  BY <1>1, RequestShape DEF Drawn, TypeOK, Told
<1>3. \A k \in Kinds : table'[k] = IF k = rreq[1] THEN table[k] \ {rreq} ELSE table[k]
  BY <1>1, <1>2 DEF TypeOK
<1>4. \A k \in Kinds : \A r : r \in table'[k] <=> r \in table[k] /\ r # rreq
  <2>1. \A k \in Kinds : rreq \in table[k] => k = rreq[1]
    BY DEF Drawn
  <2> QED BY <1>3, <2>1
<1>5. TypeOK'
  <2>1. table' \in [Kinds -> SUBSET Requests]
    BY <1>1, <1>2 DEF TypeOK
  <2> QED BY <1>1, <2>1 DEF TypeOK
<1>6. Drawn'
  BY <1>1, <1>4 DEF Drawn
<1>7. Told'
  <2>1. \A p \in DOMAIN pen : p[1] \in Kinds
    BY RequestShape DEF TypeOK
  <2> QED BY <1>1, <1>4, <2>1 DEF Told, Sweep
<1>8. PrivateRequests'
  BY <1>1 DEF PrivateRequests
<1>9. Reachable'
  <2> SUFFICES ASSUME NEW d \in Callers, pc[d] \in {"send", "lock", "waiting"},
                      alive, ~pen[req[d]].done
               PROVE  req[d] \in table'[req[d][1]]
    BY <1>1 DEF Reachable
  <2>1. req[d] # rreq
    BY <1>2
  <2>2. req[d][1] \in Kinds
    BY RequestShape DEF Drawn, TypeOK
  <2> QED BY <1>4, <2>1, <2>2 DEF Reachable
<1>10. NoLeak'
  BY <1>1, <1>4 DEF NoLeak
<1> QED BY <1>5, <1>6, <1>7, <1>8, <1>9, <1>10

-----------------------------------------------------------------------------

LEMMA NextIInv == IInv /\ [Next]_vars => IInv'
<1> SUFFICES ASSUME IInv, [Next]_vars PROVE IInv'
  OBVIOUS
<1>1. CASE UNCHANGED vars
  <2> USE <1>1 DEF vars, IInv
  <2>1. TypeOK' /\ Drawn'
    BY DEF TypeOK, Drawn
  <2>2. Told'
    BY DEF Told
  <2>3. PrivateRequests' /\ Reachable'
    BY DEF PrivateRequests, Reachable
  <2>4. NoLeak'
    BY DEF NoLeak
  <2> QED BY <2>1, <2>2, <2>3, <2>4
<1>2. ASSUME NEW c \in Callers, SendOk(c) \/ SendFail(c) \/ Block(c) \/ Timeout(c)
      PROVE  IInv'
  <2>1. PICK l \in {"unsend", "lock", "waiting", "expire"} :
          /\ Goto(c, l) /\ pc[c] \in {"send", "lock", "waiting"}
          /\ sent' \in {sent, sent \cup {req[c]}}
          /\ UNCHANGED <<readerVars, running, link, next, table, pen, req, outcome>>
    BY <1>2 DEF SendOk, SendFail, Block, Timeout
  <2> QED BY <2>1, MoveOn
<1>3. ASSUME NEW c \in Callers, Unsend(c) \/ Expire(c)
      PROVE  IInv'
  <2>1. PICK result \in Failures :
          /\ pc[c] \in {"unsend", "expire"} /\ Forget(req[c]) /\ Return(c, result)
          /\ UNCHANGED <<readerVars, running, link, next, pen, sent>>
    BY <1>3 DEF Unsend, Expire
  <2> QED BY <2>1, GiveUp
<1>4. ASSUME NEW c \in Callers, CallerStep(c) PROVE IInv'
  BY <1>2, <1>3, <1>4, RegisterStep, CollectStep DEF CallerStep
<1>5. CASE ReaderStep
  BY <1>5, ReaderIdles, SweepTableStep, SweepOneStep, MercuryFinalStep,
     AudioKeyFrameStep, SignalStep, EraseStep DEF ReaderStep
<1> QED BY <1>1, <1>4, <1>5, CallStep, ReaderIdles DEF Next

\* For any number of callers: the state is well typed; no two calls share a
\* number; a live reader can find every call that still lacks its answer; and
\* no table entry of a live connection outlives its call.
THEOREM DispatcherSafe ==
  Spec => [](TypeOK /\ PrivateRequests /\ Reachable /\ NoLeak)
<1>1. IInv => TypeOK /\ PrivateRequests /\ Reachable /\ NoLeak
  BY DEF IInv
<1> QED BY InitIInv, NextIInv, <1>1, PTL DEF Spec

\* Tables, counters, pending objects and both program counters keep their types,
\* however many callers there are and however often they time out.
THEOREM DispatcherTypes == Spec => []TypeOK
BY DispatcherSafe, PTL

-----------------------------------------------------------------------------
(* Refinement: the dispatcher implements Exchange.                         *)

\* The two abstract variables, named so that the steps below can be short.
Asking   == [c \in Callers |-> pc[c] # "idle"]
Answered == [c \in Callers |-> InFlight(c) /\ pen[req[c]].heard]

LEMMA ExchangeInit == Init => Exchange!Init
<1> SUFFICES ASSUME Init PROVE Exchange!Init
  OBVIOUS
<1>1. \A c \in Callers : (pc[c] # "idle") = FALSE /\ InFlight(c) = FALSE
  BY DEF Init
<1>2. Asking = [c \in Callers |-> FALSE] /\ Answered = [c \in Callers |-> FALSE]
  BY <1>1 DEF Asking, Answered
<1> QED BY <1>2 DEF Init, Exchange!Init, Asking, Answered

\* The abstract state does not see a step that keeps every caller where it was
\* in the call and adds no answer.
LEMMA ExchangeStutter ==
  ASSUME \A d \in Callers : /\ pc[d] # "idle" <=> pc'[d] # "idle"
                            /\ InFlight(d) <=> InFlight(d)'
                            /\ InFlight(d) => pen'[req'[d]].heard = pen[req[d]].heard,
         outcome' = outcome
  PROVE  UNCHANGED Exchange!vars
BY DEF Exchange!vars

LEMMA AskingDrops ==
  ASSUME NEW c \in Callers, pc'[c] = "idle",
         \A d \in Callers \ {c} : pc'[d] = pc[d]
  PROVE  Asking' = [Asking EXCEPT ![c] = FALSE]
BY DEF Asking

\* A call that returns, with whatever result.
LEMMA ExchangeFinish ==
  ASSUME IInv, NEW c \in Callers, NEW result \in Failures \cup {"reply"},
         pc[c] # "idle", Return(c, result), pen' = pen,
         result = "reply" => InFlight(c) /\ pen[req[c]].heard
  PROVE  Exchange!Finish(c, result)
<1>1. \A d \in Callers : /\ pc'[d] = IF d = c THEN "idle" ELSE pc[d]
                         /\ d # c => req'[d] = req[d]
  BY DEF Return, Goto, IInv, TypeOK
<1>2. Asking' = [Asking EXCEPT ![c] = FALSE]
  <2>1. pc'[c] = "idle" /\ \A d \in Callers \ {c} : pc'[d] = pc[d]
    BY <1>1
  <2> QED BY <2>1, AskingDrops
<1>3. Answered' = [Answered EXCEPT ![c] = FALSE]
  BY <1>1 DEF Answered
<1>4. outcome' = [outcome EXCEPT ![c] = result]
  BY DEF Return
<1>5. Asking[c] /\ (result = "reply" => Answered[c])
  BY DEF Asking, Answered
<1> QED BY <1>2, <1>3, <1>4, <1>5 DEF Exchange!Finish, Asking, Answered

\* The last frame of an answer reaches at most one call.
LEMMA ExchangeAnswer ==
  ASSUME IInv, NEW r \in DOMAIN pen, NEW ok \in BOOLEAN,
         pen' = [pen EXCEPT ![r].ok = ok, ![r].heard = TRUE],
         UNCHANGED <<pc, req, outcome>>
  PROVE  [Exchange!Next]_(Exchange!vars)
<1>1. /\ \A p \in DOMAIN pen : p # r => pen'[p] = pen[p]
      /\ pen'[r].heard = TRUE
  <2>1. pen[r] \in PenType
    BY DEF IInv, TypeOK
  <2> QED BY <2>1, PenFilled
<1>2. \A d \in Callers : InFlight(d) => req[d] \in DOMAIN pen
  BY DEF IInv, Drawn
<1>3. CASE \E c \in Callers : InFlight(c) /\ req[c] = r /\ ~pen[r].heard
  <2>1. PICK c \in Callers : InFlight(c) /\ req[c] = r /\ ~pen[r].heard
    BY <1>3
  <2>2. \A d \in Callers : d # c /\ InFlight(d) => req[d] # r
    BY <2>1 DEF IInv, PrivateRequests
  <2>3. Answered' = [Answered EXCEPT ![c] = TRUE]
    <3>1. \A d \in Callers :
            (InFlight(d)' /\ pen'[req'[d]].heard)
              = IF d = c THEN TRUE ELSE InFlight(d) /\ pen[req[d]].heard
      BY <1>1, <1>2, <2>1, <2>2
    <3> QED BY <3>1 DEF Answered
  <2>4. Asking[c] /\ ~Answered[c]
    BY <2>1 DEF Asking, Answered
  <2>5. Exchange!Answer(c)
    BY <2>3, <2>4 DEF Exchange!Answer, Asking, Answered
  <2> QED BY <2>5 DEF Exchange!Next
<1>4. CASE ~ \E c \in Callers : InFlight(c) /\ req[c] = r /\ ~pen[r].heard
  <2>1. \A d \in Callers : InFlight(d) => (pen'[req[d]].heard <=> pen[req[d]].heard)
    BY <1>1, <1>2, <1>4
  <2>2. Answered' = Answered
    BY <2>1 DEF Answered
  <2> QED BY <2>2 DEF Exchange!vars, Answered
<1> QED BY <1>3, <1>4

LEMMA ExchangeCall ==
  ASSUME IInv, NEW c \in Callers, Call(c)
  PROVE  [Exchange!Next]_(Exchange!vars)
<1>1. UNCHANGED pen /\ pc[c] = "idle"
  BY DEF Call
<1>2. CASE alive
  <2>1. /\ pc' = [pc EXCEPT ![c] = "register"]
        /\ outcome' = [outcome EXCEPT ![c] = "none"] /\ req' = req
    BY <1>2 DEF Call, Goto
  <2>2. \A d \in Callers : pc'[d] = IF d = c THEN "register" ELSE pc[d]
    BY <2>1 DEF IInv, TypeOK
  <2>3. /\ pc'[c] # "idle" /\ ~InFlight(c)' /\ ~InFlight(c)
        /\ \A d \in Callers \ {c} : pc'[d] = pc[d] /\ (InFlight(d)' <=> InFlight(d))
    BY <1>1, <2>2
  <2>7. Asking' = [d \in Callers |-> IF d = c THEN TRUE ELSE Asking[d]]
    BY <2>3 DEF Asking
  <2>4. Asking' = [Asking EXCEPT ![c] = TRUE] /\ ~Asking[c]
    BY <1>1, <2>7 DEF Asking
  <2>5. Answered' = Answered
    BY <1>1, <2>1, <2>3 DEF Answered
  <2>6. Exchange!Ask(c)
    BY <2>1, <2>4, <2>5 DEF Exchange!Ask, Asking, Answered
  <2> QED BY <2>6 DEF Exchange!Next
<1>3. CASE ~alive
  <2>1. /\ pc' = [pc EXCEPT ![c] = "idle"] /\ req' = [req EXCEPT ![c] = NoReq]
        /\ outcome' = [outcome EXCEPT ![c] = "dead"]
    BY <1>3 DEF Call, Return, Goto
  <2>2. \A d \in Callers : /\ pc'[d] = pc[d]
                           /\ d # c => req'[d] = req[d]
    BY <1>1, <2>1 DEF IInv, TypeOK
  <2>3. \A d \in Callers :
          /\ (pc'[d] # "idle") = (pc[d] # "idle")
          /\ (InFlight(d)' /\ pen'[req'[d]].heard) = (InFlight(d) /\ pen[req[d]].heard)
    BY <1>1, <2>2
  <2>4. Asking' = Asking /\ Answered' = Answered /\ ~Asking[c]
    BY <1>1, <2>3 DEF Asking, Answered
  <2>5. Exchange!Refuse(c)
    BY <2>1, <2>4 DEF Exchange!Refuse, Asking, Answered
  <2> QED BY <2>5 DEF Exchange!Next
<1> QED BY <1>2, <1>3

LEMMA ExchangeRegister ==
  ASSUME IInv, NEW c \in Callers, NEW k \in Kinds, Register(c, k)
  PROVE  UNCHANGED Exchange!vars
<1> DEFINE r == <<k, next[k]>>
<1>1. /\ pc[c] = "register" /\ pc' = [pc EXCEPT ![c] = "send"]
      /\ req' = [req EXCEPT ![c] = r] /\ outcome' = outcome
      /\ pen' = [p \in DOMAIN pen \cup {r} |-> IF p = r THEN FreshPen ELSE pen[p]]
  BY DEF Register, Goto
<1>2. r \notin DOMAIN pen
  <2>1. next[k] \in Nat /\ r[1] = k /\ r[2] = next[k]
    BY DEF IInv, TypeOK
  <2>2. r \in DOMAIN pen => next[k] < next[k]
    BY <2>1 DEF IInv, Drawn
  <2>3. next[k] \in Nat
    BY <2>1
  <2> HIDE DEF r
  <2> QED BY <2>2, <2>3
<1> HIDE DEF r
<1>3. \A d \in Callers : /\ pc'[d] = IF d = c THEN "send" ELSE pc[d]
                         /\ req'[d] = IF d = c THEN r ELSE req[d]
  BY <1>1 DEF IInv, TypeOK
<1>4. pen'[r].heard = FALSE /\ \A p \in DOMAIN pen : pen'[p] = pen[p]
  BY <1>1, <1>2 DEF FreshPen
<1>5. \A d \in Callers : InFlight(d) => req[d] \in DOMAIN pen /\ d # c
  BY <1>1 DEF IInv, Drawn
<1>6. \A d \in Callers :
        /\ (pc'[d] # "idle") = (pc[d] # "idle")
        /\ (InFlight(d)' /\ pen'[req'[d]].heard) = (InFlight(d) /\ pen[req[d]].heard)
  BY <1>1, <1>3, <1>4, <1>5
<1>7. Asking' = Asking /\ Answered' = Answered
  BY <1>6 DEF Asking, Answered
<1> QED BY <1>1, <1>7 DEF Exchange!vars, Asking, Answered

\* A step that changes no caller and no heard flag.
LEMMA ExchangeQuiet ==
  ASSUME UNCHANGED <<pc, req, outcome>>,
         \A c \in Callers : InFlight(c) => (pen'[req[c]].heard = pen[req[c]].heard)
  PROVE  UNCHANGED Exchange!vars
<1>1. \A d \in Callers :
        /\ (pc'[d] # "idle") = (pc[d] # "idle")
        /\ (InFlight(d)' /\ pen'[req'[d]].heard) = (InFlight(d) /\ pen[req[d]].heard)
  OBVIOUS
<1>2. Asking' = Asking /\ Answered' = Answered
  BY <1>1 DEF Asking, Answered
<1> QED BY <1>2 DEF Exchange!vars, Asking, Answered

LEMMA ExchangeStep == IInv /\ [Next]_vars => [Exchange!Next]_(Exchange!vars)
<1> SUFFICES ASSUME IInv, [Next]_vars PROVE [Exchange!Next]_(Exchange!vars)
  OBVIOUS
<1>1. CASE UNCHANGED vars
  BY <1>1, ExchangeQuiet DEF vars
<1>2. CASE \E c \in Callers : Call(c)
  BY <1>2, ExchangeCall
<1>3. ASSUME NEW c \in Callers, CallerStep(c)
      PROVE  [Exchange!Next]_(Exchange!vars)
  <2>1. CASE \E k \in Kinds : Register(c, k)
    BY <2>1, ExchangeRegister
  <2>2. CASE SendOk(c) \/ SendFail(c) \/ Block(c) \/ Timeout(c)
    <3>1. PICK l \in {"unsend", "lock", "waiting", "expire"} :
            /\ pc' = [pc EXCEPT ![c] = l] /\ pc[c] \in {"send", "lock", "waiting"}
            /\ UNCHANGED <<pen, req, outcome>>
      BY <2>2 DEF SendOk, SendFail, Block, Timeout, Goto
    <3>2. \A d \in Callers : pc'[d] = IF d = c THEN l ELSE pc[d]
      BY <3>1 DEF IInv, TypeOK
    <3> QED BY <3>1, <3>2, ExchangeStutter
  <2>3. CASE Unsend(c)
    <3>1. Exchange!Finish(c, "send failed")
      BY <2>3, ExchangeFinish DEF Unsend
    <3> QED BY <3>1 DEF Exchange!Next, Exchange!Failures
  <2>4. CASE Expire(c)
    <3>1. Exchange!Finish(c, "timeout")
      BY <2>4, ExchangeFinish DEF Expire
    <3> QED BY <3>1 DEF Exchange!Next, Exchange!Failures
  <2>5. CASE Collect(c)
    <3>1. /\ pc[c] \in {"lock", "waiting"} /\ pen' = pen
          /\ Return(c, IF pen[req[c]].ok THEN "reply" ELSE "rejected")
      BY <2>5 DEF Collect
    <3>2. pen[req[c]].ok => pen[req[c]].heard
      BY <3>1 DEF IInv, Told, Drawn
    <3>3. CASE pen[req[c]].ok
      <4>1. Exchange!Finish(c, "reply")
        BY <3>1, <3>2, <3>3, ExchangeFinish
      <4> QED BY <4>1 DEF Exchange!Next
    <3>4. CASE ~pen[req[c]].ok
      <4>1. Exchange!Finish(c, "rejected")
        BY <3>1, <3>4, ExchangeFinish
      <4> QED BY <4>1 DEF Exchange!Next, Exchange!Failures
    <3> QED BY <3>3, <3>4
  <2> QED BY <1>3, <2>1, <2>2, <2>3, <2>4, <2>5 DEF CallerStep
<1>4. ASSUME NEW r \in sent, NEW ok \in BOOLEAN,
             MercuryFinal(r, ok) \/ AudioKeyFrame(r, ok)
      PROVE  [Exchange!Next]_(Exchange!vars)
  <2>1. UNCHANGED <<pc, req, outcome>>
    BY <1>4 DEF MercuryFinal, AudioKeyFrame, callerVars
  <2>2. \/ pen' = pen
        \/ r \in DOMAIN pen /\ pen' = [pen EXCEPT ![r].ok = ok, ![r].heard = TRUE]
    BY <1>4 DEF MercuryFinal, AudioKeyFrame, IInv, Drawn
  <2> QED BY <2>1, <2>2, ExchangeAnswer, ExchangeQuiet
<1>5. ASSUME Signal \/ SweepOne
      PROVE  [Exchange!Next]_(Exchange!vars)
  <2>1. UNCHANGED <<pc, req, outcome>>
    BY <1>5 DEF Signal, SweepOne, callerVars
  <2>2. PICK r \in DOMAIN pen :
          \/ pen' = [pen EXCEPT ![r].done = TRUE]
          \/ pen' = [pen EXCEPT ![r].done = TRUE, ![r].ok = FALSE]
    BY <1>5 DEF Signal, SweepOne, IInv, Drawn
  <2>3. pen[r] \in PenType
    BY DEF IInv, TypeOK
  <2>4. \A p \in DOMAIN pen : pen'[p].heard = pen[p].heard
    BY <2>2, <2>3 DEF PenType
  <2> QED BY <2>1, <2>4, ExchangeQuiet DEF IInv, Drawn
<1>6. CASE \/ ReaderLoop \/ IgnoreFrame \/ AnswerPing \/ Erase \/ RecvFail
           \/ SweepEnd \/ LinkDrops \/ Stop \/ \E k \in Kinds : SweepTable(k)
  <2>1. UNCHANGED <<pc, req, outcome, pen>>
    BY <1>6 DEF ReaderLoop, IgnoreFrame, AnswerPing, Erase, RecvFail, SweepEnd,
                LinkDrops, Stop, SweepTable, callerVars
  <2> QED BY <2>1, ExchangeQuiet
<1> QED BY <1>1, <1>2, <1>3, <1>4, <1>5, <1>6 DEF Next, ReaderStep

\* For any number of callers: a call ends with an answer only if the access
\* point answered that very call while it was in progress.
THEOREM DispatcherRefinesExchange == Spec => ImplementsExchange
<1>1. Spec => []IInv
  BY InitIInv, NextIInv, PTL DEF Spec
<1> QED BY <1>1, ExchangeInit, ExchangeStep, PTL
        DEF Spec, ImplementsExchange, Exchange!Spec

=============================================================================
