------------------------------ MODULE Exchange ------------------------------
(***************************************************************************)
(* What a caller of the dispatcher is promised, src/dispatcher.h: a call   *)
(* ends with an answer only if the access point answered that very call    *)
(* while it was in progress; otherwise it ends with a failure.             *)
(***************************************************************************)
CONSTANT Callers

VARIABLES
  asking,    \* the call is in progress
  answered,  \* the AP's answer to it has arrived
  outcome    \* how the last call returned

vars == <<asking, answered, outcome>>

Failures == {"dead", "send failed", "timeout", "rejected"}

Init ==
  /\ asking = [c \in Callers |-> FALSE]
  /\ answered = [c \in Callers |-> FALSE]
  /\ outcome = [c \in Callers |-> "none"]

Ask(c) ==
  /\ ~asking[c]
  /\ asking' = [asking EXCEPT ![c] = TRUE]
  /\ outcome' = [outcome EXCEPT ![c] = "none"]
  /\ UNCHANGED answered

\* The connection is known to be dead: nothing is asked.
Refuse(c) ==
  /\ ~asking[c]
  /\ outcome' = [outcome EXCEPT ![c] = "dead"]
  /\ UNCHANGED <<asking, answered>>

Answer(c) ==
  /\ asking[c] /\ ~answered[c]
  /\ answered' = [answered EXCEPT ![c] = TRUE]
  /\ UNCHANGED <<asking, outcome>>

Finish(c, result) ==
  /\ asking[c]
  /\ result = "reply" => answered[c]
  /\ asking' = [asking EXCEPT ![c] = FALSE]
  /\ answered' = [answered EXCEPT ![c] = FALSE]
  /\ outcome' = [outcome EXCEPT ![c] = result]

Next ==
  \E c \in Callers :
    \/ Ask(c) \/ Refuse(c) \/ Answer(c)
    \/ \E result \in Failures \cup {"reply"} : Finish(c, result)

Spec == Init /\ [][Next]_vars
=============================================================================
