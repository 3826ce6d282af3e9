----------------------------- MODULE AlertPromise ------------------------------
(***************************************************************************)
(* What alert-operations.service.ts promises of each alert, with atomic    *)
(* operations: it is tried twice at most and not again once it was sent,   *)
(* and it is escalated once, to somebody.                                  *)
(***************************************************************************)
EXTENDS Naturals, Sequences

CONSTANTS Alerts, Users, Times

VARIABLES
  outcomes,    \* for each alert, how its delivery attempts ended
  escalation   \* for each alert, the time and the recipients of its escalation

promise == <<outcomes, escalation>>

None == [at |-> 0, to |-> {}]

PInit ==
  /\ outcomes = [a \in Alerts |-> <<>>]
  /\ escalation = [a \in Alerts |-> None]

Try(a, outcome) ==
  /\ Len(outcomes[a]) < 2
  /\ \A i \in DOMAIN outcomes[a] : outcomes[a][i] = "FAILED"
  /\ outcomes' = [outcomes EXCEPT ![a] = Append(@, outcome)]
  /\ UNCHANGED escalation

EscalateTo(a, at, users) ==
  /\ escalation[a] = None
  /\ users # {}
  /\ escalation' = [escalation EXCEPT ![a] = [at |-> at, to |-> users]]
  /\ UNCHANGED outcomes

PNext ==
  \E a \in Alerts :
    \/ \E o \in {"SENT", "FAILED"} : Try(a, o)
    \/ \E at \in Times, users \in SUBSET Users : EscalateTo(a, at, users)

PSpec == PInit /\ [][PNext]_promise

-------------------------------------------------------------------------------
(* What the promise comes to.                                                  *)

\* An alert is tried twice at most, nothing follows an attempt that was sent,
\* and an escalated one was escalated to somebody.
Moderate ==
  \A a \in Alerts :
    /\ Len(outcomes[a]) <= 2
    /\ \A i, j \in DOMAIN outcomes[a] : i < j => outcomes[a][i] = "FAILED"
    /\ escalation[a] # None => escalation[a].to # {}

KeepsRecord ==
  \A a \in Alerts :
    /\ \A i \in DOMAIN outcomes[a] :
         i \in DOMAIN outcomes'[a] /\ outcomes'[a][i] = outcomes[a][i]
    /\ escalation[a] # None => escalation'[a] = escalation[a]

\* What was recorded of an alert stays: no attempt is rewritten or lost, and an
\* escalation is neither repeated nor given to others.
RecordKept == [][KeepsRecord]_promise
===============================================================================
