---------------------------- MODULE MissionProtocol ----------------------------
(***************************************************************************)
(* What the mission workflow promises its users, with every operation      *)
(* atomic and nothing but the visible state: the status, the crew, how far *)
(* each stop has come, and how often the client was told of the delivery.  *)
(***************************************************************************)
EXTENDS MissionPolicy, Naturals

CONSTANTS StopIds, Crews, NoCrew

VARIABLES status, crew, progress, notified

vars == <<status, crew, progress, notified>>

Init ==
  /\ status = "DRAFT"
  /\ crew = NoCrew
  /\ progress = [s \in {} |-> "PENDING"]
  /\ notified = 0

\* The mission advances along the matrix.  It needs a crew to be assigned and
\* a completed stop to be delivered, which is announced as it happens.
Advance(to) ==
  /\ to \in Transitions(status)
  /\ to = "ASSIGNED" => crew # NoCrew
  /\ to = "DELIVERED" => \E s \in DOMAIN progress : progress[s] = "COMPLETED"
  /\ status' = to
  /\ notified' = IF to = "DELIVERED" THEN notified + 1 ELSE notified
  /\ UNCHANGED <<crew, progress>>

\* Another crew takes over.
Assign(c) ==
  /\ c # crew
  /\ crew' = c
  /\ UNCHANGED <<status, progress, notified>>

\* A stop is added to the plan.
Plan(s) ==
  /\ s \notin DOMAIN progress
  /\ progress' = [t \in DOMAIN progress \cup {s} |-> IF t = s THEN "PENDING" ELSE progress[t]]
  /\ UNCHANGED <<status, crew, notified>>

NextStage(stage) ==
  CASE stage = "PENDING"   -> "ARRIVED"
    [] stage = "ARRIVED"   -> "UNLOADING"
    [] stage = "UNLOADING" -> "COMPLETED"

\* A stop advances by one stage: no stage is skipped, repeated or taken back.
Visit(s) ==
  /\ progress[s] # "COMPLETED"
  /\ progress' = [progress EXCEPT ![s] = NextStage(progress[s])]
  /\ UNCHANGED <<status, crew, notified>>

Next ==
  \/ \E to \in MissionStatus : Advance(to)
  \/ \E c \in Crews : Assign(c)
  \/ \E s \in StopIds : Plan(s)
  \/ \E s \in DOMAIN progress : Visit(s)

Spec == Init /\ [][Next]_vars

-------------------------------------------------------------------------------
(* What the protocol comes to.                                                 *)

\* The client is told once of a delivery, and of nothing else; somebody drives
\* what is on its way, and something was unloaded of what was delivered.
Accountable ==
  /\ notified = IF status \in Delivered THEN 1 ELSE 0
  /\ status \in Underway => crew # NoCrew
  /\ status \in Delivered => \E s \in DOMAIN progress : progress[s] = "COMPLETED"

KeepsStops ==
  \A s \in DOMAIN progress :
    s \in DOMAIN progress' /\ (progress[s] = "COMPLETED" => progress'[s] = "COMPLETED")

\* A completed stop stays completed, and a stop that is planned is not given up.
StopsKept == [][KeepsStops]_vars

================================================================================
