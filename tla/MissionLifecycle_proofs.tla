------------------------ MODULE MissionLifecycle_proofs ------------------------
(***************************************************************************)
(* Proofs about MissionLifecycle, for every number of requests, stops,     *)
(* crews, sequences and times.                                             *)
(***************************************************************************)
EXTENDS MissionLifecycle, TLAPS

-------------------------------------------------------------------------------
(* The transition matrix.                                                      *)

\* What the proofs use of MISSION_TRANSITIONS: it leads from statuses to
\* statuses, never back to DRAFT or in place, into each gate from one status
\* only, and nowhere from a terminal status.
LEMMA Matrix ==
  ASSUME NEW from \in MissionStatus, NEW to \in Transitions(from)
  PROVE  /\ to \in MissionStatus
         /\ to # from
         /\ to # "DRAFT"
         /\ to = "ASSIGNED" => from = "DRAFT"
         /\ to = "LOADING" => from = "VEHICLE_ARRIVED"
         /\ to = "DEPARTED" => from = "LOADED"
         /\ to = "DELIVERED" => from = "DELIVERING"
         /\ to \in Underway /\ to # "ASSIGNED" => from \in Underway
         /\ to \in Loaded /\ to # "LOADING" => from \in Loaded
         /\ to \in Departed /\ to # "DEPARTED" => from \in Departed
         /\ to \in Delivered /\ to # "DELIVERED" => from \in Delivered
         /\ from \in Loaded => to \in Loaded \cup {"CANCELLED"}
         /\ from \in Departed => to \in Departed \cup {"CANCELLED"}
         /\ from = "LOADED" => to \in {"DEPARTED", "CANCELLED"}
         /\ from \in Delivered => to \in Delivered
         /\ from \notin Terminal
BY DEF Transitions, Forward, Cancellable, MissionStatus, Underway, Loaded, Departed,
       Delivered, Terminal

-------------------------------------------------------------------------------
(* The assignment history.                                                     *)

\* Succeed adds one row, ends the earlier ones and keeps their crews.
LEMMA SucceedProperties ==
  ASSUME NEW rows \in Seq(AssignmentRow), NEW crew \in Crews
  PROVE  /\ Succeed(rows, crew) \in Seq(AssignmentRow)
         /\ Len(Succeed(rows, crew)) = Len(rows) + 1
         /\ \A i \in 1..Len(rows) :
              Succeed(rows, crew)[i] = [crew |-> rows[i].crew, ended |-> TRUE]
         /\ Succeed(rows, crew)[Len(rows) + 1] = [crew |-> crew, ended |-> FALSE]
<1> DEFINE past == [i \in DOMAIN rows |-> [rows[i] EXCEPT !.ended = TRUE]]
<1>1. /\ Len(rows) \in Nat
      /\ DOMAIN rows = 1..Len(rows)
      /\ \A i \in 1..Len(rows) : rows[i] \in AssignmentRow
  OBVIOUS
<1>2. \A i \in 1..Len(rows) : past[i] = [crew |-> rows[i].crew, ended |-> TRUE]
  BY <1>1 DEF AssignmentRow
<1>3. past \in [1..Len(rows) -> AssignmentRow]
  BY <1>1, <1>2 DEF AssignmentRow
<1>4. past \in Seq(AssignmentRow) /\ Len(past) = Len(rows)
  BY <1>1, <1>3
<1>5. [crew |-> crew, ended |-> FALSE] \in AssignmentRow
  BY DEF AssignmentRow
<1> HIDE DEF past
<1>6. /\ Append(past, [crew |-> crew, ended |-> FALSE]) \in Seq(AssignmentRow)
      /\ Len(Append(past, [crew |-> crew, ended |-> FALSE])) = Len(rows) + 1
      /\ \A i \in 1..Len(rows) : Append(past, [crew |-> crew, ended |-> FALSE])[i] = past[i]
      /\ Append(past, [crew |-> crew, ended |-> FALSE])[Len(rows) + 1] = [crew |-> crew, ended |-> FALSE]
  BY <1>1, <1>4, <1>5
<1> QED
  BY <1>2, <1>6 DEF Succeed, past

-------------------------------------------------------------------------------
(* Type correctness.                                                           *)

\* The initial rows have the types.
LEMMA InitTypeOK == Init => TypeOK
BY DEF Init, TypeOK, MissionRow, MissionStatus, Intent, NoTime

\* The constants of an intent.
LEMMA IntentTypes ==
  ASSUME NEW i \in Intent
  PROVE  /\ i.op = "idle" => i = Idle
         /\ i.op = "transition" => i \in TransitionIntent
         /\ i.op = "assign" => i \in AssignIntent
         /\ i.op = "addStop" => i \in AddIntent
         /\ i.op = "updateStop" => i \in MoveIntent
         /\ i.op = "arrive" => i \in ArriveIntent
         /\ i.op \in {"unload", "complete"} => i \in WorkIntent
BY DEF Intent, Idle, TransitionIntent, AssignIntent, AddIntent, MoveIntent, ArriveIntent, WorkIntent

\* Every step keeps the types.
LEMMA StepTypeOK == TypeOK /\ [Next]_vars => TypeOK'
<1> SUFFICES ASSUME TypeOK, [Next]_vars PROVE TypeOK'
  OBVIOUS
<1> USE DEF TypeOK
<1>1. ASSUME NEW r \in Requests, TransitionStep(r) PROVE TypeOK'
  <2>1. ASSUME NEW to \in MissionStatus, NEW at \in Times \cup {NoTime}, ReadTransition(r, to, at)
        PROVE  TypeOK'
    BY <2>1 DEF ReadTransition, CrewRequired, NotBefore, Begin, Intent, TransitionIntent, StatusLock, MissionRow, NoLock
  <2>2. CASE CheckDelivery(r)
    <3>1. inflight[r] \in TransitionIntent
      BY <2>2, IntentTypes DEF CheckDelivery
    <3>2. [inflight[r] EXCEPT !.checked = TRUE] \in TransitionIntent
      BY <3>1 DEF TransitionIntent
    <3> QED
      BY <2>2, <3>2 DEF CheckDelivery, Remember, Intent
  <2>3. CASE CommitTransition(r)
    <3>1. inflight[r] \in TransitionIntent
      BY <2>3, IntentTypes DEF CommitTransition
    <3>2. /\ inflight[r].to \in MissionStatus
          /\ inflight[r].from \in MissionStatus
          /\ inflight[r].at \in Times \cup {NoTime}
      BY <3>1 DEF TransitionIntent
    <3>3. mission' \in MissionRow
      BY <2>3, <3>2 DEF CommitTransition, MissionRow
    <3>4. /\ timeline' \in [old : MissionStatus, new : MissionStatus]
          /\ notifications' \in Nat
      BY <2>3, <3>2 DEF CommitTransition
    <3>5. inflight' \in [Requests -> Intent]
      BY <2>3 DEF CommitTransition, End, Intent
    <3> QED
      BY <2>3, <3>3, <3>4, <3>5 DEF CommitTransition
  <2>4. CASE LoseTransition(r)
    BY <2>4 DEF LoseTransition, End, Intent
  <2> QED
    BY <1>1, <2>1, <2>2, <2>3, <2>4 DEF TransitionStep
<1>2. ASSUME NEW r \in Requests, AssignStep(r) PROVE TypeOK'
  <2>1. ASSUME NEW crew \in Crews, ReadAssign(r, crew) PROVE TypeOK'
    BY <2>1 DEF ReadAssign, Begin, Intent, AssignIntent
  <2>2. CASE CommitAssign(r)
    <3>1. inflight[r].crew \in Crews
      BY <2>2, IntentTypes DEF CommitAssign, AssignIntent
    <3>2. Succeed(assignments, inflight[r].crew) \in Seq(AssignmentRow)
      BY <3>1, SucceedProperties
    <3> QED
      BY <2>2, <3>1, <3>2 DEF CommitAssign, End, Intent, MissionRow
  <2> QED
    BY <1>2, <2>1, <2>2 DEF AssignStep
<1>3. ASSUME NEW r \in Requests, PlanStep(r) PROVE TypeOK'
  <2>1. ASSUME NEW sequence \in Positions, ReadAddStop(r, sequence) PROVE TypeOK'
    BY <2>1 DEF ReadAddStop, Begin, Intent, AddIntent
  <2>2. ASSUME NEW s \in StopIds, CommitAddStop(r, s) PROVE TypeOK'
    <3>1. inflight[r].sequence \in Positions
      BY <2>2, IntentTypes DEF CommitAddStop, AddIntent
    <3> QED
      BY <2>2, <3>1 DEF CommitAddStop, End, Intent, StopRow, StopStatus
  <2>3. ASSUME NEW s \in DOMAIN stops, NEW sequence \in Positions, ReadUpdateStop(r, s, sequence)
        PROVE  TypeOK'
    BY <2>3 DEF ReadUpdateStop, Begin, Intent, MoveIntent
  <2>4. CASE CommitUpdateStop(r)
    <3>1. inflight[r].sequence \in Positions
      BY <2>4, IntentTypes DEF CommitUpdateStop, MoveIntent
    <3> QED
      BY <2>4, <3>1 DEF CommitUpdateStop, End, Intent, StopRow
  <2> QED
    BY <1>3, <2>1, <2>2, <2>3, <2>4 DEF PlanStep
<1>4. ASSUME NEW r \in Requests, StopStep(r) PROVE TypeOK'
  <2>1. ASSUME NEW s \in DOMAIN stops, NEW at \in Times, ReadArrive(r, s, at) PROVE TypeOK'
    BY <2>1 DEF ReadArrive, Begin, Intent, ArriveIntent, StopRow
  <2>2. ASSUME NEW s \in DOMAIN stops, NEW at \in Times, ReadUnload(r, s, at) PROVE TypeOK'
    BY <2>2 DEF ReadUnload, Begin, Intent, WorkIntent
  <2>3. ASSUME NEW s \in DOMAIN stops, NEW at \in Times, ReadComplete(r, s, at) PROVE TypeOK'
    BY <2>3 DEF ReadComplete, Begin, Intent, WorkIntent
  <2>4. CASE CheckArrive(r)
    <3>1. inflight[r] \in ArriveIntent
      BY <2>4, IntentTypes DEF CheckArrive
    <3>2. [inflight[r] EXCEPT !.checked = TRUE, !.ahead = Ahead(inflight[r].sequence)] \in ArriveIntent
      BY <3>1 DEF ArriveIntent, Ahead
    <3> QED
      BY <2>4, <3>2 DEF CheckArrive, Remember, Intent
  <2>5. CASE CommitArrive(r)
    <3>1. inflight[r].at \in Times
      BY <2>5, IntentTypes DEF CommitArrive, ArriveIntent
    <3>2. ASSUME NEW row \in StopRow
          PROVE  [row EXCEPT !.status = "ARRIVED", !.arrival = inflight[r].at] \in StopRow
      BY <3>1 DEF StopRow, StopStatus
    <3>3. stops' \in [DOMAIN stops -> StopRow]
      BY <2>5, <3>2 DEF CommitArrive, StopStillAt
    <3> QED
      BY <2>5, <3>3 DEF CommitArrive, End, Intent
  <2>6. CASE CommitUnload(r)
    <3>1. inflight[r].at \in Times
      BY <2>6, IntentTypes DEF CommitUnload, WorkIntent
    <3>2. stops' \in [DOMAIN stops -> StopRow]
      BY <2>6, <3>1 DEF CommitUnload, StopRow, StopStatus
    <3> QED
      BY <2>6, <3>2 DEF CommitUnload, End, Intent
  <2>7. CASE CommitComplete(r)
    <3>1. inflight[r].at \in Times
      BY <2>7, IntentTypes DEF CommitComplete, WorkIntent
    <3>2. stops' \in [DOMAIN stops -> StopRow]
      BY <2>7, <3>1 DEF CommitComplete, StopRow, StopStatus
    <3> QED
      BY <2>7, <3>2 DEF CommitComplete, End, Intent
  <2>8. CASE LoseStopCommand(r)
    BY <2>8 DEF LoseStopCommand, End, Intent
  <2> QED
    BY <1>4, <2>1, <2>2, <2>3, <2>4, <2>5, <2>6, <2>7, <2>8 DEF StopStep
<1>5. ASSUME NEW r \in Requests, Rollback(r) PROVE TypeOK'
  BY <1>5 DEF Rollback, End, Intent
<1>6. CASE UNCHANGED vars
  BY <1>6 DEF vars
<1> QED
  BY <1>1, <1>2, <1>3, <1>4, <1>5, <1>6 DEF Next

\* The rows and the requests' memory keep their types.
THEOREM TypeCorrect == Spec => []TypeOK
BY InitTypeOK, StepTypeOK, PTL DEF Spec

-------------------------------------------------------------------------------
(* The inductive invariant.                                                    *)

\* The initial state has no request in flight and nothing recorded.
LEMMA InitIndInv == Init => IndInv
<1> SUFFICES ASSUME Init PROVE IndInv
  OBVIOUS
<1>1. TypeOK
  BY InitTypeOK
<1>2. LocksExclusive /\ IntentsSound
  BY DEF Init, Idle, NoLock, LocksExclusive, IntentsSound, IntentSound, TransitionKnows, AssignKnows,
         PlannedSequenceFree, StopCommandKnows, ArrivalKnows
<1>3. TimesMatchStatus /\ CrewWhileUnderway /\ DepartureAfterLoading /\ NotifiedOnce
  BY DEF Init, TimesMatchStatus, CrewWhileUnderway, DepartureAfterLoading, NotifiedOnce,
         Underway, Loaded, Departed, Delivered, NoTime
<1>4. StopTimesOrdered /\ SequencesUnique /\ DeliveredWithEvidence
  BY DEF Init, StopTimesOrdered, TimesOrdered, SequencesUnique, DeliveredWithEvidence, Delivered
<1>5. AssignmentHistory
  BY DEF Init, AssignmentHistory
<1> QED
  BY <1>1, <1>2, <1>3, <1>4, <1>5 DEF IndInv, Init

\* A step that only changes what request r remembers keeps the invariant if
\* the new memory is sound and any lock it takes is free.
LEMMA MemoryStep ==
  ASSUME IndInv, TypeOK', NEW r \in Requests, NEW i \in Intent,
         Remember(r, i),
         UNCHANGED <<mission, stops, assignments, timeline, notifications>>,
         i.lock \in {NoLock, inflight[r].lock} \/ Available(i.lock),
         IntentSound(r)'
  PROVE  IndInv'
<1> USE DEF IndInv
<1>1. /\ inflight'[r] = i
      /\ \A p \in Requests \ {r} : inflight'[p] = inflight[p]
  BY DEF Remember, TypeOK
<1>2. LocksExclusive'
  BY <1>1 DEF LocksExclusive, Available, NoLock
<1>3. ASSUME NEW p \in Requests PROVE IntentSound(p)'
  <2>1. CASE p = r
    BY <2>1
  <2>2. CASE p # r
    BY <1>1, <2>2 DEF IntentsSound, IntentSound, TransitionKnows, AssignKnows,
       PlannedSequenceFree, SequenceFree, StopCommandKnows, ArrivalKnows
  <2> QED
    BY <2>1, <2>2
<1>4. IntentsSound'
  BY <1>3 DEF IntentsSound, IntentSound
<1>5. /\ (TimesMatchStatus /\ CrewWhileUnderway /\ DepartureAfterLoading /\ NotifiedOnce)'
      /\ (timeline.new = mission.status)'
  BY DEF TimesMatchStatus, CrewWhileUnderway, DepartureAfterLoading, NotifiedOnce
<1>6. (StopTimesOrdered /\ SequencesUnique /\ DeliveredWithEvidence)'
  BY DEF StopTimesOrdered, TimesOrdered, SequencesUnique, DeliveredWithEvidence
<1>7. AssignmentHistory'
  BY DEF AssignmentHistory
<1> QED
  BY <1>2, <1>4, <1>5, <1>6, <1>7

\* A request that ends without a commit: what it remembers is nothing.
LEMMA EndStep ==
  ASSUME IndInv, TypeOK', NEW r \in Requests, End(r),
         UNCHANGED <<mission, stops, assignments, timeline, notifications>>
  PROVE  IndInv'
<1>1. Idle \in Intent /\ Idle.lock = NoLock /\ Remember(r, Idle)
  BY DEF Intent, Idle, Remember, End
<1>2. inflight'[r] = Idle
  BY DEF End, IndInv, TypeOK
<1>3. IntentSound(r)'
  BY <1>2 DEF Idle, IntentSound, TransitionKnows, AssignKnows, PlannedSequenceFree, StopCommandKnows,
              ArrivalKnows
<1> QED
  BY <1>1, <1>3, MemoryStep

\* The steps that read and check keep the invariant: what they remember is
\* what they have just seen.
LEMMA ReadSteps ==
  ASSUME IndInv, TypeOK', NEW r \in Requests,
         \/ \E to \in MissionStatus, at \in Times \cup {NoTime} : ReadTransition(r, to, at)
         \/ CheckDelivery(r)
         \/ \E crew \in Crews : ReadAssign(r, crew)
         \/ \E sequence \in Positions : ReadAddStop(r, sequence)
         \/ \E s \in DOMAIN stops, sequence \in Positions : ReadUpdateStop(r, s, sequence)
         \/ \E s \in DOMAIN stops, at \in Times : ReadArrive(r, s, at)
         \/ \E s \in DOMAIN stops, at \in Times : ReadUnload(r, s, at)
         \/ \E s \in DOMAIN stops, at \in Times : ReadComplete(r, s, at)
         \/ CheckArrive(r)
  PROVE  IndInv'
<1> USE DEF IndInv
<1> DEFINE i == inflight'[r]
<1>1. /\ i \in Intent
      /\ Remember(r, i)
      /\ UNCHANGED <<mission, stops, assignments, timeline, notifications>>
  BY DEF TypeOK, ReadTransition, CheckDelivery, ReadAssign, ReadAddStop, ReadUpdateStop, ReadArrive,
         ReadUnload, ReadComplete, CheckArrive, Begin, Remember
<1>2. i.lock \in {NoLock, inflight[r].lock} \/ Available(i.lock)
  <2>1. CASE CheckDelivery(r)
    <3>1. inflight[r] \in TransitionIntent
      BY <2>1, IntentTypes DEF CheckDelivery, TypeOK
    <3> QED
      BY <2>1, <3>1 DEF CheckDelivery, Remember, TypeOK, TransitionIntent
  <2>2. CASE CheckArrive(r)
    <3>1. inflight[r] \in ArriveIntent
      BY <2>2, IntentTypes DEF CheckArrive, TypeOK
    <3> QED
      BY <2>2, <3>1 DEF CheckArrive, Remember, TypeOK, ArriveIntent
  <2>3. ASSUME NEW to \in MissionStatus, NEW at \in Times \cup {NoTime}, ReadTransition(r, to, at)
        PROVE  i.lock = NoLock \/ Available(i.lock)
    BY <2>3 DEF TypeOK, ReadTransition, CrewRequired, NotBefore, Begin
  <2>4. ASSUME NEW crew \in Crews, ReadAssign(r, crew) PROVE Available(i.lock)
    BY <2>4 DEF TypeOK, ReadAssign, Begin
  <2>5. ASSUME NEW sequence \in Positions, ReadAddStop(r, sequence) PROVE Available(i.lock)
    BY <2>5 DEF TypeOK, ReadAddStop, Begin
  <2>6. ASSUME NEW s \in DOMAIN stops, NEW sequence \in Positions, ReadUpdateStop(r, s, sequence)
        PROVE  Available(i.lock)
    BY <2>6 DEF TypeOK, ReadUpdateStop, Begin
  <2>7. ASSUME NEW s \in DOMAIN stops, NEW at \in Times,
               ReadArrive(r, s, at) \/ ReadUnload(r, s, at) \/ ReadComplete(r, s, at)
        PROVE  i.lock = NoLock
    BY <2>7 DEF TypeOK, ReadArrive, ReadUnload, ReadComplete, Begin
  <2> QED
    BY <2>1, <2>2, <2>3, <2>4, <2>5, <2>6, <2>7
<1>3. IntentSound(r)'
  <2> USE DEF IntentSound, TransitionKnows, AssignKnows, PlannedSequenceFree, StopCommandKnows,
              ArrivalKnows, TypeOK
  <2>1. ASSUME NEW to \in MissionStatus, NEW at \in Times \cup {NoTime}, ReadTransition(r, to, at)
        PROVE  IntentSound(r)'
    <3>1. to = "DEPARTED" => mission.status = "LOADED"
      BY <2>1, Matrix DEF ReadTransition, MissionRow
    <3> QED
      BY <2>1, <3>1 DEF ReadTransition, CrewRequired, NotBefore, Begin
  <2>2. CASE CheckDelivery(r)
    <3>1. inflight[r] \in TransitionIntent
      BY <2>2, IntentTypes DEF CheckDelivery
    <3>2. \E s \in DOMAIN stops : stops[s].status = "COMPLETED"
      BY <2>2 DEF CheckDelivery, AllStopsCompleted
    <3>3. inflight'[r] = [inflight[r] EXCEPT !.checked = TRUE]
      BY <2>2 DEF CheckDelivery, Remember
    <3>4. TransitionKnows(r)
      BY DEF IntentsSound
    <3> QED
      BY <3>1, <3>2, <3>3, <3>4, <1>1 DEF TransitionIntent
  <2>3. ASSUME NEW crew \in Crews, ReadAssign(r, crew) PROVE IntentSound(r)'
    BY <2>3 DEF ReadAssign, Begin
  <2>4. ASSUME NEW sequence \in Positions, ReadAddStop(r, sequence) PROVE IntentSound(r)'
    BY <2>4 DEF ReadAddStop, Begin, SequenceFree
  <2>5. ASSUME NEW s \in DOMAIN stops, NEW sequence \in Positions, ReadUpdateStop(r, s, sequence)
        PROVE  IntentSound(r)'
    BY <2>5 DEF ReadUpdateStop, Begin, SequenceFree
  <2>6. ASSUME NEW s \in DOMAIN stops, NEW at \in Times, ReadArrive(r, s, at) PROVE IntentSound(r)'
    BY <2>6 DEF ReadArrive, Begin
  <2>7. ASSUME NEW s \in DOMAIN stops, NEW at \in Times, ReadUnload(r, s, at) PROVE IntentSound(r)'
    BY <2>7 DEF ReadUnload, NotBefore, Begin
  <2>8. ASSUME NEW s \in DOMAIN stops, NEW at \in Times, ReadComplete(r, s, at) PROVE IntentSound(r)'
    BY <2>8 DEF ReadComplete, NotBefore, Begin
  <2>9. CASE CheckArrive(r)
    <3>1. inflight[r] \in ArriveIntent
      BY <2>9, IntentTypes DEF CheckArrive
    <3>2. inflight'[r] = [inflight[r] EXCEPT !.checked = TRUE, !.ahead = Ahead(inflight[r].sequence)]
      BY <2>9 DEF CheckArrive, Remember
    <3>3. StopCommandKnows(r)
      BY DEF IntentsSound
    <3>4. \A t \in Ahead(inflight[r].sequence) : t \in DOMAIN stops /\ stops[t].status = "COMPLETED"
      BY <2>9 DEF CheckArrive, Ahead
    <3> QED
      BY <3>1, <3>2, <3>3, <3>4, <1>1 DEF ArriveIntent
  <2> QED
    BY <2>1, <2>2, <2>3, <2>4, <2>5, <2>6, <2>7, <2>8, <2>9
<1> QED
  BY <1>1, <1>2, <1>3, MemoryStep

\* A committing request forgets what it remembered; nobody else's memory or
\* lock changes.
LEMMA Ended ==
  ASSUME TypeOK, LocksExclusive, NEW r \in Requests, End(r)
  PROVE  /\ inflight'[r] = Idle
         /\ \A p \in Requests \ {r} : inflight'[p] = inflight[p]
         /\ LocksExclusive'
         /\ IntentSound(r)'
<1>1. /\ inflight'[r] = Idle
      /\ \A p \in Requests \ {r} : inflight'[p] = inflight[p]
  BY DEF End, TypeOK
<1>2. LocksExclusive'
  BY <1>1 DEF LocksExclusive, Idle
<1>3. IntentSound(r)'
  BY <1>1 DEF Idle, IntentSound, TransitionKnows, AssignKnows, PlannedSequenceFree, StopCommandKnows,
              ArrivalKnows
<1> QED
  BY <1>1, <1>2, <1>3

\* The status update keeps the invariant: the request's decision was about
\* the very status the row still has, and the matrix does the rest.
LEMMA CommitTransitionStep ==
  ASSUME IndInv, TypeOK', NEW r \in Requests, CommitTransition(r)
  PROVE  IndInv'
<1> USE DEF IndInv
<1> DEFINE from == inflight[r].from
           to == inflight[r].to
           at == inflight[r].at
<1>1. inflight[r] \in TransitionIntent
  BY IntentTypes DEF CommitTransition, TypeOK
<1>2. /\ from = mission.status
      /\ from \in MissionStatus
      /\ to \in Transitions(from)
      /\ at \in Times \cup {NoTime}
      /\ TransitionKnows(r)
  BY <1>1 DEF CommitTransition, StatusUnchanged, TransitionIntent, IntentsSound, IntentSound, TransitionKnows
<1>3. /\ mission'.status = to
      /\ mission'.crew = mission.crew
      /\ mission'.actualLoading = IF to = "LOADING" THEN at ELSE mission.actualLoading
      /\ mission'.actualDeparture = IF to = "DEPARTED" THEN at ELSE mission.actualDeparture
      /\ UNCHANGED <<stops, assignments>>
      /\ timeline' = [old |-> from, new |-> to]
      /\ notifications' = notifications + (IF to = "DELIVERED" THEN 1 ELSE 0)
  BY DEF CommitTransition, TypeOK, MissionRow
<1>4. End(r)
  BY DEF CommitTransition
<1>m. /\ to \in MissionStatus
      /\ to # from
      /\ to = "ASSIGNED" => from = "DRAFT"
      /\ to = "LOADING" => from = "VEHICLE_ARRIVED"
      /\ to = "DEPARTED" => from = "LOADED"
      /\ to = "DELIVERED" => from = "DELIVERING"
      /\ to \in Underway /\ to # "ASSIGNED" => from \in Underway
      /\ to \in Loaded /\ to # "LOADING" => from \in Loaded
      /\ to \in Departed /\ to # "DEPARTED" => from \in Departed
      /\ to \in Delivered /\ to # "DELIVERED" => from \in Delivered
      /\ from \in Loaded => to \in Loaded \cup {"CANCELLED"}
      /\ from \in Departed => to \in Departed \cup {"CANCELLED"}
      /\ from = "LOADED" => to \in {"DEPARTED", "CANCELLED"}
      /\ from \in Delivered => to \in Delivered
      /\ from \notin Terminal
  BY <1>2, Matrix
<1> HIDE DEF from, to, at
<1>5. ASSUME NEW p \in Requests, p # r PROVE IntentSound(p)'
  <2>1. inflight'[p] = inflight[p] /\ IntentSound(p)
    BY <1>4, <1>5, Ended DEF IntentsSound
  <2>2. TransitionKnows(p)'
    <3>1. CASE inflight[p].op = "transition" /\ inflight[p].to = "DEPARTED"
      <4>1. /\ mission.status \in Departed \cup {"LOADED", "CANCELLED"}
            /\ inflight[p].at >= mission.actualLoading
        BY <2>1, <3>1 DEF IntentSound, TransitionKnows
      <4>2. to # "LOADING"
        BY <4>1, <1>2, <1>m DEF Departed
      <4>3. to \in Departed \cup {"LOADED", "CANCELLED"}
        BY <4>1, <1>2, <1>m DEF Departed, Terminal
      <4> QED
        BY <1>3, <2>1, <3>1, <4>1, <4>2, <4>3 DEF IntentSound, TransitionKnows
    <3>2. CASE inflight[p].op # "transition" \/ inflight[p].to # "DEPARTED"
      BY <1>3, <2>1, <3>2 DEF IntentSound, TransitionKnows
    <3> QED
      BY <3>1, <3>2
  <2>3. (AssignKnows(p) /\ PlannedSequenceFree(p) /\ StopCommandKnows(p) /\ ArrivalKnows(p))'
    BY <1>3, <2>1 DEF IntentSound, AssignKnows, PlannedSequenceFree, SequenceFree,
       StopCommandKnows, ArrivalKnows
  <2> QED
    BY <2>2, <2>3 DEF IntentSound
<1>6. IntentsSound'
  BY <1>4, <1>5, Ended DEF IntentsSound
<1>7. TimesMatchStatus'
  <2>1. at = NoTime <=> to \notin {"LOADING", "DEPARTED"}
    BY <1>2 DEF TransitionKnows, CommitTransition, to, at
  <2>2. to = "DEPARTED" => to \in Loaded /\ from \in Loaded
    BY <1>m DEF Loaded, Departed
  <2>3. to = "LOADING" => to \in Loaded /\ from \notin Loaded \cup {"CANCELLED"}
    BY <1>m DEF Loaded, Departed
  <2>4. to = "DEPARTED" => to \in Departed
    BY DEF Departed
  <2>5. from # "CANCELLED"
    BY <1>m DEF Terminal
  <2> QED
    BY <1>2, <1>3, <1>m, <2>1, <2>2, <2>3, <2>4, <2>5 DEF TimesMatchStatus
<1>8. CrewWhileUnderway'
  BY <1>2, <1>3, <1>m DEF CrewWhileUnderway, TransitionKnows, CommitTransition, to
<1>9. DepartureAfterLoading'
  <2>1. CASE to = "DEPARTED"
    <3>1. mission.actualLoading # NoTime
      BY <1>2, <1>m, <2>1 DEF TimesMatchStatus, Loaded
    <3>2. at >= mission.actualLoading
      BY <1>2, <2>1 DEF TransitionKnows, CommitTransition, to, at
    <3> QED
      BY <1>3, <2>1, <3>1, <3>2 DEF DepartureAfterLoading
  <2>2. CASE to = "LOADING"
    BY <1>2, <1>3, <1>m, <2>2 DEF DepartureAfterLoading, TimesMatchStatus, Departed
  <2>3. CASE to \notin {"LOADING", "DEPARTED"}
    BY <1>3, <2>3 DEF DepartureAfterLoading
  <2> QED
    BY <2>1, <2>2, <2>3
<1>10. NotifiedOnce'
  <2>1. "DELIVERING" \notin Delivered /\ "DELIVERED" \in Delivered
    BY DEF Delivered
  <2> QED
    BY <1>2, <1>3, <1>m, <2>1 DEF NotifiedOnce
<1>11. DeliveredWithEvidence'
  <2>1. to = "DELIVERED" => \E s \in DOMAIN stops : stops[s].status = "COMPLETED"
    BY <1>2 DEF TransitionKnows, CommitTransition, to
  <2> QED
    BY <1>2, <1>3, <1>m, <2>1 DEF DeliveredWithEvidence
<1>12. (StopTimesOrdered /\ SequencesUnique /\ AssignmentHistory)'
  BY <1>3 DEF StopTimesOrdered, TimesOrdered, SequencesUnique, AssignmentHistory
<1> QED
  BY <1>3, <1>4, <1>6, <1>7, <1>8, <1>9, <1>10, <1>11, <1>12, Ended

\* An assignment keeps the invariant: the lock has kept the crew as the
\* request compared it, so the new row differs from the last one.
LEMMA CommitAssignStep ==
  ASSUME IndInv, TypeOK', NEW r \in Requests, CommitAssign(r)
  PROVE  IndInv'
<1> USE DEF IndInv
<1> DEFINE crew == inflight[r].crew
           n == Len(assignments)
<1>1. /\ inflight[r] \in AssignIntent
      /\ crew \in Crews
      /\ crew # mission.crew
  BY IntentTypes DEF CommitAssign, TypeOK, AssignIntent, IntentsSound, IntentSound, AssignKnows
<1>2. /\ mission' = [mission EXCEPT !.crew = crew]
      /\ assignments' = Succeed(assignments, crew)
      /\ UNCHANGED <<stops, timeline, notifications>>
      /\ End(r)
  BY DEF CommitAssign
<1>3. /\ mission'.crew = crew
      /\ mission'.crew # NoCrew
      /\ mission'.status = mission.status
      /\ mission'.actualLoading = mission.actualLoading
      /\ mission'.actualDeparture = mission.actualDeparture
  BY <1>1, <1>2, NoCrewAssumption DEF TypeOK, MissionRow
<1> HIDE DEF crew
<1>4. ASSUME NEW p \in Requests, p # r PROVE IntentSound(p)'
  <2>1. inflight'[p] = inflight[p] /\ IntentSound(p)
    BY <1>2, <1>4, Ended DEF IntentsSound
  <2>2. inflight[p].op # "assign"
    <3>1. inflight[p].op = "assign" => inflight[p] \in AssignIntent
      BY IntentTypes DEF TypeOK
    <3> QED
      BY <1>1, <1>4, <3>1 DEF AssignIntent, LocksExclusive, NoLock
  <2> QED
    BY <1>2, <1>3, <2>1, <2>2 DEF IntentSound, TransitionKnows, AssignKnows, PlannedSequenceFree,
       SequenceFree, StopCommandKnows, ArrivalKnows
<1>5. IntentsSound'
  BY <1>2, <1>4, Ended DEF IntentsSound, IntentSound
<1>6. AssignmentHistory'
  <2>1. /\ n \in Nat
        /\ DOMAIN assignments = 1..n
        /\ assignments' \in Seq(AssignmentRow)
        /\ Len(assignments') = n + 1
        /\ \A i \in 1..n :
             /\ assignments'[i].crew = assignments[i].crew
             /\ assignments'[i].ended = TRUE
        /\ assignments'[n + 1].crew = crew
        /\ assignments'[n + 1].ended = FALSE
    <3>1. /\ n \in Nat
          /\ DOMAIN assignments = 1..n
          /\ assignments \in Seq(AssignmentRow)
      BY DEF TypeOK
    <3>2. /\ assignments' \in Seq(AssignmentRow)
          /\ Len(assignments') = n + 1
          /\ \A i \in 1..n : assignments'[i] = [crew |-> assignments[i].crew, ended |-> TRUE]
          /\ assignments'[n + 1] = [crew |-> crew, ended |-> FALSE]
      BY <1>1, <1>2, <3>1, SucceedProperties DEF crew
    <3> HIDE DEF n
    <3>3. ASSUME NEW i \in 1..n
          PROVE  /\ assignments'[i].crew = assignments[i].crew
                 /\ assignments'[i].ended = TRUE
      <4>1. assignments'[i] = [crew |-> assignments[i].crew, ended |-> TRUE]
        BY <3>2, Zenon
      <4> QED
        BY <4>1
    <3>4. /\ assignments'[n + 1].crew = crew
          /\ assignments'[n + 1].ended = FALSE
      BY <3>2
    <3> QED
      BY <3>1, <3>2, <3>3, <3>4
  <2>2. DOMAIN assignments' = 1..(n + 1)
    BY <2>1
  <2> HIDE DEF n
  <2>3. \A i \in 1..(n + 1) : assignments'[i].ended <=> i # n + 1
    <3> TAKE i \in 1..(n + 1)
    <3>1. CASE i \in 1..n
      BY <2>1, <3>1
    <3>2. CASE i = n + 1
      BY <2>1, <3>2
    <3> QED
      BY <2>1, <3>1, <3>2
  <2>4. mission'.crew = assignments'[n + 1].crew
    BY <1>3, <2>1
  <2>5. ASSUME NEW i \in 1..(n + 1), i > 1
        PROVE  assignments'[i].crew # assignments'[i - 1].crew
    <3>1. CASE i = n + 1
      <4>1. n \in 1..n /\ assignments # <<>>
        BY <2>1, <2>5, <3>1 DEF n
      <4>2. assignments[n].crew # crew
        BY <1>1, <4>1 DEF AssignmentHistory, n, crew
      <4>3. i - 1 = n
        BY <2>1, <3>1
      <4>4. assignments'[i - 1].crew = assignments[n].crew
        BY <2>1, <4>1, <4>3
      <4>5. assignments'[i].crew = crew
        BY <2>1, <3>1
      <4> QED
        BY <4>2, <4>4, <4>5
    <3>2. CASE i \in 1..n
      <4>1. i - 1 \in 1..n
        BY <2>1, <2>5, <3>2
      <4>2. assignments[i].crew # assignments[i - 1].crew
        BY <2>1, <2>5, <3>2 DEF AssignmentHistory
      <4>3. assignments'[i - 1].crew = assignments[i - 1].crew
        BY <2>1, <4>1
      <4>4. assignments'[i].crew = assignments[i].crew
        BY <2>1, <3>2
      <4> QED
        BY <4>2, <4>3, <4>4
    <3> QED
      BY <2>1, <3>1, <3>2
  <2>6. assignments' # <<>>
    BY <2>1
  <2> QED
    BY <2>1, <2>2, <2>3, <2>4, <2>5, <2>6 DEF AssignmentHistory
<1>7. (StopTimesOrdered /\ SequencesUnique /\ DeliveredWithEvidence /\ NotifiedOnce)'
  BY <1>2, <1>3 DEF StopTimesOrdered, TimesOrdered, SequencesUnique, DeliveredWithEvidence, NotifiedOnce
<1>8. (TimesMatchStatus /\ CrewWhileUnderway /\ DepartureAfterLoading)'
  BY <1>3 DEF TimesMatchStatus, CrewWhileUnderway, DepartureAfterLoading
<1> QED
  BY <1>2, <1>3, <1>5, <1>6, <1>7, <1>8, Ended

\* Planning a stop keeps the invariant: the lock has kept the sequence free,
\* and what others know of the existing stops is not about the new one.
LEMMA CommitAddStopStep ==
  ASSUME IndInv, TypeOK', NEW r \in Requests, NEW s \in StopIds, CommitAddStop(r, s)
  PROVE  IndInv'
<1> USE DEF IndInv
<1>1. /\ inflight[r] \in AddIntent
      /\ SequenceFree(inflight[r].sequence, {})
  BY IntentTypes DEF CommitAddStop, TypeOK, IntentsSound, IntentSound, PlannedSequenceFree
<1>2. /\ s \notin DOMAIN stops
      /\ DOMAIN stops' = DOMAIN stops \cup {s}
      /\ \A t \in DOMAIN stops : stops'[t] = stops[t]
      /\ stops'[s] = [sequence |-> inflight[r].sequence, status |-> "PENDING",
                      arrival |-> NoTime, unloading |-> NoTime, completed |-> NoTime]
      /\ UNCHANGED <<mission, assignments, timeline, notifications>>
      /\ End(r)
  BY DEF CommitAddStop
<1>3. ASSUME NEW p \in Requests, p # r PROVE IntentSound(p)'
  <2>1. inflight'[p] = inflight[p] /\ IntentSound(p)
    BY <1>2, <1>3, Ended DEF IntentsSound
  <2>2. inflight[p].op \notin {"addStop", "updateStop"}
    <3>1. /\ inflight[p].op = "addStop" => inflight[p] \in AddIntent
          /\ inflight[p].op = "updateStop" => inflight[p] \in MoveIntent
      BY IntentTypes DEF TypeOK
    <3> QED
      BY <1>1, <1>3, <3>1 DEF AddIntent, MoveIntent, LocksExclusive, NoLock
  <2>3. (TransitionKnows(p) /\ AssignKnows(p))'
    BY <1>2, <2>1 DEF IntentSound, TransitionKnows, AssignKnows
  <2>4. (PlannedSequenceFree(p) /\ StopCommandKnows(p) /\ ArrivalKnows(p))'
    BY <1>2, <2>1, <2>2 DEF IntentSound, PlannedSequenceFree, StopCommandKnows, ArrivalKnows
  <2> QED
    BY <2>3, <2>4 DEF IntentSound
<1>4. IntentsSound'
  BY <1>2, <1>3, Ended DEF IntentsSound, IntentSound
<1>5. StopTimesOrdered'
  BY <1>2 DEF StopTimesOrdered, TimesOrdered, NoTime
<1>6. SequencesUnique'
  BY <1>1, <1>2 DEF SequencesUnique, SequenceFree
<1>7. DeliveredWithEvidence'
  BY <1>2 DEF DeliveredWithEvidence
<1>8. (TimesMatchStatus /\ CrewWhileUnderway /\ DepartureAfterLoading /\ NotifiedOnce
        /\ AssignmentHistory)'
  BY <1>2 DEF TimesMatchStatus, CrewWhileUnderway, DepartureAfterLoading, NotifiedOnce,
     AssignmentHistory
<1> QED
  BY <1>2, <1>4, <1>5, <1>6, <1>7, <1>8, Ended

\* Moving a stop to another sequence keeps the invariant, by the same lock.
LEMMA CommitUpdateStopStep ==
  ASSUME IndInv, TypeOK', NEW r \in Requests, CommitUpdateStop(r)
  PROVE  IndInv'
<1> USE DEF IndInv
<1> DEFINE s == inflight[r].stop
<1>1. /\ inflight[r] \in MoveIntent
      /\ s \in DOMAIN stops
      /\ SequenceFree(inflight[r].sequence, {s})
  BY IntentTypes DEF CommitUpdateStop, TypeOK, IntentsSound, IntentSound, PlannedSequenceFree
<1>2. /\ DOMAIN stops' = DOMAIN stops
      /\ \A t \in DOMAIN stops \ {s} : stops'[t] = stops[t]
      /\ stops'[s].sequence = inflight[r].sequence
      /\ stops'[s].status = stops[s].status
      /\ stops'[s].arrival = stops[s].arrival
      /\ stops'[s].unloading = stops[s].unloading
      /\ stops'[s].completed = stops[s].completed
      /\ UNCHANGED <<mission, assignments, timeline, notifications>>
      /\ End(r)
  BY <1>1 DEF CommitUpdateStop, TypeOK, StopRow
<1> HIDE DEF s
<1>3. ASSUME NEW t \in DOMAIN stops
      PROVE  /\ stops'[t].status = stops[t].status
             /\ stops'[t].arrival = stops[t].arrival
             /\ stops'[t].unloading = stops[t].unloading
             /\ stops'[t].completed = stops[t].completed
  BY <1>2
<1>4. ASSUME NEW p \in Requests, p # r PROVE IntentSound(p)'
  <2>1. inflight'[p] = inflight[p] /\ IntentSound(p)
    BY <1>2, <1>4, Ended DEF IntentsSound
  <2>2. inflight[p].op \notin {"addStop", "updateStop"}
    <3>1. /\ inflight[p].op = "addStop" => inflight[p] \in AddIntent
          /\ inflight[p].op = "updateStop" => inflight[p] \in MoveIntent
      BY IntentTypes DEF TypeOK
    <3> QED
      BY <1>1, <1>4, <3>1 DEF AddIntent, MoveIntent, LocksExclusive, NoLock
  <2>3. (TransitionKnows(p) /\ AssignKnows(p))'
    BY <1>2, <1>3, <2>1 DEF IntentSound, TransitionKnows, AssignKnows
  <2>4. (PlannedSequenceFree(p) /\ StopCommandKnows(p) /\ ArrivalKnows(p))'
    BY <1>2, <1>3, <2>1, <2>2 DEF IntentSound, PlannedSequenceFree, StopCommandKnows, ArrivalKnows
  <2> QED
    BY <2>3, <2>4 DEF IntentSound
<1>5. IntentsSound'
  BY <1>2, <1>4, Ended DEF IntentsSound, IntentSound
<1>6. StopTimesOrdered'
  BY <1>2, <1>3 DEF StopTimesOrdered, TimesOrdered
<1>7. SequencesUnique'
  BY <1>1, <1>2 DEF SequencesUnique, SequenceFree
<1>8. DeliveredWithEvidence'
  BY <1>2, <1>3 DEF DeliveredWithEvidence
<1>9. (TimesMatchStatus /\ CrewWhileUnderway /\ DepartureAfterLoading /\ NotifiedOnce
        /\ AssignmentHistory)'
  BY <1>2 DEF TimesMatchStatus, CrewWhileUnderway, DepartureAfterLoading, NotifiedOnce,
     AssignmentHistory
<1> QED
  BY <1>2, <1>5, <1>6, <1>7, <1>8, <1>9, Ended

\* A stop that advances in its own order, keeping its sequence and the times
\* it already has, keeps the invariant: no request knows more of a stop than
\* that it has passed a stage.
LEMMA StopAdvances ==
  ASSUME IndInv, TypeOK', NEW r \in Requests, End(r),
         UNCHANGED <<mission, assignments, timeline, notifications>>,
         NEW s \in DOMAIN stops,
         DOMAIN stops' = DOMAIN stops,
         \A t \in DOMAIN stops \ {s} : stops'[t] = stops[t],
         stops'[s].sequence = stops[s].sequence,
         stops[s].status # "COMPLETED",
         stops'[s].status # "PENDING",
         stops[s].status = "UNLOADING" => stops'[s].status = "COMPLETED",
         stops[s].arrival # NoTime => stops'[s].arrival = stops[s].arrival,
         stops[s].unloading # NoTime => stops'[s].unloading = stops[s].unloading,
         StopTimesOrdered'
  PROVE  IndInv'
<1> USE DEF IndInv
<1>1. ASSUME NEW p \in Requests, p # r PROVE IntentSound(p)'
  <2>1. inflight'[p] = inflight[p] /\ IntentSound(p)
    BY <1>1, Ended DEF IntentsSound
  <2>2. \A t \in DOMAIN stops : stops[t].status = "COMPLETED" => stops'[t].status = "COMPLETED"
    OBVIOUS
  <2>3. (TransitionKnows(p) /\ AssignKnows(p))'
    BY <2>1, <2>2 DEF IntentSound, TransitionKnows, AssignKnows
  <2>4. (PlannedSequenceFree(p) /\ ArrivalKnows(p))'
    BY <2>1, <2>2 DEF IntentSound, PlannedSequenceFree, SequenceFree, ArrivalKnows
  <2>5. StopCommandKnows(p)'
    BY <2>1 DEF IntentSound, StopCommandKnows, StopTimesOrdered, TimesOrdered
  <2> QED
    BY <2>3, <2>4, <2>5 DEF IntentSound
<1>2. IntentsSound'
  BY <1>1, Ended DEF IntentsSound, IntentSound
<1>3. SequencesUnique'
  BY DEF SequencesUnique
<1>4. DeliveredWithEvidence'
  BY DEF DeliveredWithEvidence
<1>5. (TimesMatchStatus /\ CrewWhileUnderway /\ DepartureAfterLoading /\ NotifiedOnce
        /\ AssignmentHistory)'
  BY DEF TimesMatchStatus, CrewWhileUnderway, DepartureAfterLoading, NotifiedOnce, AssignmentHistory
<1> QED
  BY <1>2, <1>3, <1>4, <1>5, Ended

\* The three stop commands keep the invariant: the conditional update finds
\* the stop at the stage before, and the times were compared with a time
\* that has not changed since.
LEMMA StopCommandStep ==
  ASSUME IndInv, TypeOK', NEW r \in Requests,
         CommitArrive(r) \/ CommitUnload(r) \/ CommitComplete(r)
  PROVE  IndInv'
<1> USE DEF IndInv
<1> DEFINE s == inflight[r].stop
           at == inflight[r].at
<1>1. /\ inflight[r].op \in {"arrive", "unload", "complete"}
      /\ s \in DOMAIN stops
      /\ stops[s] \in StopRow
      /\ StopCommandKnows(r)
  BY DEF CommitArrive, CommitUnload, CommitComplete, TypeOK, IntentsSound, IntentSound,
         StopCommandKnows
<1>2. at \in Times /\ at # NoTime
  BY <1>1, IntentTypes, TimesAssumption DEF TypeOK, ArriveIntent, WorkIntent, NoTime
<1>3. /\ End(r)
      /\ UNCHANGED <<mission, assignments, timeline, notifications>>
      /\ DOMAIN stops' = DOMAIN stops
      /\ \A t \in DOMAIN stops \ {s} : stops'[t] = stops[t]
  BY DEF CommitArrive, CommitUnload, CommitComplete, TypeOK
<1>4. CASE CommitArrive(r)
  <2>1. /\ stops[s].status = "PENDING"
        /\ stops'[s] = [stops[s] EXCEPT !.status = "ARRIVED", !.arrival = at]
    BY <1>1, <1>4 DEF CommitArrive, StopStillAt
  <2>2. /\ stops'[s].status = "ARRIVED"
        /\ stops'[s].arrival = at
        /\ stops'[s].unloading = stops[s].unloading
        /\ stops'[s].completed = stops[s].completed
        /\ stops'[s].sequence = stops[s].sequence
    BY <1>1, <2>1 DEF StopRow
  <2>3. /\ stops[s].arrival = NoTime
        /\ stops[s].unloading = NoTime
        /\ stops[s].completed = NoTime
    BY <1>1, <2>1 DEF StopTimesOrdered, TimesOrdered
  <2> HIDE DEF s, at
  <2>4. StopTimesOrdered'
    BY <1>2, <1>3, <2>2, <2>3 DEF StopTimesOrdered, TimesOrdered
  <2> QED
    BY <1>1, <1>3, <2>1, <2>2, <2>3, <2>4, StopAdvances
<1>5. CASE CommitUnload(r)
  <2>1. /\ stops[s].status = "ARRIVED"
        /\ stops'[s] = [stops[s] EXCEPT !.status = "UNLOADING", !.unloading = at]
        /\ at >= stops[s].arrival
    BY <1>1, <1>5 DEF CommitUnload, StopStillAt, StopCommandKnows
  <2>2. /\ stops'[s].status = "UNLOADING"
        /\ stops'[s].arrival = stops[s].arrival
        /\ stops'[s].unloading = at
        /\ stops'[s].completed = stops[s].completed
        /\ stops'[s].sequence = stops[s].sequence
    BY <1>1, <2>1 DEF StopRow
  <2>3. /\ stops[s].arrival # NoTime
        /\ stops[s].arrival \in Nat
        /\ stops[s].unloading = NoTime
        /\ stops[s].completed = NoTime
    BY <1>1, <2>1, TimesAssumption DEF StopTimesOrdered, TimesOrdered, StopRow
  <2>4. at \in Nat
    BY <1>2, TimesAssumption
  <2> HIDE DEF s, at
  <2>5. StopTimesOrdered'
    <3> SUFFICES ASSUME NEW t \in DOMAIN stops PROVE TimesOrdered(t)'
      BY <1>3 DEF StopTimesOrdered
    <3>1. CASE t = s
      BY <1>2, <2>1, <2>2, <2>3, <2>4, <3>1 DEF TimesOrdered
    <3>2. CASE t # s
      BY <1>3, <3>2 DEF StopTimesOrdered, TimesOrdered
    <3> QED
      BY <3>1, <3>2
  <2> QED
    BY <1>1, <1>3, <2>1, <2>2, <2>3, <2>5, StopAdvances
<1>6. CASE CommitComplete(r)
  <2>1. /\ stops[s].status = "UNLOADING"
        /\ stops'[s] = [stops[s] EXCEPT !.status = "COMPLETED", !.completed = at]
        /\ at >= stops[s].unloading
    BY <1>1, <1>6 DEF CommitComplete, StopStillAt, StopCommandKnows
  <2>2. /\ stops'[s].status = "COMPLETED"
        /\ stops'[s].arrival = stops[s].arrival
        /\ stops'[s].unloading = stops[s].unloading
        /\ stops'[s].completed = at
        /\ stops'[s].sequence = stops[s].sequence
    BY <1>1, <2>1 DEF StopRow
  <2>3. /\ stops[s].arrival # NoTime
        /\ stops[s].unloading # NoTime
        /\ stops[s].unloading \in Nat
        /\ stops[s].arrival <= stops[s].unloading
    BY <1>1, <2>1, TimesAssumption DEF StopTimesOrdered, TimesOrdered, StopRow
  <2>4. at \in Nat
    BY <1>2, TimesAssumption
  <2> HIDE DEF s, at
  <2>5. StopTimesOrdered'
    <3> SUFFICES ASSUME NEW t \in DOMAIN stops PROVE TimesOrdered(t)'
      BY <1>3 DEF StopTimesOrdered
    <3>1. CASE t = s
      BY <1>2, <2>1, <2>2, <2>3, <2>4, <3>1 DEF TimesOrdered
    <3>2. CASE t # s
      BY <1>3, <3>2 DEF StopTimesOrdered, TimesOrdered
    <3> QED
      BY <3>1, <3>2
  <2> QED
    BY <1>1, <1>3, <2>1, <2>2, <2>3, <2>5, StopAdvances
<1> QED
  BY <1>4, <1>5, <1>6

\* Every step keeps the invariant.
LEMMA StepIndInv == IndInv /\ [Next]_vars => IndInv'
<1> SUFFICES ASSUME IndInv, [Next]_vars PROVE IndInv'
  OBVIOUS
<1>1. TypeOK'
  BY StepTypeOK DEF IndInv
<1>2. ASSUME NEW r \in Requests, TransitionStep(r) PROVE IndInv'
  BY <1>1, <1>2, ReadSteps, CommitTransitionStep, EndStep DEF TransitionStep, LoseTransition
<1>3. ASSUME NEW r \in Requests, AssignStep(r) PROVE IndInv'
  BY <1>1, <1>3, ReadSteps, CommitAssignStep DEF AssignStep
<1>4. ASSUME NEW r \in Requests, PlanStep(r) PROVE IndInv'
  BY <1>1, <1>4, ReadSteps, CommitAddStopStep, CommitUpdateStopStep DEF PlanStep
<1>5. ASSUME NEW r \in Requests, StopStep(r) PROVE IndInv'
  BY <1>1, <1>5, ReadSteps, StopCommandStep, EndStep DEF StopStep, LoseStopCommand
<1>6. ASSUME NEW r \in Requests, Rollback(r) PROVE IndInv'
  BY <1>1, <1>6, EndStep DEF Rollback
<1>7. CASE UNCHANGED vars
  BY <1>7 DEF vars, IndInv, TypeOK, LocksExclusive, TimesMatchStatus, IntentsSound, IntentSound,
     TransitionKnows, AssignKnows, PlannedSequenceFree, SequenceFree, StopCommandKnows, ArrivalKnows,
     CrewWhileUnderway, DepartureAfterLoading, StopTimesOrdered, TimesOrdered,
     SequencesUnique, AssignmentHistory, NotifiedOnce, DeliveredWithEvidence
<1> QED
  BY <1>2, <1>3, <1>4, <1>5, <1>6, <1>7 DEF Next

\* The inductive invariant holds in every reachable state.
THEOREM Inductive == Spec => []IndInv
BY InitIndInv, StepIndInv, PTL DEF Spec

-------------------------------------------------------------------------------
(* The safety invariants, each a part or a consequence of IndInv.              *)

\* Departure never precedes loading, and every stop's times are in order.
THEOREM TimesSafe == Spec => []TimesInOrder
<1>1. IndInv => TimesInOrder
  BY DEF IndInv, TimesInOrder
<1> QED
  BY <1>1, Inductive, PTL

\* No two stops share a sequence, without the help of the unique index.
THEOREM SequencesSafe == Spec => []SequencesUnique
BY Inductive, PTL DEF IndInv

\* A mission underway has a crew, and the assignment history is well formed
\* and ends with it.
THEOREM CrewSafe == Spec => []CrewAccounted
<1>1. IndInv => CrewAccounted
  BY DEF IndInv, CrewAccounted
<1> QED
  BY <1>1, Inductive, PTL

\* The client is told of a completed trip exactly once.
THEOREM NotificationSafe == Spec => []NotifiedOnce
BY Inductive, PTL DEF IndInv

\* A delivered mission has a completed stop.
THEOREM EvidenceSafe == Spec => []DeliveredWithEvidence
BY Inductive, PTL DEF IndInv

-------------------------------------------------------------------------------
(* What a step may do.                                                         *)

\* The steps that change a row are the commits.
LEMMA StepCases ==
  ASSUME [Next]_vars
  PROVE  \/ UNCHANGED <<mission, stops, assignments, timeline, notifications>>
         \/ \E r \in Requests : CommitTransition(r)
         \/ \E r \in Requests : CommitAssign(r)
         \/ \E r \in Requests, s \in StopIds : CommitAddStop(r, s)
         \/ \E r \in Requests : CommitUpdateStop(r)
         \/ \E r \in Requests : CommitArrive(r) \/ CommitUnload(r) \/ CommitComplete(r)
BY DEF Next, vars, TransitionStep, AssignStep, PlanStep, StopStep, Rollback, ReadTransition,
       CheckDelivery, LoseTransition, ReadAssign, ReadAddStop, ReadUpdateStop, ReadArrive,
       CheckArrive, ReadUnload, ReadComplete, LoseStopCommand

\* What the commit of a transition does to the mission.
LEMMA TransitionEffect ==
  ASSUME IndInv, NEW r \in Requests, CommitTransition(r)
  PROVE  /\ mission'.status \in Transitions(mission.status)
         /\ mission'.status = inflight[r].to
         /\ mission'.status \in MissionStatus
         /\ mission'.status # mission.status
         /\ mission'.crew = mission.crew
         /\ inflight[r].to # "LOADING" => mission'.actualLoading = mission.actualLoading
         /\ inflight[r].to # "DEPARTED" => mission'.actualDeparture = mission.actualDeparture
         /\ inflight[r].to = "LOADING" => mission.actualLoading = NoTime
         /\ inflight[r].to = "DEPARTED" => mission.actualDeparture = NoTime
         /\ inflight[r].to = "ASSIGNED" => mission.crew # NoCrew
         /\ inflight[r].to = "DELIVERED" =>
              \E s \in DOMAIN stops : stops[s].status = "COMPLETED"
         /\ timeline' = [old |-> mission.status, new |-> inflight[r].to]
<1> USE DEF IndInv
<1>1. /\ inflight[r].from = mission.status
      /\ inflight[r].to \in Transitions(mission.status)
      /\ mission.status \in MissionStatus
      /\ TransitionKnows(r)
  BY DEF CommitTransition, StatusUnchanged, TypeOK, MissionRow, IntentsSound, IntentSound,
         TransitionKnows
<1>2. /\ inflight[r].to \in MissionStatus
      /\ inflight[r].to # mission.status
      /\ inflight[r].to = "LOADING" => mission.status = "VEHICLE_ARRIVED"
      /\ inflight[r].to = "DEPARTED" => mission.status = "LOADED"
  BY <1>1, Matrix
<1>3. /\ "VEHICLE_ARRIVED" \notin Loaded \cup {"CANCELLED"}
      /\ "LOADED" \notin Departed \cup {"CANCELLED"}
  BY DEF Loaded, Departed
<1>4. /\ mission'.status = inflight[r].to
      /\ mission'.crew = mission.crew
      /\ inflight[r].to # "LOADING" => mission'.actualLoading = mission.actualLoading
      /\ inflight[r].to # "DEPARTED" => mission'.actualDeparture = mission.actualDeparture
      /\ timeline' = [old |-> mission.status, new |-> inflight[r].to]
  BY <1>1 DEF CommitTransition, TypeOK, MissionRow
<1>5. /\ inflight[r].to = "LOADING" => mission.actualLoading = NoTime
      /\ inflight[r].to = "DEPARTED" => mission.actualDeparture = NoTime
  BY <1>2, <1>3 DEF TimesMatchStatus
<1>6. /\ inflight[r].to = "ASSIGNED" => mission.crew # NoCrew
      /\ inflight[r].to = "DELIVERED" => \E s \in DOMAIN stops : stops[s].status = "COMPLETED"
  BY <1>1 DEF TransitionKnows, CommitTransition
<1> QED
  BY <1>1, <1>2, <1>4, <1>5, <1>6

\* What an assignment does to the mission.
LEMMA AssignEffect ==
  ASSUME IndInv, NEW r \in Requests, CommitAssign(r)
  PROVE  /\ mission'.crew \in Crews
         /\ mission'.crew # mission.crew
         /\ mission'.status = mission.status
         /\ mission'.actualLoading = mission.actualLoading
         /\ mission'.actualDeparture = mission.actualDeparture
<1>1. /\ inflight[r].crew \in Crews
      /\ inflight[r].crew # mission.crew
  BY IntentTypes DEF CommitAssign, IndInv, TypeOK, AssignIntent, IntentsSound, IntentSound, AssignKnows
<1> QED
  BY <1>1 DEF CommitAssign, IndInv, TypeOK, MissionRow

\* What a stop command does to the stops.
LEMMA StopEffect ==
  ASSUME IndInv, NEW r \in Requests, CommitArrive(r) \/ CommitUnload(r) \/ CommitComplete(r)
  PROVE  \E s \in DOMAIN stops :
           /\ DOMAIN stops' = DOMAIN stops
           /\ \A t \in DOMAIN stops \ {s} : stops'[t] = stops[t]
           /\ stops[s].status # "COMPLETED"
           /\ stops'[s].status = Protocol!NextStage(stops[s].status)
           /\ stops'[s].arrival = stops[s].arrival \/ stops[s].arrival = NoTime
           /\ stops'[s].unloading = stops[s].unloading \/ stops[s].unloading = NoTime
           /\ stops'[s].completed = stops[s].completed \/ stops[s].completed = NoTime
<1> USE DEF IndInv
<1> DEFINE s == inflight[r].stop
           at == inflight[r].at
<1>1. /\ s \in DOMAIN stops
      /\ stops[s] \in StopRow
      /\ TimesOrdered(s)
  BY DEF CommitArrive, CommitUnload, CommitComplete, TypeOK, IntentsSound, IntentSound,
         StopCommandKnows, StopTimesOrdered
<1>2. /\ DOMAIN stops' = DOMAIN stops
      /\ \A t \in DOMAIN stops \ {s} : stops'[t] = stops[t]
  BY DEF CommitArrive, CommitUnload, CommitComplete, TypeOK
<1>3. /\ stops[s].status # "COMPLETED"
      /\ stops'[s].status = Protocol!NextStage(stops[s].status)
      /\ stops'[s].arrival = stops[s].arrival \/ stops[s].arrival = NoTime
      /\ stops'[s].unloading = stops[s].unloading \/ stops[s].unloading = NoTime
      /\ stops'[s].completed = stops[s].completed \/ stops[s].completed = NoTime
  <2>1. CASE CommitArrive(r)
    <3>1. /\ stops[s].status = "PENDING"
          /\ stops'[s] = [stops[s] EXCEPT !.status = "ARRIVED", !.arrival = at]
      BY <1>1, <2>1 DEF CommitArrive, StopStillAt
    <3> QED
      BY <1>1, <3>1 DEF TimesOrdered, StopRow, Protocol!NextStage
  <2>2. CASE CommitUnload(r)
    <3>1. /\ stops[s].status = "ARRIVED"
          /\ stops'[s] = [stops[s] EXCEPT !.status = "UNLOADING", !.unloading = at]
      BY <1>1, <2>2 DEF CommitUnload, StopStillAt
    <3> QED
      BY <1>1, <3>1 DEF TimesOrdered, StopRow, Protocol!NextStage
  <2>3. CASE CommitComplete(r)
    <3>1. /\ stops[s].status = "UNLOADING"
          /\ stops'[s] = [stops[s] EXCEPT !.status = "COMPLETED", !.completed = at]
      BY <1>1, <2>3 DEF CommitComplete, StopStillAt
    <3> QED
      BY <1>1, <3>1 DEF TimesOrdered, StopRow, Protocol!NextStage
  <2> QED
    BY <2>1, <2>2, <2>3
<1> QED
  BY <1>1, <1>2, <1>3

\* The status moves along the matrix or not at all.
THEOREM MatrixObeyed == Spec => StatusFollowsMatrix
<1>1. ASSUME IndInv, [Next]_vars
      PROVE  [mission'.status # mission.status =>
                mission'.status \in Transitions(mission.status)]_vars
  BY <1>1, StepCases, TransitionEffect, AssignEffect
     DEF CommitAddStop, CommitUpdateStop, CommitArrive, CommitUnload, CommitComplete
<1> QED
  BY <1>1, Inductive, PTL DEF Spec, StatusFollowsMatrix

\* The timeline replays to the mission, event by event.
THEOREM TimelineComplete == Spec => TimelineReplays
<1>1. ASSUME IndInv, [Next]_vars
      PROVE  [/\ mission'.status # mission.status <=> timeline' # timeline
              /\ timeline' # timeline =>
                   timeline' = [old |-> timeline.new, new |-> mission'.status]]_vars
  <2>1. CASE \E r \in Requests : CommitTransition(r)
    <3>1. /\ mission'.status # mission.status
          /\ timeline' = [old |-> timeline.new, new |-> mission'.status]
          /\ timeline.new = mission.status
      BY <1>1, <2>1, TransitionEffect DEF IndInv
    <3> QED
      BY <3>1
  <2>2. CASE \E r \in Requests : CommitAssign(r)
    BY <1>1, <2>2, AssignEffect DEF CommitAssign
  <2>3. CASE UNCHANGED <<mission, timeline>>
    BY <2>3
  <2> QED
    BY <1>1, <2>1, <2>2, <2>3, StepCases
       DEF CommitAddStop, CommitUpdateStop, CommitArrive, CommitUnload, CommitComplete
<1> QED
  BY <1>1, Inductive, PTL DEF Spec, TimelineReplays

\* Recorded times are final.
THEOREM TimesFinal == Spec => RecordedTimesFinal
<1> DEFINE Kept ==
      /\ mission.actualLoading # NoTime => mission'.actualLoading = mission.actualLoading
      /\ mission.actualDeparture # NoTime => mission'.actualDeparture = mission.actualDeparture
      /\ \A s \in DOMAIN stops :
           /\ stops[s].arrival # NoTime => stops'[s].arrival = stops[s].arrival
           /\ stops[s].unloading # NoTime => stops'[s].unloading = stops[s].unloading
           /\ stops[s].completed # NoTime => stops'[s].completed = stops[s].completed
<1>1. ASSUME IndInv, [Next]_vars PROVE Kept
  <2>1. CASE \E r \in Requests : CommitTransition(r)
    BY <1>1, <2>1, TransitionEffect DEF CommitTransition
  <2>2. CASE \E r \in Requests : CommitAssign(r)
    BY <1>1, <2>2, AssignEffect DEF CommitAssign
  <2>3. CASE \E r \in Requests, s \in StopIds : CommitAddStop(r, s)
    BY <2>3 DEF CommitAddStop
  <2>4. CASE \E r \in Requests : CommitUpdateStop(r)
    <3>1. PICK r \in Requests : CommitUpdateStop(r)
      BY <2>4
    <3>2. ASSUME NEW s \in DOMAIN stops
          PROVE  /\ stops'[s].arrival = stops[s].arrival
                 /\ stops'[s].unloading = stops[s].unloading
                 /\ stops'[s].completed = stops[s].completed
      BY <1>1, <3>1, <3>2 DEF CommitUpdateStop, IndInv, TypeOK, StopRow
    <3> QED
      BY <3>1, <3>2 DEF CommitUpdateStop
  <2>5. CASE \E r \in Requests : CommitArrive(r) \/ CommitUnload(r) \/ CommitComplete(r)
    <3>1. UNCHANGED mission
      BY <2>5 DEF CommitArrive, CommitUnload, CommitComplete
    <3> QED
      BY <1>1, <2>5, <3>1, StopEffect
  <2>6. CASE UNCHANGED <<mission, stops>>
    BY <2>6
  <2> QED
    BY <1>1, <2>1, <2>2, <2>3, <2>4, <2>5, <2>6, StepCases
<1>2. ASSUME IndInv, [Next]_vars PROVE [Kept]_vars
  BY <1>1, <1>2
<1> QED
  BY <1>2, Inductive, PTL DEF Spec, RecordedTimesFinal

-------------------------------------------------------------------------------
(* Refinement.                                                                 *)

\* The handlers, with their snapshots, locks and conditional updates,
\* implement the atomic protocol.
THEOREM Implements == Spec => RefinesProtocol
<1>1. Init => Protocol!Init
  <2> SUFFICES ASSUME Init PROVE Protocol!Init
    OBVIOUS
  <2>1. [s \in DOMAIN stops |-> stops[s].status] = [s \in {} |-> "PENDING"]
    BY DEF Init
  <2> QED
    BY <2>1 DEF Init, Protocol!Init
<1>2. IndInv /\ [Next]_vars => [Protocol!Next]_Protocol!vars
  <2> SUFFICES ASSUME IndInv, [Next]_vars PROVE [Protocol!Next]_Protocol!vars
    OBVIOUS
  <2> DEFINE progress == [s \in DOMAIN stops |-> stops[s].status]
  <2>a. /\ Protocol!MissionStatus = MissionStatus
        /\ Protocol!Transitions(mission.status) = Transitions(mission.status)
    BY DEF Protocol!MissionStatus, MissionStatus, Protocol!Transitions, Transitions,
       Protocol!Forward, Forward, Protocol!Cancellable, Cancellable
  <2>1. ASSUME NEW r \in Requests, CommitTransition(r) PROVE Protocol!Next
    <3>1. Protocol!Advance(inflight[r].to)
      <4>1. inflight[r].to = "DELIVERED" => \E s \in DOMAIN progress : progress[s] = "COMPLETED"
        BY <2>1, TransitionEffect
      <4>2. notifications' =
              IF inflight[r].to = "DELIVERED" THEN notifications + 1 ELSE notifications
        BY <2>1 DEF CommitTransition, IndInv, TypeOK
      <4>3. UNCHANGED progress
        BY <2>1 DEF CommitTransition
      <4> QED
        BY <2>1, <2>a, <4>1, <4>2, <4>3, TransitionEffect DEF Protocol!Advance
    <3>2. inflight[r].to \in Protocol!MissionStatus
      BY <2>1, <2>a, TransitionEffect
    <3> QED
      BY <3>1, <3>2 DEF Protocol!Next
  <2>2. ASSUME NEW r \in Requests, CommitAssign(r) PROVE Protocol!Next
    <3>1. UNCHANGED <<progress, notifications>>
      BY <2>2 DEF CommitAssign
    <3>2. Protocol!Assign(mission'.crew)
      BY <2>2, <3>1, AssignEffect DEF Protocol!Assign
    <3> QED
      BY <2>2, <3>2, AssignEffect DEF Protocol!Next
  <2>3. ASSUME NEW r \in Requests, NEW s \in StopIds, CommitAddStop(r, s) PROVE Protocol!Next
    <3>1. progress' = [t \in DOMAIN progress \cup {s} |-> IF t = s THEN "PENDING" ELSE progress[t]]
      BY <2>3 DEF CommitAddStop
    <3>2. Protocol!Plan(s)
      BY <2>3, <3>1 DEF CommitAddStop, Protocol!Plan
    <3> QED
      BY <3>2 DEF Protocol!Next
  <2>4. ASSUME NEW r \in Requests, CommitUpdateStop(r) PROVE UNCHANGED Protocol!vars
    <3>1. /\ UNCHANGED <<mission, notifications>>
          /\ DOMAIN stops' = DOMAIN stops
          /\ \A s \in DOMAIN stops : stops'[s].status = stops[s].status
      BY <2>4 DEF CommitUpdateStop, IndInv, TypeOK, StopRow
    <3>2. UNCHANGED progress
      BY <3>1
    <3> QED
      BY <3>1, <3>2 DEF Protocol!vars
  <2>5. ASSUME NEW r \in Requests, CommitArrive(r) \/ CommitUnload(r) \/ CommitComplete(r)
        PROVE  Protocol!Next
    <3>1. UNCHANGED <<mission, notifications>>
      BY <2>5 DEF CommitArrive, CommitUnload, CommitComplete
    <3>2. PICK s \in DOMAIN stops :
            /\ DOMAIN stops' = DOMAIN stops
            /\ \A t \in DOMAIN stops \ {s} : stops'[t] = stops[t]
            /\ stops[s].status # "COMPLETED"
            /\ stops'[s].status = Protocol!NextStage(stops[s].status)
      BY <2>5, StopEffect
    <3>3. progress' = [progress EXCEPT ![s] = Protocol!NextStage(progress[s])]
      BY <3>2
    <3>4. Protocol!Visit(s)
      BY <3>1, <3>2, <3>3 DEF Protocol!Visit
    <3> QED
      BY <3>2, <3>4 DEF Protocol!Next
  <2>6. CASE UNCHANGED <<mission, stops, notifications>>
    BY <2>6 DEF Protocol!vars
  <2> QED
    BY <2>1, <2>2, <2>3, <2>4, <2>5, <2>6, StepCases
<1> QED
  BY <1>1, <1>2, Inductive, PTL DEF Spec, RefinesProtocol, Protocol!Spec

-------------------------------------------------------------------------------
(* What the protocol alone comes to.                                           *)

LEMMA ProtocolWords ==
  /\ Protocol!MissionStatus = MissionStatus
  /\ \A s : Protocol!Transitions(s) = Transitions(s)
  /\ Protocol!Underway = Underway /\ Protocol!Delivered = Delivered
<1>1. Protocol!MissionStatus = MissionStatus /\ Protocol!Delivered = Delivered
  BY DEF Protocol!MissionStatus, MissionStatus, Protocol!Delivered, Delivered
<1>2. \A s : Protocol!Transitions(s) = Transitions(s)
  BY DEF Protocol!Transitions, Transitions, Protocol!Forward, Forward, Protocol!Cancellable, Cancellable
<1> QED
  BY <1>1, <1>2 DEF Protocol!Underway, Underway

\* Accountable, of given values.
Stands(status, crew, progress, notified) ==
  /\ status \in MissionStatus
  /\ notified = IF status \in Delivered THEN 1 ELSE 0
  /\ status \in Underway => crew # NoCrew
  /\ status \in Delivered => \E s \in DOMAIN progress : progress[s] = "COMPLETED"

LEMMA AdvanceStands ==
  ASSUME NEW status, NEW crew, NEW progress, NEW notified, Stands(status, crew, progress, notified),
         NEW to \in Transitions(status), to = "ASSIGNED" => crew # NoCrew,
         to = "DELIVERED" => \E s \in DOMAIN progress : progress[s] = "COMPLETED"
  PROVE  Stands(to, crew, progress, IF to = "DELIVERED" THEN notified + 1 ELSE notified)
<1>1. /\ to \in MissionStatus
      /\ to \in Underway /\ to # "ASSIGNED" => status \in Underway
      /\ to \in Delivered /\ to # "DELIVERED" => status \in Delivered
      /\ to = "DELIVERED" => status = "DELIVERING"
      /\ status \in Delivered => to \in Delivered
  BY Matrix DEF Stands
<1>2. "DELIVERED" \in Delivered /\ "DELIVERING" \notin Delivered
  BY DEF Delivered
<1> QED
  BY <1>1, <1>2 DEF Stands

\* No completed stop is lost.
LEMMA ProgressStands ==
  ASSUME NEW status, NEW crew, NEW progress, NEW notified, Stands(status, crew, progress, notified),
         NEW later,
         \A s \in DOMAIN progress : s \in DOMAIN later /\ (progress[s] = "COMPLETED" => later[s] = "COMPLETED")
  PROVE  Stands(status, crew, later, notified)
BY DEF Stands

\* What a step of the protocol does to the stops.
LEMMA ProtocolKeepsStops ==
  ASSUME Protocol!Next, NEW before, before = [s \in DOMAIN stops |-> stops[s].status],
         NEW after, after = [s \in DOMAIN stops |-> stops[s].status]'
  PROVE  \A s \in DOMAIN before : s \in DOMAIN after /\ (before[s] = "COMPLETED" => after[s] = "COMPLETED")
<1>1. \/ after = before
      \/ \E s : after = [t \in DOMAIN before \cup {s} |->
                           IF t \in DOMAIN before THEN before[t] ELSE "PENDING"]
      \/ \E s \in DOMAIN before :
           before[s] # "COMPLETED" /\ after = [before EXCEPT ![s] = Protocol!NextStage(before[s])]
  <2>1. ASSUME NEW to, Protocol!Advance(to) PROVE after = before
    BY <2>1 DEF Protocol!Advance
  <2>2. ASSUME NEW c, Protocol!Assign(c) PROVE after = before
    BY <2>2 DEF Protocol!Assign
  <2>3. ASSUME NEW s, Protocol!Plan(s)
        PROVE  after = [t \in DOMAIN before \cup {s} |->
                          IF t \in DOMAIN before THEN before[t] ELSE "PENDING"]
    BY <2>3 DEF Protocol!Plan
  <2>4. ASSUME NEW s \in DOMAIN before, Protocol!Visit(s)
        PROVE  before[s] # "COMPLETED" /\ after = [before EXCEPT ![s] = Protocol!NextStage(before[s])]
    BY <2>4 DEF Protocol!Visit
  <2> QED BY <2>1, <2>2, <2>3, <2>4 DEF Protocol!Next
<1> QED
  BY <1>1

ProtocolInv ==
  Stands(mission.status, mission.crew, [s \in DOMAIN stops |-> stops[s].status], notifications)

LEMMA ProtocolInit == Protocol!Init => ProtocolInv
BY DEF Protocol!Init, ProtocolInv, Stands, MissionStatus, Underway, Delivered

LEMMA ProtocolStep == ProtocolInv /\ [Protocol!Next]_Protocol!vars => ProtocolInv'
<1> SUFFICES ASSUME ProtocolInv, [Protocol!Next]_Protocol!vars PROVE ProtocolInv'
  OBVIOUS
<1>1. PICK before, after, status, crew, notified, to, driver, told :
        /\ before = [s \in DOMAIN stops |-> stops[s].status]
        /\ after = [s \in DOMAIN stops |-> stops[s].status]'
        /\ status = mission.status /\ to = mission'.status
        /\ crew = mission.crew /\ driver = mission'.crew
        /\ notified = notifications /\ told = notifications'
  OBVIOUS
<1>2. Stands(status, crew, before, notified)
  BY <1>1 DEF ProtocolInv
<1>3. SUFFICES Stands(to, driver, after, told)
  BY <1>1 DEF ProtocolInv
<1>4. ASSUME Protocol!Advance(to) PROVE Stands(to, driver, after, told)
  <2>1. /\ to \in Transitions(status)
        /\ to = "ASSIGNED" => crew # NoCrew
        /\ to = "DELIVERED" => \E s \in DOMAIN before : before[s] = "COMPLETED"
        /\ told = IF to = "DELIVERED" THEN notified + 1 ELSE notified
        /\ driver = crew /\ after = before
    BY <1>1, <1>4, ProtocolWords DEF Protocol!Advance
  <2>2. Stands(to, crew, before, IF to = "DELIVERED" THEN notified + 1 ELSE notified)
    BY <1>2, <2>1, AdvanceStands
  <2> QED BY <2>1, <2>2
<1>5. ASSUME NEW c \in Crews, Protocol!Assign(c) PROVE Stands(to, driver, after, told)
  <2>1. /\ to = status /\ told = notified /\ driver = c /\ after = before
    BY <1>1, <1>5 DEF Protocol!Assign
  <2> QED BY <1>2, <2>1, NoCrewAssumption DEF Stands
<1>6. ASSUME Protocol!Next, to = status, told = notified, driver = crew
      PROVE  Stands(to, driver, after, told)
  <2>1. \A s \in DOMAIN before :
          s \in DOMAIN after /\ (before[s] = "COMPLETED" => after[s] = "COMPLETED")
    BY <1>1, <1>6, ProtocolKeepsStops
  <2> QED BY <1>2, <1>6, <2>1, ProgressStands
<1>7. ASSUME NEW s, Protocol!Plan(s) \/ Protocol!Visit(s)
      PROVE  to = status /\ told = notified /\ driver = crew
  BY <1>1, <1>7 DEF Protocol!Plan, Protocol!Visit
<1>8. ASSUME NEW t, Protocol!Advance(t) PROVE Protocol!Advance(to)
  BY <1>1, <1>8 DEF Protocol!Advance
<1>9. CASE Protocol!Next
  BY <1>4, <1>5, <1>6, <1>7, <1>8, <1>9 DEF Protocol!Next
<1>10. CASE UNCHANGED Protocol!vars
  BY <1>1, <1>2, <1>10 DEF Protocol!vars
<1> QED
  BY <1>9, <1>10

LEMMA ProtocolStands == ProtocolInv => Protocol!Accountable
BY ProtocolWords DEF ProtocolInv, Stands, Protocol!Accountable

\* The atomic protocol keeps what the workflow promises, so that whatever
\* implements it does.
THEOREM ProtocolAccountable == Protocol!Spec => []Protocol!Accountable
BY ProtocolInit, ProtocolStep, ProtocolStands, PTL DEF Protocol!Spec

\* No step of the protocol gives up a stop or takes back a completed one.
THEOREM ProtocolKeeps == Protocol!Spec => Protocol!StopsKept
<1>1. [Protocol!Next]_Protocol!vars => [Protocol!KeepsStops]_Protocol!vars
  BY ProtocolKeepsStops DEF Protocol!KeepsStops
<1> QED
  BY <1>1, PTL DEF Protocol!Spec, Protocol!StopsKept

\* The handlers, by the refinement.
THEOREM WorkflowAccountable == Spec => []Protocol!Accountable /\ Protocol!StopsKept
BY Implements, ProtocolAccountable, ProtocolKeeps, PTL DEF RefinesProtocol

===============================================================================
